-------------------------- MODULE Workflows_proofs --------------------------
(***************************************************************************)
(* The workflows on the flash, for any number of concurrent requests.       *)
(* Of the GIGA fixture and deployment workflows, with any number of faults: *)
(* what a workflow reports is what the flash is, and every end of one short *)
(* of a crash comes after an attempt to restore what it changed.  Of the    *)
(* target-neutral ones: the digest a result reports is that of what the     *)
(* flash held, and a request that has ended has no lease.                   *)
(***************************************************************************)
EXTENDS FlashWorkflows, CoreWorkflows, TLAPS

\* A request that can touch the flash has the lease.
LeasedHold == \A w \in Requests : stage[w] \in Leased => holder = w

\* Where the requests that do one thing can be.
Kind(w) ==
    /\ w \in Writers => stage[w] \in {"new", "waiting", "flash", "flashing"} \cup Outcomes
    /\ w \in Debuggers => stage[w] \in {"new", "waiting", "debugging"} \cup Outcomes

\* What a deployment or validation knows of the flash while it has the lease.
Knows(w) ==
    /\ stage[w] \in Leased => before[w] \in Flash
    /\ stage[w] \in {"preflight", "backup", "build", "flash"} => flash = before[w]
    /\ stage[w] \in Leased \ {"preflight", "backup"} => backup[w] = before[w]
    /\ w \in Deploys /\ stage[w] \in {"flashing", "flashing2", "between", "handshake"}
          => flash["m4"] = before[w]["m4"]
    /\ stage[w] = "handshake" => w \in Deploys

\* When its restore has begun.
Tries(w) ==
    /\ tried[w] => stage[w] \in {"restoring", "verify"} \cup Outcomes
    /\ stage[w] \in {"restoring", "verify"} => tried[w]
    /\ stage[w] \in {"new", "waiting"} => before[w] = None

\* What it says at its end.
Says(w) ==
    /\ stage[w] = "deployed" => after[w] = [before[w] EXCEPT !["m7"] = "release"]
    /\ stage[w] \in {"restored", "passed", "failed", "stopped"} => after[w] = before[w]
    /\ stage[w] \in Outcomes \ {"deployed", "crashed"} =>
          /\ tried[w] \/ before[w] \in {None, after[w]}
          /\ tried[w] => backup[w] = before[w]

RequestOK(w) == Knows(w) /\ Tries(w) /\ Says(w)

\* The inductive invariant.
IInv ==
    /\ TypeOK
    /\ LeasedHold
    /\ \A w \in Requests : Kind(w)
    /\ \A w \in Deploys \cup Validations : RequestOK(w)

\* At the start nobody has written.
LEMMA InitIInv == Init => IInv
<1> SUFFICES ASSUME Init PROVE IInv
  OBVIOUS
<1>1. TypeOK
  BY DEF Init, TypeOK, Flash, Contents
<1>2. LeasedHold
  BY DEF Init, LeasedHold, Leased
<1>3. \A w \in Deploys \cup Validations : RequestOK(w)
  BY DEF Init, RequestOK, Knows, Tries, Says, Leased, Outcomes, Requests
<1>4. \A w \in Requests : Kind(w)
  BY DEF Init, Kind
<1> QED
  BY <1>1, <1>2, <1>3, <1>4 DEF IInv

-----------------------------------------------------------------------------
(* Steps of one request                                                     *)

\* What no step of w does to another request.
Alone(w) ==
    /\ \A v \in Requests \ {w} :
          /\ stage'[v] = stage[v] /\ backup'[v] = backup[v] /\ tried'[v] = tried[v]
          /\ before'[v] = before[v] /\ after'[v] = after[v]
    /\ flash' = flash \/ stage[w] \in Leased
    /\ holder' \in {holder, w} \/ holder = w
    /\ holder' # holder => holder \in {None, w}

\* A step of one request keeps the invariant when it keeps the request's part.
LEMMA StepKeeps ==
    ASSUME IInv, NEW w \in Requests, TypeOK', Alone(w),
           stage'[w] \in Leased => holder' = w, Kind(w)',
           w \in Deploys \cup Validations => RequestOK(w)'
    PROVE  IInv'
<1>1. LeasedHold'
  <2> SUFFICES ASSUME NEW v \in Requests, stage'[v] \in Leased PROVE holder' = v
    BY DEF LeasedHold, Leased
  <2>1. CASE v = w
    BY <2>1
  <2>2. CASE v # w
    <3>1. stage[v] \in Leased
      BY <2>2 DEF Alone
    <3>2. holder = v /\ holder # None /\ holder # w
      BY <2>2, <3>1, NoneAssumption DEF IInv, LeasedHold
    <3> QED
      BY <3>2 DEF Alone
  <2> QED
    BY <2>1, <2>2
<1>2. ASSUME NEW v \in Deploys \cup Validations
      PROVE  RequestOK(v)'
  <2>1. CASE v = w
    BY <2>1
  <2>2. CASE v # w
    <3>1. v \in Requests \ {w} /\ RequestOK(v)
      BY <2>2, <1>2 DEF IInv, Requests
    <3>2. /\ stage'[v] = stage[v] /\ backup'[v] = backup[v] /\ tried'[v] = tried[v]
          /\ before'[v] = before[v] /\ after'[v] = after[v]
      BY <3>1 DEF Alone
    <3>3. flash' = flash \/ stage[v] \notin Leased
      BY <2>2, <3>1 DEF Alone, IInv, LeasedHold
    <3>4. Knows(v)'
      BY <3>1, <3>2, <3>3 DEF RequestOK, Knows, Leased
    <3>5. Tries(v)' /\ Says(v)'
      BY <3>1, <3>2 DEF RequestOK, Tries, Says, Outcomes
    <3> QED
      BY <3>4, <3>5 DEF RequestOK
  <2> QED
    BY <2>1, <2>2
<1>3. ASSUME NEW v \in Requests
      PROVE  Kind(v)'
  BY <1>3 DEF IInv, Kind, Alone, Outcomes
<1> QED
  BY <1>1, <1>2, <1>3 DEF IInv

\* A request that ends.
LEMMA EndKeeps ==
    ASSUME IInv, NEW w \in Requests, NEW outcome \in Outcomes, End(w, outcome),
           flash' \in Flash, good' \in [Requests -> BOOLEAN], faults' \in Nat,
           flash' = flash \/ stage[w] \in Leased,
           w \in Deploys \cup Validations =>
              /\ outcome = "deployed" => flash' = [before[w] EXCEPT !["m7"] = "release"]
              /\ outcome \in {"restored", "passed", "failed", "stopped"} => flash' = before[w]
              /\ outcome # "deployed" =>
                    /\ tried[w] \/ before[w] \in {None, flash'}
                    /\ tried[w] => backup[w] = before[w]
    PROVE  IInv'
<1>1. TypeOK'
  BY DEF End, IInv, TypeOK
<1>2. stage'[w] = outcome /\ after'[w] = flash'
  BY DEF End, IInv, TypeOK
<1>3. Alone(w)
  BY DEF Alone, End, IInv, TypeOK
<1>4. outcome \notin Leased /\ outcome \notin {"new", "waiting"}
  BY DEF Leased, Outcomes
<1>5. ASSUME w \in Deploys \cup Validations
      PROVE  RequestOK(w)'
  <2>1. Knows(w)' /\ Tries(w)'
    BY <1>2, <1>4 DEF Knows, Tries, Leased, Outcomes
  <2>2. Says(w)'
    BY <1>2, <1>5 DEF Says, End, Outcomes
  <2> QED
    BY <2>1, <2>2 DEF RequestOK
<1>6. Kind(w)'
  BY <1>2 DEF Kind
<1> QED
  BY <1>1, <1>2, <1>3, <1>4, <1>5, <1>6, StepKeeps

\* A request that writes nothing and ends.
LEMMA StopKeeps ==
    ASSUME IInv, NEW w \in Requests, NEW outcome \in Outcomes, Stop(w, outcome), faults' \in Nat,
           w \in Deploys \cup Validations =>
              /\ outcome = "deployed" => flash = [before[w] EXCEPT !["m7"] = "release"]
              /\ outcome \in {"restored", "passed", "failed", "stopped"} => flash = before[w]
              /\ outcome # "deployed" =>
                    /\ tried[w] \/ before[w] \in {None, flash}
                    /\ tried[w] => backup[w] = before[w]
    PROVE  IInv'
<1>1. flash' = flash /\ good' = good /\ End(w, outcome)
  BY DEF Stop
<1>2. flash' \in Flash /\ good' \in [Requests -> BOOLEAN]
  BY <1>1 DEF IInv, TypeOK
<1> QED
  BY <1>1, <1>2, EndKeeps

\* A request that goes on with the lease it has.
LEMMA GoOnKeeps ==
    ASSUME IInv, NEW w \in Requests, NEW to \in Leased \cup {"waiting"},
           stage' = [stage EXCEPT ![w] = to], to \in Leased => holder = w,
           w \in Deploys \cup Validations \/ to = "waiting" \/ (w \in Writers /\ to = "flashing"),
           holder' = holder, before' = before, after' = after,
           flash' \in Flash, good' \in [Requests -> BOOLEAN], cut' \in [Requests -> BOOLEAN],
           tried' \in [Requests -> BOOLEAN], backup' \in [Requests -> Flash \cup {None}],
           faults' \in Nat,
           \A v \in Requests \ {w} : backup'[v] = backup[v] /\ tried'[v] = tried[v],
           flash' = flash \/ stage[w] \in Leased,
           w \in Deploys \cup Validations => Knows(w)' /\ Tries(w)'
    PROVE  IInv'
<1>1. TypeOK'
  BY DEF IInv, TypeOK
<1>2. Alone(w)
  BY DEF Alone, IInv, TypeOK
<1>3. stage'[w] = to
  BY DEF IInv, TypeOK
<1>4. Says(w)'
  BY <1>3 DEF Says, Outcomes, Leased
<1>5. Kind(w)'
  BY <1>3, KindsAssumption DEF Kind
<1> QED
  BY <1>1, <1>2, <1>3, <1>4, <1>5, StepKeeps DEF RequestOK

-----------------------------------------------------------------------------
(* The actions                                                              *)

\* Counting a fault keeps the counter a number.
LEMMA FailTypes == ASSUME TypeOK, NEW ok \in BOOLEAN, MayFail(ok) PROVE faults' \in Nat
  BY DEF MayFail, TypeOK

\* What the invariant says of one request.
LEMMA Known ==
    ASSUME IInv, NEW w \in Requests
    PROVE  /\ stage[w] \in Leased => holder = w
           /\ Kind(w)
           /\ w \in Deploys \cup Validations => Knows(w) /\ Tries(w)
           /\ flash \in Flash /\ good \in [Requests -> BOOLEAN] /\ cut \in [Requests -> BOOLEAN]
           /\ tried \in [Requests -> BOOLEAN] /\ backup \in [Requests -> Flash \cup {None}]
           /\ stage \in [Requests -> Leased \cup Outcomes \cup {"new", "waiting"}]
           /\ before \in [Requests -> Flash \cup {None}] /\ faults \in Nat
  BY DEF IInv, TypeOK, LeasedHold, RequestOK

\* Asking for the lease, or refusing a release: nothing was written.
LEMMA BeginKeeps ==
    ASSUME IInv, NEW w \in Requests, NEW ok \in BOOLEAN, Begin(w, ok) PROVE IInv'
<1>1. faults' \in Nat
  BY FailTypes DEF Begin, IInv
<1>2. CASE ok
  <2>1. w \in Deploys \cup Validations => Knows(w)' /\ Tries(w)'
    BY <1>2, Known DEF Begin, Go, Knows, Tries, Leased, Outcomes
  <2> QED
    BY <1>1, <1>2, <2>1, GoOnKeeps, Known DEF Begin, Go, Leased, Kind, Outcomes, Requests
<1>3. CASE ~ok
  <2>1. w \in Deploys \cup Validations => ~tried[w] /\ before[w] = None
    BY <1>3, Known DEF Begin, Tries, Outcomes
  <2> QED
    BY <1>1, <1>3, <2>1, StopKeeps DEF Begin, Outcomes
<1> QED
  BY <1>2, <1>3

\* The flash at the grant of the lease is what the request has to put back.
LEMMA AcquireKeeps == ASSUME IInv, NEW w \in Requests, Acquire(w) PROVE IInv'
<1> DEFINE to == CASE w \in Deploys -> "backup" [] w \in Validations -> "preflight"
                   [] w \in Writers -> "flash" [] w \in Debuggers -> "debugging"
<1>1. /\ to \in {"backup", "preflight", "flash", "debugging"}
      /\ w \in Deploys \cup Validations => to \in {"backup", "preflight"}
      /\ w \in Writers => to = "flash"
      /\ w \in Debuggers => to = "debugging"
  BY KindsAssumption DEF Requests
<1>2. stage' = [stage EXCEPT ![w] = to]
  BY DEF Acquire
<1> HIDE DEF to
<1>3. stage'[w] = to /\ before'[w] = flash
  BY <1>2 DEF Acquire, IInv, TypeOK
<1>4. TypeOK'
  <2>1. stage' \in [Requests -> Leased \cup Outcomes \cup {"new", "waiting"}]
    BY <1>1, <1>2, Known DEF Leased
  <2>2. before' \in [Requests -> Flash \cup {None}] /\ holder' \in Requests \cup {None}
    BY Known DEF Acquire
  <2>3. UNCHANGED <<flash, backup, good, tried, cut, after, faults>>
    BY DEF Acquire
  <2> QED
    BY <2>1, <2>2, <2>3 DEF IInv, TypeOK
<1>5. Alone(w)
  BY <1>2 DEF Alone, Acquire, IInv, TypeOK
<1>6. Kind(w)'
  BY <1>1, <1>3, KindsAssumption DEF Kind
<1>7. ASSUME w \in Deploys \cup Validations
      PROVE  RequestOK(w)'
  <2>1. Knows(w)'
    BY <1>1, <1>3, <1>7, Known DEF Acquire, Knows
  <2>2. Tries(w)' /\ Says(w)'
    BY <1>1, <1>3, <1>7, Known DEF Acquire, Tries, Says, Outcomes
  <2> QED
    BY <2>1, <2>2 DEF RequestOK
<1> QED
  BY <1>3, <1>4, <1>5, <1>6, <1>7, StepKeeps DEF Acquire

\* A request that finds the probe busy ends without a write.
LEMMA BusyKeeps == ASSUME IInv, NEW w \in Requests, Busy(w) PROVE IInv'
<1>1. w \in Deploys \cup Validations => ~tried[w] /\ before[w] = None
  BY Known DEF Busy, Tries, Outcomes
<1> QED
  BY <1>1, StopKeeps, Known DEF Busy, Outcomes

\* A failed preflight ends the validation before it writes.
LEMMA PreflightKeeps ==
    ASSUME IInv, NEW w \in Requests, NEW ok \in BOOLEAN, Preflight(w, ok) PROVE IInv'
<1>1. faults' \in Nat
  BY FailTypes DEF Preflight, IInv
<1>2. CASE ok
  <2>1. w \in Deploys \cup Validations => Knows(w)' /\ Tries(w)'
    BY <1>2, Known DEF Preflight, Go, Knows, Tries, Leased, Outcomes
  <2>2. w \in Deploys \cup Validations /\ stage[w] \in Leased /\ holder = w
    BY Known DEF Preflight, Kind, Leased, Outcomes, Requests
  <2>3. /\ stage' = [stage EXCEPT ![w] = "backup"]
        /\ UNCHANGED <<flash, holder, backup, good, tried, cut, before, after>>
    BY <1>2 DEF Preflight, Go
  <2>4. "backup" \in Leased
    BY DEF Leased
  <2> QED
    BY <1>1, <2>1, <2>2, <2>3, <2>4, GoOnKeeps, Known
<1>3. CASE ~ok
  <2>1. w \in Deploys \cup Validations => ~tried[w] /\ before[w] = flash
    BY <1>3, Known DEF Preflight, Tries, Knows, Outcomes
  <2> QED
    BY <1>1, <1>3, <2>1, StopKeeps DEF Preflight, Outcomes
<1> QED
  BY <1>2, <1>3

\* The backup is the flash at the grant: the lease kept every other writer
\* away since.
LEMMA BackupKeeps ==
    ASSUME IInv, NEW w \in Requests, NEW ok \in BOOLEAN, Backup(w, ok) PROVE IInv'
<1>1. faults' \in Nat
  BY FailTypes DEF Backup, IInv
<1>2. CASE ok
  <2> DEFINE to == IF w \in Deploys THEN "flash" ELSE "build"
  <2>1. to \in {"flash", "build"} /\ stage' = [stage EXCEPT ![w] = to]
    BY <1>2 DEF Backup
  <2> HIDE DEF to
  <2>2. stage'[w] = to /\ backup'[w] = flash /\ backup' \in [Requests -> Flash \cup {None}]
    BY <1>2, <2>1, Known DEF Backup
  <2>3. w \in Deploys \cup Validations => Knows(w)' /\ Tries(w)'
    BY <1>2, <2>1, <2>2, Known DEF Backup, Knows, Tries, Leased, Outcomes
  <2>4. w \in Deploys \cup Validations /\ holder = w
    BY Known DEF Backup, Leased, Kind, Outcomes, Requests
  <2>5. /\ holder' = holder /\ before' = before /\ after' = after /\ flash' = flash
        /\ good' = good /\ cut' = cut /\ tried' = tried
        /\ \A v \in Requests \ {w} : backup'[v] = backup[v]
    BY <1>2, Known DEF Backup
  <2> QED
    BY <1>1, <2>1, <2>2, <2>3, <2>4, <2>5, GoOnKeeps, Known DEF Leased
<1>3. CASE ~ok
  <2>1. w \in Deploys \cup Validations => ~tried[w] /\ before[w] = flash
    BY <1>3, Known DEF Backup, Tries, Knows, Outcomes
  <2> QED
    BY <1>1, <1>3, <2>1, StopKeeps DEF Backup, Outcomes
<1> QED
  BY <1>2, <1>3

\* A failed build sends the validation to the restore.
LEMMA BuildKeeps ==
    ASSUME IInv, NEW w \in Requests, NEW ok \in BOOLEAN, Build(w, ok) PROVE IInv'
<1>1. faults' \in Nat
  BY FailTypes DEF Build, IInv
<1> DEFINE to == IF ok THEN "flash" ELSE "recover"
<1>2. to \in {"flash", "recover"} /\ stage' = [stage EXCEPT ![w] = to]
  BY DEF Build
<1> HIDE DEF to
<1>3. stage'[w] = to /\ good' \in [Requests -> BOOLEAN]
  BY <1>2, Known DEF Build
<1>4. w \in Deploys \cup Validations => Knows(w)' /\ Tries(w)'
  BY <1>2, <1>3, Known DEF Build, Knows, Tries, Leased, Outcomes
<1> QED
  BY <1>1, <1>2, <1>3, <1>4, GoOnKeeps, Known DEF Build, Leased, Kind, Outcomes, Requests

\* Only the holder of the lease begins to write, to banks of its own kind.
LEMMA WriteKeeps == ASSUME IInv, NEW w \in Requests, Write(w) PROVE IInv'
<1> DEFINE to == IF stage[w] = "flash" THEN "flashing" ELSE "flashing2"
           banks == Target(w, stage[w]).banks
<1>1. to \in {"flashing", "flashing2"} /\ stage' = [stage EXCEPT ![w] = to] /\ flash' = Torn(banks)
      /\ (stage[w] = "flash" => to = "flashing")
  BY DEF Write
<1>2. w \in Deploys => banks = {"m7"}
  BY KindsAssumption DEF Target
<1> HIDE DEF to, banks
<1>3. stage'[w] = to
  BY <1>1, Known
<1>4. flash' \in Flash /\ (w \in Deploys => flash'["m4"] = flash["m4"])
  BY <1>1, <1>2, Known DEF Torn, Flash, Contents, Banks
<1>5. w \in Deploys \cup Validations => Knows(w)' /\ Tries(w)'
  BY <1>1, <1>3, <1>4, Known DEF Write, Knows, Tries, Leased, Outcomes
<1> QED
  BY <1>1, <1>3, <1>4, <1>5, GoOnKeeps, Known DEF Write, Leased, Kind, Outcomes, Requests

\* An identity preflight that refuses writes nothing, and a refused restore
\* is reported as such.
LEMMA RefusedKeeps == ASSUME IInv, NEW w \in Requests, Refused(w) PROVE IInv'
<1>1. faults' \in Nat
  BY FailTypes DEF Refused, IInv
<1>2. CASE w \in Writers
  <2>1. w \notin Deploys \cup Validations
    BY <1>2, KindsAssumption
  <2> QED
    BY <1>1, <1>2, <2>1, StopKeeps DEF Refused, Outcomes
<1>3. CASE w \notin Writers /\ stage[w] = "recover"
  <2> DEFINE to == Report(w, FALSE)
  <2>1. to \in {"cancelled", "unrestored"}
    BY DEF Report
  <2>2. /\ stage' = [stage EXCEPT ![w] = to] /\ tried' = [tried EXCEPT ![w] = TRUE]
        /\ after' = [after EXCEPT ![w] = flash]
    BY <1>3 DEF Refused
  <2> HIDE DEF to
  <2>3. stage'[w] = to /\ tried'[w] = TRUE /\ after'[w] = flash
    BY <2>2 DEF IInv, TypeOK
  <2>4. TypeOK'
    BY <1>1, <1>3, <2>1, <2>2 DEF Refused, IInv, TypeOK, Outcomes
  <2>5. Alone(w)
    BY <1>3, <2>2, Known DEF Alone, Refused, IInv, TypeOK, Leased
  <2>6. w \in Deploys \cup Validations => RequestOK(w)'
    <3>1. w \in Deploys \cup Validations => backup[w] = before[w]
      BY <1>3, Known DEF Knows, Leased
    <3> QED
      BY <1>3, <2>1, <2>3, <3>1 DEF Refused, RequestOK, Knows, Tries, Says, Leased, Outcomes
  <2> QED
    BY <2>1, <2>3, <2>4, <2>5, <2>6, StepKeeps DEF Leased, Kind, Outcomes
<1>4. CASE w \notin Writers /\ stage[w] # "recover"
  <2>1. good' \in [Requests -> BOOLEAN] /\ stage' = [stage EXCEPT ![w] = "recover"]
    BY <1>4, Known DEF Refused
  <2>2. w \in Deploys \cup Validations => Knows(w)' /\ Tries(w)'
    BY <1>4, <2>1, Known DEF Refused, Knows, Tries, Leased, Outcomes
  <2> QED
    BY <1>1, <1>4, <2>1, <2>2, GoOnKeeps, Known DEF Refused, Leased, Kind, Outcomes, Requests
<1> QED
  BY <1>2, <1>3, <1>4

\* A run that is reported to have worked has filled its banks.
LEMMA WrittenKeeps ==
    ASSUME IInv, NEW w \in Requests, NEW ok \in BOOLEAN, NEW left \in {"filled", "torn"},
           Written(w, ok, left)
    PROVE  IInv'
<1> DEFINE target == Target(w, stage[w])
<1>1. faults' \in Nat
  BY FailTypes DEF Written, IInv
<1>2. target.image \in Contents /\ (w \in Deploys => target.banks = {"m7"})
  BY KindsAssumption DEF Target, Contents, Requests
<1>3. flash' = IF left = "filled" THEN Filled(target) ELSE flash
  BY DEF Written
<1> HIDE DEF target
<1>4. flash' \in Flash /\ (w \in Deploys => flash'["m4"] = flash["m4"])
  BY <1>2, <1>3, Known DEF Filled, Flash, Banks
<1>5. stage[w] \in Leased
  BY DEF Written, Leased
<1>6. CASE w \in Writers
  <2>1. w \notin Deploys \cup Validations
    BY <1>6, KindsAssumption
  <2>2. End(w, IF ok THEN "written" ELSE "unwritten") /\ good' = good
    BY <1>6 DEF Written
  <2>3. (IF ok THEN "written" ELSE "unwritten") \in Outcomes
    BY DEF Outcomes
  <2> QED
    BY <1>1, <1>4, <1>5, <2>1, <2>2, <2>3, EndKeeps, Known
<1>7. CASE w \notin Writers
  <2> DEFINE to == CASE w \in Deploys -> IF ok THEN "handshake" ELSE "recover"
                     [] OTHER -> IF stage[w] = "flashing" THEN "between" ELSE "observe"
  <2>1. /\ to \in {"handshake", "recover", "between", "observe"}
        /\ to = "handshake" => w \in Deploys
    OBVIOUS
  <2>2. stage' = [stage EXCEPT ![w] = to]
    BY <1>7 DEF Written
  <2> HIDE DEF to
  <2>3. stage'[w] = to /\ good' \in [Requests -> BOOLEAN]
    BY <1>7, <2>2, Known DEF Written
  <2>4. w \in Deploys \cup Validations => Knows(w)'
    BY <1>4, <1>7, <2>1, <2>3, Known DEF Written, Knows, Leased
  <2>5. w \in Deploys \cup Validations => Tries(w)'
    BY <1>7, <2>1, <2>3, Known DEF Written, Tries, Outcomes
  <2>6. w \in Deploys \cup Validations /\ holder = w
    BY <1>5, <1>7, Known DEF Written, Kind, Outcomes, Requests
  <2>7. UNCHANGED <<holder, backup, tried, cut, before, after>>
    BY <1>7 DEF Written
  <2>8. to \in Leased
    BY <2>1 DEF Leased
  <2> QED
    BY <1>1, <1>4, <1>5, <2>2, <2>3, <2>4, <2>5, <2>6, <2>7, <2>8, GoOnKeeps, Known
<1> QED
  BY <1>6, <1>7

\* A deployment is reported only of the flash whose identity answers.
LEMMA HandshakeKeeps ==
    ASSUME IInv, NEW w \in Requests, NEW ok \in BOOLEAN, Handshake(w, ok) PROVE IInv'
<1>1. faults' \in Nat
  BY FailTypes DEF Handshake, IInv
<1>2. w \in Deploys
  BY Known DEF Handshake, Kind, Knows, Outcomes, Requests
<1>3. CASE ok /\ flash["m7"] = "release"
  <2>1. before[w] \in Flash /\ flash["m4"] = before[w]["m4"] /\ ~tried[w]
    BY <1>2, Known DEF Handshake, Knows, Tries, Leased, Outcomes
  <2>2. flash = [before[w] EXCEPT !["m7"] = "release"]
    BY <1>3, <2>1, Known DEF Flash, Banks
  <2> QED
    BY <1>1, <1>3, <2>2, StopKeeps DEF Handshake, Outcomes
<1>4. CASE ~(ok /\ flash["m7"] = "release")
  <2>1. w \in Deploys \cup Validations => Knows(w)' /\ Tries(w)'
    BY <1>4, Known DEF Handshake, Go, Knows, Tries, Leased, Outcomes
  <2>2. /\ stage' = [stage EXCEPT ![w] = "recover"]
        /\ UNCHANGED <<flash, holder, backup, good, tried, cut, before, after>>
    BY <1>4 DEF Handshake, Go
  <2>3. stage[w] \in Leased /\ "recover" \in Leased
    BY DEF Handshake, Leased
  <2> QED
    BY <1>1, <1>2, <2>1, <2>2, <2>3, GoOnKeeps, Known
<1> QED
  BY <1>3, <1>4

\* Observation leaves the flash alone.
LEMMA ObserveKeeps ==
    ASSUME IInv, NEW w \in Requests, NEW ok \in BOOLEAN, NEW raised \in BOOLEAN,
           Observe(w, ok, raised)
    PROVE  IInv'
<1>1. faults' \in Nat
  BY FailTypes DEF Observe, IInv
<1> DEFINE to == IF raised THEN "recover" ELSE "debug"
<1>2. to \in {"recover", "debug"} /\ stage' = [stage EXCEPT ![w] = to]
  BY DEF Observe
<1> HIDE DEF to
<1>3. stage'[w] = to /\ good' \in [Requests -> BOOLEAN]
  BY <1>2, Known DEF Observe
<1>4. w \in Deploys \cup Validations => Knows(w)' /\ Tries(w)'
  BY <1>2, <1>3, Known DEF Observe, Knows, Tries, Leased, Outcomes
<1> QED
  BY <1>1, <1>2, <1>3, <1>4, GoOnKeeps, Known DEF Observe, Leased, Kind, Outcomes, Requests

\* A debug session gets the lease only when nobody has it.
LEMMA DebugAcquireKeeps == ASSUME IInv, NEW w \in Requests, DebugAcquire(w) PROVE IInv'
<1>1. holder = w /\ holder # None
  BY Known, NoneAssumption DEF DebugAcquire, Leased
<1>2. stage' = [stage EXCEPT ![w] = "recover"] /\ good' \in [Requests -> BOOLEAN]
  BY <1>1, Known DEF DebugAcquire
<1>3. w \in Deploys \cup Validations => Knows(w)' /\ Tries(w)'
  BY <1>1, <1>2, Known DEF DebugAcquire, Knows, Tries, Leased, Outcomes
<1> QED
  BY <1>1, <1>2, <1>3, GoOnKeeps, Known DEF DebugAcquire, Leased, Kind, Outcomes, Requests

\* Debugging leaves the flash alone.
LEMMA DebugEndKeeps ==
    ASSUME IInv, NEW w \in Requests, NEW ok \in BOOLEAN, DebugEnd(w, ok) PROVE IInv'
<1>1. faults' \in Nat
  BY FailTypes DEF DebugEnd, IInv
<1>2. CASE w \in Debuggers
  <2>1. w \notin Deploys \cup Validations
    BY <1>2, KindsAssumption
  <2>2. (IF ok THEN "debugged" ELSE "failed") \in Outcomes
    BY DEF Outcomes
  <2>3. Stop(w, IF ok THEN "debugged" ELSE "failed")
    BY <1>2 DEF DebugEnd
  <2> QED
    BY <1>1, <2>1, <2>2, <2>3, StopKeeps
<1>3. CASE w \notin Debuggers
  <2>1. good' \in [Requests -> BOOLEAN]
    BY <1>3, Known DEF DebugEnd
  <2>2. w \in Deploys \cup Validations => Knows(w)' /\ Tries(w)'
    BY <1>3, Known DEF DebugEnd, Knows, Tries, Leased, Outcomes
  <2>3. w \in Deploys \cup Validations /\ holder = w
    BY <1>3, Known DEF DebugEnd, Leased, Kind, Outcomes, Requests
  <2> QED
    BY <1>1, <1>3, <2>1, <2>2, <2>3, GoOnKeeps, Known DEF DebugEnd, Leased
<1> QED
  BY <1>2, <1>3

\* The restore is marked as tried before it writes.
LEMMA RestoreKeeps == ASSUME IInv, NEW w \in Requests, Restore(w) PROVE IInv'
<1>1. flash' \in Flash
  BY Known DEF Restore, Torn, Flash, Contents
<1>2. tried' \in [Requests -> BOOLEAN] /\ tried'[w] = TRUE /\ stage'[w] = "restoring"
  BY Known DEF Restore
<1>3. w \in Deploys \cup Validations => Knows(w)' /\ Tries(w)'
  BY <1>2, Known DEF Restore, Knows, Tries, Leased, Outcomes
<1> QED
  BY <1>1, <1>2, <1>3, GoOnKeeps, Known DEF Restore, Leased, Kind, Outcomes, Requests

\* The restored banks come from the backup of this request.
LEMMA RestoredKeeps ==
    ASSUME IInv, NEW w \in Requests, NEW ok \in BOOLEAN, NEW left \in SUBSET Banks,
           Restored(w, ok, left)
    PROVE  IInv'
<1>1. faults' \in Nat
  BY FailTypes DEF Restored, IInv
<1>2. backup[w] \in Flash
  BY Known DEF Restored, Kind, Knows, Leased, Outcomes, Requests
<1>3. flash' \in Flash
  BY <1>2, Known DEF Restored, Flash
<1>4. good' \in [Requests -> BOOLEAN] /\ stage'[w] = "verify"
  BY Known DEF Restored
<1>5. w \in Deploys \cup Validations => Knows(w)' /\ Tries(w)'
  BY <1>4, Known DEF Restored, Knows, Tries, Leased, Outcomes
<1> QED
  BY <1>1, <1>3, <1>4, <1>5, GoOnKeeps, Known DEF Restored, Leased, Kind, Outcomes, Requests

\* A restore is reported as verified only of the flash the backup holds.
LEMMA VerifyKeeps ==
    ASSUME IInv, NEW w \in Requests, NEW ok \in BOOLEAN, Verify(w, ok) PROVE IInv'
<1> DEFINE restored == ok /\ flash = backup[w]
           outcome == Report(w, restored)
<1>1. faults' \in Nat
  BY FailTypes DEF Verify, IInv
<1>2. /\ outcome \in {"cancelled", "unrestored", "restored", "passed", "failed"}
      /\ outcome \in {"restored", "passed", "failed"} => restored
  BY DEF Report
<1>3. Stop(w, outcome)
  BY DEF Verify
<1>4. w \in Deploys \cup Validations => tried[w] /\ backup[w] = before[w]
  BY Known DEF Verify, Tries, Knows, Leased
<1> HIDE DEF outcome
<1> QED
  BY <1>1, <1>2, <1>3, <1>4, StopKeeps DEF Outcomes

\* A cancellation in a try block leads to the restore; outside of one it
\* ends a request that has not written, or whose restore has begun.
LEMMA CancelKeeps == ASSUME IInv, NEW w \in Requests, Cancel(w) PROVE IInv'
<1>1. faults' \in Nat
  BY FailTypes DEF Cancel, IInv
<1>2. CASE Guarded(w)
  <2>1. cut' \in [Requests -> BOOLEAN] /\ stage'[w] = "recover"
    BY <1>2, Known DEF Cancel
  <2>2. w \in Deploys \cup Validations => Knows(w)' /\ Tries(w)'
    BY <1>2, <2>1, Known DEF Cancel, Guarded, Knows, Tries, Leased, Outcomes
  <2>3. w \in Deploys \cup Validations /\ holder = w
    BY <1>2, Known DEF Guarded, Leased
  <2>4. stage' = [stage EXCEPT ![w] = "recover"]
        /\ UNCHANGED <<flash, holder, backup, good, tried, before, after>>
    BY <1>2 DEF Cancel
  <2> QED
    BY <1>1, <2>1, <2>2, <2>3, <2>4, GoOnKeeps, Known DEF Leased
<1>3. CASE ~Guarded(w)
  <2> DEFINE outcome == IF w \in Deploys /\ stage[w] \in {"restoring", "verify"}
                        THEN "unrestored" ELSE "cancelled"
  <2>1. outcome \in {"unrestored", "cancelled"} /\ Stop(w, outcome)
    BY <1>3 DEF Cancel
  <2> HIDE DEF outcome
  <2>2. ASSUME w \in Deploys \cup Validations
        PROVE  /\ tried[w] \/ before[w] \in {None, flash}
               /\ tried[w] => backup[w] = before[w]
    <3>1. stage[w] \in {"waiting", "preflight", "backup", "restoring", "verify"}
      BY <1>3, <2>2 DEF Cancel, Guarded, Leased
    <3> QED
      BY <2>2, <3>1, Known DEF Knows, Tries, Leased, Outcomes
  <2> QED
    BY <1>1, <2>1, <2>2, StopKeeps DEF Outcomes
<1> QED
  BY <1>2, <1>3

\* The end of the server ends every request.
LEMMA CrashKeeps == ASSUME IInv, Crash PROVE IInv'
<1>1. faults' \in Nat
  BY FailTypes DEF Crash, IInv
<1>2. \A w \in Requests : /\ stage'[w] = IF stage[w] \in Outcomes THEN stage[w] ELSE "crashed"
                          /\ after'[w] = IF stage[w] \in Outcomes THEN after[w] ELSE flash
  BY DEF Crash
<1>3. \A w \in Requests : stage'[w] \in Outcomes
  BY <1>2 DEF Outcomes
<1>4. TypeOK'
  BY <1>1, <1>3 DEF Crash, IInv, TypeOK
<1>5. LeasedHold'
  BY <1>3 DEF LeasedHold, Leased, Outcomes
<1>6. \A w \in Requests : Kind(w)'
  BY <1>3 DEF Kind
<1>7. ASSUME NEW w \in Deploys \cup Validations
      PROVE  RequestOK(w)'
  <2>1. w \in Requests /\ RequestOK(w)
    BY <1>7 DEF IInv, Requests
  <2>2. Knows(w)'
    BY <1>3, <2>1 DEF Knows, Leased, Outcomes
  <2>3. Tries(w)'
    BY <1>3, <2>1 DEF Tries, Outcomes
  <2>4. Says(w)'
    BY <1>2, <2>1 DEF Crash, RequestOK, Says, Outcomes
  <2> QED
    BY <2>2, <2>3, <2>4 DEF RequestOK
<1> QED
  BY <1>4, <1>5, <1>6, <1>7 DEF IInv

-----------------------------------------------------------------------------

\* Every step keeps the invariant.
LEMMA NextKeeps == IInv /\ [Next]_vars => IInv'
<1> SUFFICES ASSUME IInv, [Next]_vars PROVE IInv'
  OBVIOUS
<1>1. ASSUME NEW w \in Requests, Step(w)
      PROVE  IInv'
  BY <1>1, AcquireKeeps, BusyKeeps, WriteKeeps, RefusedKeeps, DebugAcquireKeeps, RestoreKeeps,
     BeginKeeps, PreflightKeeps, BackupKeeps, BuildKeeps, WrittenKeeps, HandshakeKeeps,
     ObserveKeeps, DebugEndKeeps, RestoredKeeps, VerifyKeeps DEF Step
<1>2. ASSUME NEW w \in Requests, Cancel(w)
      PROVE  IInv'
  BY <1>2, CancelKeeps
<1>3. CASE Crash
  BY <1>3, CrashKeeps
<1>4. CASE UNCHANGED vars
  BY <1>4 DEF vars, IInv, TypeOK, LeasedHold, Kind, RequestOK, Knows, Tries, Says
<1> QED
  BY <1>1, <1>2, <1>3, <1>4 DEF Next

\* The inductive invariant: while a deployment or validation has the lease it
\* knows the flash it found, and nobody else writes.
THEOREM Invariance == Spec => []IInv
<1>1. IInv /\ [Next]_vars => IInv'
  BY NextKeeps
<1> QED
  BY InitIInv, <1>1, PTL DEF Spec

\* What the workflows report is what the flash is: deploy_protocol_bridge and
\* validate_fixture beside any other writers of the same board.
THEOREM ReportsAreTrue == Spec => []EndsAsItSays
<1>1. IInv => EndsAsItSays
  BY DEF IInv, RequestOK, Says, EndsAsItSays
<1> QED
  BY <1>1, Invariance, PTL

\* Their finally and except blocks restore what they changed on every way out,
\* cancellations included.
THEOREM RestoresAreAttempted == Spec => []RestoreAttempted
<1>1. IInv => RestoreAttempted
  BY DEF IInv, RequestOK, Says, RestoreAttempted
<1> QED
  BY <1>1, Invariance, PTL
-----------------------------------------------------------------------------
(* The workflows of the core                                                *)

\* The stages of a request that has the lease, and all of them.
Held == {"loading", "comparing", "saving", "session", "stopping"}
CallStages == Final \cup Held \cup {"waiting", "hashing", "rechecking"}
Digests == Images \cup {"torn", Nil}
Calls == [kind : Workflows \cup {"none"}, at : CallStages,
          hash : Digests, own : Digests, seen : Digests, ok : BOOLEAN, had : SUBSET Images]

CoreTypeOK ==
    /\ region \in Images \cup {"torn"} /\ source \in Images
    /\ call \in [Callers -> Calls]

\* The lease is that of the one request whose Commander run or session is on.
LeaseIsOfRun == \A c \in Callers : call[c].at \in Held <=> lease = c

\* Where the requests of a kind can be.
StageOfKind(r) ==
    /\ r.at = "waiting" => r.kind \in Workflows
    /\ r.at = "loading" => r.kind \in Writing
    /\ r.at = "comparing" => r.kind \in {"flash_binary", "restore_backup", "compare_firmware",
                                         "compare_backup_region"}
    /\ r.at = "saving" => r.kind = "backup_flash"
    /\ r.at \in {"session", "stopping"} => r.kind = "capture_rtt"
    /\ r.at = "hashing" => r.kind \in Writing \cup {"backup_flash"}
    /\ r.at = "rechecking" => r.kind = "restore_backup"

\* The digest a request has taken, or will take, is that of what it has
\* compared or saved, or of a content that the source file had meanwhile.
DigestFollows(r) ==
    /\ r.kind = "compare_backup_region" /\ r.at # "new" => r.hash = r.own
    /\ r.kind = "backup_flash" /\ r.at = "hashing" /\ r.ok => r.own = r.seen
    /\ r.at \notin Final => source \in r.had
    /\ r.kind \in {"restore_backup", "compare_firmware"} /\ r.at \notin Final
          => r.hash \in r.had
    /\ r.kind \in {"flash_and_verify", "flash_binary"} /\ r.at = "hashing" /\ r.ok
          => r.seen \in r.had

\* What a result says.
DigestTrue(r) ==
    r.at = "returned" /\ r.ok /\ r.kind # "capture_rtt" =>
        IF r.kind \in {"backup_flash", "compare_backup_region"}
        THEN r.hash = r.seen
        ELSE {r.hash, r.seen} \subseteq r.had

CallOK(r) == StageOfKind(r) /\ DigestFollows(r) /\ DigestTrue(r)

CoreInv == CoreTypeOK /\ LeaseIsOfRun /\ \A c \in Callers : CallOK(call[c])

\* No request has begun and the file is an image.
LEMMA CoreInitInv == CoreInit => CoreInv
<1> SUFFICES ASSUME CoreInit PROVE CoreInv
  OBVIOUS
<1> USE ImageAssumption
<1>1. /\ NewCall \in Calls /\ NewCall.at = "new" /\ NewCall.kind = "none"
  BY DEF NewCall, Calls, Digests, CallStages, Final
<1>2. CallOK(NewCall)
  BY <1>1 DEF CallOK, StageOfKind, DigestFollows, DigestTrue, Final
<1>3. \A c \in Callers : call[c] = NewCall
  BY DEF CoreInit
<1>4. CoreTypeOK
  BY <1>1 DEF CoreInit, CoreTypeOK
<1>5. LeaseIsOfRun
  BY <1>1, <1>3 DEF CoreInit, LeaseIsOfRun, Held
<1> QED
  BY <1>2, <1>3, <1>4, <1>5 DEF CoreInv

\* A step of one request, which takes the lease, keeps it, gives it back or has
\* nothing to do with it.
LEMMA OneProceeds ==
    ASSUME CoreInv, NEW c \in Callers, NEW new \in Calls, CallOK(new), Proceed(c, new),
           UNCHANGED source, region' \in Images \cup {"torn"},
           \/ UNCHANGED lease /\ (new.at \in Held <=> lease = c)
           \/ Release(c) /\ new.at \notin Held
           \/ lease = Nil /\ lease' = c /\ new.at \in Held
    PROVE  CoreInv'
<1> USE DEF CoreInv
<1>1. /\ call' \in [Callers -> Calls] /\ call'[c] = new
      /\ \A d \in Callers \ {c} : call'[d] = call[d]
  BY DEF Proceed, CoreTypeOK
<1>2. CoreTypeOK'
  BY <1>1 DEF CoreTypeOK
<1>3. LeaseIsOfRun'
  BY <1>1, ImageAssumption DEF LeaseIsOfRun, Release
<1>4. \A d \in Callers : CallOK(call[d])'
  BY <1>1 DEF CallOK, StageOfKind, DigestFollows, DigestTrue
<1> QED
  BY <1>2, <1>3, <1>4

\* restore_backup, compare_firmware and compare_backup_region take their digest
\* as they begin.
LEMMA RequestKeeps ==
    ASSUME CoreInv, NEW c \in Callers, NEW kind \in Workflows, Request(c, kind) PROVE CoreInv'
<1>1. PICK new : new = [NewCall EXCEPT
            !.kind = kind, !.at = "waiting", !.had = {source},
            !.hash = IF kind \in {"restore_backup", "compare_firmware",
                                  "compare_backup_region"} THEN source ELSE Nil,
            !.own = IF kind = "compare_backup_region" THEN source ELSE Nil]
  OBVIOUS
<1>2. Proceed(c, new) /\ UNCHANGED <<region, source, lease>> /\ call[c].at = "new"
  BY <1>1 DEF Request
<1>3. /\ new \in Calls /\ new.kind = kind /\ new.at = "waiting" /\ new.had = {source}
      /\ kind \in {"restore_backup", "compare_firmware", "compare_backup_region"}
            => new.hash = source
      /\ kind = "compare_backup_region" => new.own = source
  BY <1>1 DEF NewCall, Calls, Digests, CallStages, CoreInv, CoreTypeOK
<1>4. CallOK(new)
  BY <1>3 DEF CallOK, StageOfKind, DigestFollows, DigestTrue
<1>5. lease # c
  BY <1>2 DEF CoreInv, LeaseIsOfRun, Held
<1> QED
  BY <1>2, <1>3, <1>4, <1>5, OneProceeds DEF CoreInv, CoreTypeOK, Held

\* What is known of a request before it steps.
LEMMA CallKnown ==
    ASSUME CoreInv, NEW c \in Callers
    PROVE  /\ call[c] \in Calls /\ CallOK(call[c]) /\ (call[c].at \in Held <=> lease = c)
           /\ source \in Digests /\ region \in Digests
           /\ source \in Images \cup {"torn"} /\ region \in Images \cup {"torn"}
  BY DEF CoreInv, CoreTypeOK, LeaseIsOfRun, Digests

\* The Commander run or the session begins.
LEMMA GrantedKeeps == ASSUME CoreInv, NEW c \in Callers, Granted(c) PROVE CoreInv'
<1>1. PICK r : r = call[c]
  OBVIOUS
<1>2. r \in Calls /\ CallOK(r) /\ region \in Images \cup {"torn"}
  BY <1>1, CallKnown
<1>3. PICK at : at = CASE r.kind \in Writing -> "loading"
                       [] r.kind = "backup_flash" -> "saving"
                       [] r.kind = "capture_rtt" -> "session"
                       [] OTHER -> "comparing"
  OBVIOUS
<1>4. PICK new : new = [r EXCEPT !.at = at]
  OBVIOUS
<1>5. /\ r.at = "waiting" /\ lease = Nil /\ lease' = c /\ Proceed(c, new)
      /\ UNCHANGED <<region, source>>
  BY <1>1, <1>3, <1>4 DEF Granted
<1>6. /\ at \in Held
      /\ at = "loading" => r.kind \in Writing
      /\ at = "comparing" => r.kind \notin Writing \cup {"backup_flash", "capture_rtt"}
      /\ at = "saving" => r.kind = "backup_flash"
      /\ at = "session" => r.kind = "capture_rtt"
      /\ at \notin {"stopping"}
  BY <1>3 DEF Held, Writing
<1>7. /\ new \in Calls /\ new.at = at /\ new.kind = r.kind /\ new.hash = r.hash
      /\ new.own = r.own /\ new.seen = r.seen /\ new.ok = r.ok /\ new.had = r.had
  BY <1>2, <1>4, <1>6 DEF Calls, CallStages
<1>8. CallOK(new)
  BY <1>2, <1>5, <1>6, <1>7
     DEF CallOK, StageOfKind, DigestFollows, DigestTrue, Held, Final, Workflows, Writing
<1> QED
  BY <1>2, <1>5, <1>6, <1>7, <1>8, OneProceeds

\* LoadFile and LoadBin.
LEMMA LoadKeeps == ASSUME CoreInv, NEW c \in Callers, LoadFile(c) PROVE CoreInv'
<1>1. PICK r : r = call[c]
  OBVIOUS
<1>2. /\ r \in Calls /\ CallOK(r) /\ (r.at \in Held <=> lease = c)
      /\ source \in Digests /\ source \in Images \cup {"torn"}
  BY <1>1, CallKnown
<1>3. r.at = "loading" /\ region' = source /\ UNCHANGED source
  BY <1>1 DEF LoadFile
<1>4. r.kind \in Writing
  BY <1>2, <1>3 DEF CallOK, StageOfKind
<1>5. CASE r.kind = "flash_and_verify"
  <2>1. PICK new : new = [r EXCEPT !.at = "hashing", !.seen = source]
    OBVIOUS
  <2>2. Proceed(c, new) /\ Release(c)
    BY <1>1, <1>5, <2>1 DEF LoadFile
  <2>3. /\ new \in Calls /\ new.at = "hashing" /\ new.kind = r.kind /\ new.seen = source
        /\ new.had = r.had
    BY <1>2, <2>1 DEF Calls, CallStages
  <2>4. source \in r.had
    BY <1>2, <1>3 DEF CallOK, DigestFollows, Final
  <2>5. CallOK(new)
    BY <1>5, <2>3, <2>4 DEF CallOK, StageOfKind, DigestFollows, DigestTrue, Writing
  <2> QED
    BY <1>2, <1>3, <2>2, <2>3, <2>5, OneProceeds DEF Held
<1>6. CASE r.kind # "flash_and_verify"
  <2>1. PICK new : new = [r EXCEPT !.at = "comparing"]
    OBVIOUS
  <2>2. Proceed(c, new) /\ UNCHANGED lease
    BY <1>1, <1>6, <2>1 DEF LoadFile
  <2>3. /\ new \in Calls /\ new.at = "comparing" /\ new.kind = r.kind
        /\ new.hash = r.hash /\ new.had = r.had
    BY <1>2, <2>1 DEF Calls, CallStages, Held
  <2>4. CallOK(new)
    BY <1>2, <1>3, <1>4, <1>6, <2>3
       DEF CallOK, StageOfKind, DigestFollows, DigestTrue, Writing, Final
  <2> QED
    BY <1>2, <1>3, <2>2, <2>3, <2>4, OneProceeds DEF Held
<1> QED
  BY <1>5, <1>6

\* VerifyBin: what matches is what is read.
LEMMA CompareKeeps == ASSUME CoreInv, NEW c \in Callers, CompareBin(c) PROVE CoreInv'
<1>1. PICK r : r = call[c]
  OBVIOUS
<1>2. /\ r \in Calls /\ CallOK(r) /\ region \in Digests /\ region \in Images \cup {"torn"}
  BY <1>1, CallKnown
<1>3. PICK operand : operand = Operand(c)
  OBVIOUS
<1>4. PICK at : at = IF r.kind \in Writing THEN "hashing" ELSE "returned"
  OBVIOUS
<1>5. PICK ok \in BOOLEAN : ok <=> r.ok /\ region = operand
  OBVIOUS
<1>6. PICK new : new = [r EXCEPT !.seen = region, !.ok = ok, !.at = at]
  OBVIOUS
<1>7. /\ r.at = "comparing" /\ UNCHANGED <<region, source>> /\ Release(c)
      /\ Proceed(c, [r EXCEPT !.seen = region, !.ok = @ /\ region = operand, !.at = at])
  BY <1>1, <1>3, <1>4 DEF CompareBin
<1>8. (r.ok /\ region = operand) = ok
  BY <1>2, <1>5 DEF Calls
<1>9. Proceed(c, new)
  BY <1>6, <1>7, <1>8
<1>10. /\ at = IF r.kind \in Writing THEN "hashing" ELSE "returned"
       /\ ok => region = operand
       /\ r.kind = "compare_backup_region" => operand = r.own
       /\ r.kind # "compare_backup_region" => operand = source
  BY <1>1, <1>3, <1>4, <1>5 DEF Operand
<1>11. /\ new \in Calls /\ new.at = at /\ new.kind = r.kind /\ new.hash = r.hash
       /\ new.own = r.own /\ new.seen = region /\ new.ok = ok /\ new.had = r.had
  BY <1>2, <1>6, <1>10 DEF Calls, CallStages, Final
<1>12. CallOK(new)
  BY <1>2, <1>7, <1>10, <1>11
     DEF CallOK, StageOfKind, DigestFollows, DigestTrue, Final, Writing
<1>13. at \notin Held
  BY <1>10 DEF Held
<1> QED
  BY <1>2, <1>7, <1>9, <1>11, <1>12, <1>13, OneProceeds

\* SaveBin.
LEMMA SaveKeeps == ASSUME CoreInv, NEW c \in Callers, SaveBin(c) PROVE CoreInv'
<1>1. PICK r : r = call[c]
  OBVIOUS
<1>2. /\ r \in Calls /\ CallOK(r) /\ region \in Digests /\ region \in Images \cup {"torn"}
  BY <1>1, CallKnown
<1>3. PICK new : new = [r EXCEPT !.own = region, !.seen = region, !.at = "hashing"]
  OBVIOUS
<1>4. r.at = "saving" /\ UNCHANGED <<region, source>> /\ Release(c) /\ Proceed(c, new)
  BY <1>1, <1>3 DEF SaveBin
<1>5. r.kind = "backup_flash"
  BY <1>2, <1>4 DEF CallOK, StageOfKind
<1>6. /\ new \in Calls /\ new.at = "hashing" /\ new.kind = r.kind
      /\ new.own = region /\ new.seen = region /\ new.had = r.had
  BY <1>2, <1>3 DEF Calls, CallStages
<1>7. CallOK(new)
  BY <1>2, <1>4, <1>5, <1>6 DEF CallOK, StageOfKind, DigestFollows, DigestTrue, Final
<1> QED
  BY <1>2, <1>4, <1>6, <1>7, OneProceeds DEF Held

\* A Commander run fails: its result does not say ok.
LEMMA FailKeeps == ASSUME CoreInv, NEW c \in Callers, RunFails(c) PROVE CoreInv'
<1>1. PICK r : r = call[c]
  OBVIOUS
<1>2. r \in Calls /\ CallOK(r) /\ region \in Images \cup {"torn"}
  BY <1>1, CallKnown
<1>3. PICK at : at = IF r.kind \in Writing THEN "hashing" ELSE "returned"
  OBVIOUS
<1>4. PICK new : new = [r EXCEPT !.ok = FALSE, !.at = at]
  OBVIOUS
<1>5. /\ r.at \in {"loading", "comparing", "saving"} /\ UNCHANGED source /\ Release(c)
      /\ Proceed(c, new) /\ region' \in {region, "torn"}
  BY <1>1, <1>3, <1>4 DEF RunFails
<1>6. at = IF r.kind \in Writing THEN "hashing" ELSE "returned"
  BY <1>3
<1>7. /\ new \in Calls /\ new.at = at /\ new.kind = r.kind /\ ~new.ok
      /\ new.hash = r.hash /\ new.own = r.own /\ new.had = r.had
  BY <1>2, <1>4, <1>6 DEF Calls, CallStages, Final
<1>8. CallOK(new)
  BY <1>2, <1>5, <1>6, <1>7
     DEF CallOK, StageOfKind, DigestFollows, DigestTrue, Final, Writing
<1>9. at \notin Held /\ region' \in Images \cup {"torn"}
  BY <1>2, <1>5, <1>6 DEF Held
<1> QED
  BY <1>5, <1>7, <1>8, <1>9, OneProceeds

\* The artifact is hashed after the lease.
LEMMA HashKeeps == ASSUME CoreInv, NEW c \in Callers, HashFile(c) PROVE CoreInv'
<1>1. PICK r : r = call[c]
  OBVIOUS
<1>2. /\ r \in Calls /\ CallOK(r) /\ (r.at \in Held <=> lease = c)
      /\ source \in Digests /\ region \in Images \cup {"torn"}
  BY <1>1, CallKnown
<1>3. PICK hash : hash = CASE r.kind = "backup_flash" -> r.own
                           [] r.kind = "restore_backup" -> r.hash
                           [] OTHER -> source
  OBVIOUS
<1>4. PICK at : at = IF r.kind = "restore_backup" THEN "rechecking" ELSE "returned"
  OBVIOUS
<1>5. PICK new : new = [r EXCEPT !.hash = hash, !.at = at]
  OBVIOUS
<1>6. /\ r.at = "hashing" /\ UNCHANGED <<region, source, lease>>
      /\ Proceed(c, [r EXCEPT !.hash = CASE r.kind = "backup_flash" -> r.own
                                         [] r.kind = "restore_backup" -> @
                                         [] OTHER -> source,
                              !.at = at])
  BY <1>1, <1>4 DEF HashFile
<1>7. Proceed(c, new)
  BY <1>3, <1>5, <1>6
<1>8. /\ r.kind = "backup_flash" => hash = r.own /\ at = "returned"
      /\ r.kind = "restore_backup" => hash = r.hash /\ at = "rechecking"
      /\ r.kind \notin {"backup_flash", "restore_backup"} => hash = source /\ at = "returned"
  BY <1>3, <1>4
<1>9. hash \in Digests /\ at \in {"rechecking", "returned"}
  BY <1>2, <1>8 DEF Calls
<1>10. /\ new \in Calls /\ new.at = at /\ new.kind = r.kind /\ new.hash = hash
       /\ new.own = r.own /\ new.seen = r.seen /\ new.ok = r.ok /\ new.had = r.had
  BY <1>2, <1>5, <1>9 DEF Calls, CallStages, Final
<1>11. CallOK(new)
  BY <1>2, <1>6, <1>8, <1>9, <1>10
     DEF CallOK, StageOfKind, DigestFollows, DigestTrue, Final, Writing
<1>12. lease # c /\ at \notin Held
  BY <1>2, <1>6, <1>9 DEF Held
<1> QED
  BY <1>2, <1>6, <1>7, <1>10, <1>11, <1>12, OneProceeds

\* The separate comparison of restore_backup.
LEMMA RecheckKeeps == ASSUME CoreInv, NEW c \in Callers, Recheck(c) PROVE CoreInv'
<1>1. PICK r : r = call[c]
  OBVIOUS
<1>2. /\ r \in Calls /\ CallOK(r) /\ (r.at \in Held <=> lease = c)
      /\ region \in Digests /\ region \in Images \cup {"torn"}
  BY <1>1, CallKnown
<1>3. PICK ok \in BOOLEAN : ok <=> r.ok /\ region = source
  OBVIOUS
<1>4. PICK new : new = [r EXCEPT !.seen = region, !.ok = ok, !.at = "returned"]
  OBVIOUS
<1>5. /\ r.at = "rechecking" /\ UNCHANGED <<region, source, lease>>
      /\ Proceed(c, [r EXCEPT !.seen = region, !.ok = @ /\ region = source, !.at = "returned"])
  BY <1>1 DEF Recheck
<1>6. (r.ok /\ region = source) = ok
  BY <1>2, <1>3 DEF Calls
<1>7. Proceed(c, new)
  BY <1>4, <1>5, <1>6
<1>8. /\ new \in Calls /\ new.at = "returned" /\ new.kind = r.kind /\ new.hash = r.hash
      /\ new.seen = region /\ new.ok = ok /\ new.had = r.had
  BY <1>2, <1>4 DEF Calls, CallStages, Final
<1>9. CallOK(new)
  BY <1>2, <1>3, <1>5, <1>8 DEF CallOK, StageOfKind, DigestFollows, DigestTrue, Final
<1>10. lease # c
  BY <1>2, <1>5 DEF Held
<1> QED
  BY <1>2, <1>5, <1>7, <1>8, <1>9, <1>10, OneProceeds DEF Held

\* A capture ends and its session is stopped.
LEMMA RttKeeps ==
    ASSUME CoreInv, NEW c \in Callers, StopRtt(c) \/ \E ok \in BOOLEAN : RttEnds(c, ok)
    PROVE  CoreInv'
<1>1. PICK r : r = call[c]
  OBVIOUS
<1>2. /\ r \in Calls /\ CallOK(r) /\ (r.at \in Held <=> lease = c)
      /\ region \in Images \cup {"torn"}
  BY <1>1, CallKnown
<1>3. ASSUME NEW ok \in BOOLEAN, RttEnds(c, ok)
      PROVE  CoreInv'
  <2>1. PICK new : new = [r EXCEPT !.ok = ok, !.at = "stopping"]
    OBVIOUS
  <2>2. r.at = "session" /\ Proceed(c, new) /\ UNCHANGED <<region, source, lease>>
    BY <1>1, <1>3, <2>1 DEF RttEnds
  <2>3. new \in Calls /\ new.at = "stopping" /\ new.kind = r.kind /\ new.had = r.had
    BY <1>2, <2>1 DEF Calls, CallStages, Held
  <2>4. CallOK(new)
    BY <1>2, <2>2, <2>3 DEF CallOK, StageOfKind, DigestFollows, DigestTrue, Final
  <2> QED
    BY <1>2, <2>2, <2>3, <2>4, OneProceeds DEF Held
<1>4. CASE StopRtt(c)
  <2>1. PICK at : at = IF r.ok THEN "returned" ELSE "raised"
    OBVIOUS
  <2>2. PICK new : new = [r EXCEPT !.at = at]
    OBVIOUS
  <2>3. r.at = "stopping" /\ Proceed(c, new) /\ Release(c) /\ UNCHANGED <<region, source>>
    BY <1>1, <1>4, <2>1, <2>2 DEF StopRtt
  <2>4. at \in {"returned", "raised"}
    BY <2>1
  <2>5. new \in Calls /\ new.at = at /\ new.kind = r.kind
    BY <1>2, <2>2, <2>4 DEF Calls, CallStages, Final
  <2>6. CallOK(new)
    BY <1>2, <2>3, <2>4, <2>5 DEF CallOK, StageOfKind, DigestFollows, DigestTrue, Final
  <2> QED
    BY <1>2, <2>3, <2>4, <2>5, <2>6, OneProceeds DEF Held
<1> QED
  BY <1>3, <1>4

\* A request that raises says nothing.
LEMMA AbandonKeeps == ASSUME CoreInv, NEW c \in Callers, Abandon(c) PROVE CoreInv'
<1>1. PICK r : r = call[c]
  OBVIOUS
<1>2. r \in Calls /\ CallOK(r) /\ region \in Images \cup {"torn"}
  BY <1>1, CallKnown
<1>3. PICK new : new = [r EXCEPT !.at = "raised"]
  OBVIOUS
<1>4. /\ r.at \notin Final /\ Proceed(c, new) /\ Release(c) /\ UNCHANGED source
      /\ region' \in {region, "torn"}
  BY <1>1, <1>3 DEF Abandon
<1>5. /\ new \in Calls /\ new.at = "raised" /\ new.kind = r.kind /\ new.hash = r.hash
      /\ new.own = r.own
  BY <1>2, <1>3 DEF Calls, CallStages, Final
<1>6. CallOK(new)
  BY <1>2, <1>4, <1>5 DEF CallOK, StageOfKind, DigestFollows, DigestTrue, Final
<1>7. region' \in Images \cup {"torn"}
  BY <1>2, <1>4
<1> QED
  BY <1>4, <1>5, <1>6, <1>7, OneProceeds DEF Held

\* The file is rewritten: what was known of it is kept of the results only.
LEMMA EditKeeps == ASSUME CoreInv, NEW image \in Images, EditFile(image) PROVE CoreInv'
<1>1. /\ source' = image /\ UNCHANGED <<region, lease>>
      /\ call' = [c \in Callers |-> IF call[c].at \in Final THEN call[c]
                                    ELSE [call[c] EXCEPT !.had = @ \cup {image}]]
  BY DEF EditFile
<1>2. ASSUME NEW c \in Callers
      PROVE  call'[c] \in Calls /\ CallOK(call[c])' /\ call'[c].at = call[c].at
  <2>1. PICK r : r = call[c]
    OBVIOUS
  <2>2. r \in Calls /\ CallOK(r)
    BY <2>1, CallKnown
  <2>3. CASE r.at \in Final
    <3>1. call'[c] = r
      BY <1>1, <2>1, <2>3
    <3> QED
      BY <2>1, <2>2, <2>3, <3>1
         DEF CallOK, StageOfKind, DigestFollows, DigestTrue, Final
  <2>4. CASE r.at \notin Final
    <3>1. PICK new : new = [r EXCEPT !.had = @ \cup {image}]
      OBVIOUS
    <3>2. call'[c] = new
      BY <1>1, <2>1, <2>4, <3>1
    <3>3. /\ new \in Calls /\ new.at = r.at /\ new.kind = r.kind /\ new.hash = r.hash
          /\ new.own = r.own /\ new.seen = r.seen /\ new.ok = r.ok
          /\ new.had = r.had \cup {image}
      BY <2>2, <3>1 DEF Calls
    <3>4. StageOfKind(new) /\ DigestTrue(new)
      BY <2>2, <2>4, <3>3 DEF CallOK, StageOfKind, DigestTrue, Final
    <3>5. DigestFollows(call[c])'
      BY <1>1, <2>2, <2>4, <3>2, <3>3 DEF CallOK, DigestFollows
    <3> QED
      BY <2>1, <3>2, <3>3, <3>4, <3>5 DEF CallOK, StageOfKind, DigestTrue
  <2> QED
    BY <2>3, <2>4
<1>3. CoreTypeOK'
  BY <1>1, <1>2 DEF CoreInv, CoreTypeOK
<1>4. LeaseIsOfRun'
  BY <1>1, <1>2 DEF CoreInv, LeaseIsOfRun
<1> QED
  BY <1>2, <1>3, <1>4 DEF CoreInv

LEMMA CoreNextInv == CoreInv /\ [CoreNext]_coreVars => CoreInv'
<1> SUFFICES ASSUME CoreInv, [CoreNext]_coreVars PROVE CoreInv'
  OBVIOUS
<1>1. CASE UNCHANGED coreVars
  BY <1>1 DEF coreVars, CoreInv, CoreTypeOK, LeaseIsOfRun, CallOK, StageOfKind, DigestFollows,
              DigestTrue
<1>2. CASE CoreNext
  BY <1>2, RequestKeeps, GrantedKeeps, LoadKeeps, CompareKeeps, SaveKeeps, FailKeeps, HashKeeps,
     RecheckKeeps, RttKeeps, AbandonKeeps, EditKeeps DEF CoreNext
<1> QED
  BY <1>1, <1>2

\* Where a request is, of which kind it is, who has the lease, and what its
\* digest is of.
THEOREM CoreInvariance == CoreSpec => []CoreInv
  BY CoreInitInv, CoreNextInv, PTL DEF CoreSpec

\* The sha256 in a result of backup_flash or compare_backup_region that says ok
\* or match is that of what the flash held when it was saved or compared.  In one
\* of flash_and_verify, flash_binary, compare_firmware or restore_backup, it and
\* what the flash held when it was last compared are contents that the file had
\* during the request; when the file was not rewritten, they are the same.
THEOREM DigestsAreFlashed == CoreSpec => []ReportedDigestIsFlashed
<1>1. CoreInv => ReportedDigestIsFlashed
  BY DEF CoreInv, CallOK, DigestTrue, ReportedDigestIsFlashed, Succeeded
<1> QED
  BY <1>1, CoreInvariance, PTL

\* A request that has returned or raised has no lease: every workflow leaves the
\* context of its Commander run, and capture_rtt stops its session in a finally
\* clause.
THEOREM EndedHaveNoLease == CoreSpec => []EndedHoldsNothing
<1>1. CoreInv => EndedHoldsNothing
  BY DEF CoreInv, LeaseIsOfRun, EndedHoldsNothing, Final, Held
<1> QED
  BY <1>1, CoreInvariance, PTL
=============================================================================
