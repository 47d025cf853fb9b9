------------------------- MODULE Operations_proofs -------------------------
(***************************************************************************)
(* Every one-shot operation identifies its target under its own lease       *)
(* before it acts, and is recorded once and in lease order, for any number   *)
(* of requests, probes, attempts and operations: IInv is inductive.          *)
(***************************************************************************)
EXTENDS Operations, TLAPS

\* No operation has begun and the chain is empty.
LEMMA InitIInv == Init => IInv
<1> SUFFICES ASSUME Init PROVE IInv
  OBVIOUS
<1> USE NoneAssumption, BoundsAssumption DEF Init
<1>1. TypeOK
  BY DEF TypeOK, Stages, Kinds, Chain, OnTarget
<1>2. StageHeld
  BY DEF StageHeld, Stages, Kinds, Chain, OnTarget
<1>3. NoProcess
  BY DEF NoProcess, Stages, Kinds, Chain, OnTarget
<1>4. NumbersDiffer
  BY DEF NumbersDiffer, Stages, Kinds, Chain, OnTarget
<1>5. StageRecords
  BY DEF StageRecords, Stages, Kinds, Chain, OnTarget
<1>6. RecordsBegun
  BY DEF RecordsBegun, Stages, Kinds, Chain, OnTarget
<1>7. ActedOnIdentified
  BY DEF ActedOnIdentified, Stages, Kinds, Chain, OnTarget
<1>8. ActedIsAudited
  BY DEF ActedIsAudited, Stages, Kinds, Chain, OnTarget
<1>9. AuditedOnce
  BY DEF AuditedOnce, Stages, Kinds, Chain, OnTarget
<1>10. LeasesInOrder
  BY DEF LeasesInOrder, Stages, Kinds, Chain, OnTarget
<1> QED
  BY <1>1, <1>2, <1>3, <1>4, <1>5, <1>6, <1>7, <1>8, <1>9, <1>10 DEF IInv

NewEntry(e, r, act, ok) ==
    /\ DOMAIN log' = DOMAIN log \cup {e}
    /\ \A i \in DOMAIN log : i \in Nat /\ i < e /\ log'[i] = log[i]
    /\ log'[e].op = opno[r] /\ log'[e].probe = on[r]
    /\ log'[e].act = act /\ log'[e].ok = ok

\* A record is one more entry e at the end of the chain.
LEMMA Appended ==
    ASSUME IInv, NEW r \in Requests, stage[r] # "idle", NEW act \in Acts, NEW ok \in BOOLEAN,
           Record(r, act, ok)
    PROVE  log' \in Chain /\ \E e \in Nat : NewEntry(e, r, act, ok)
<1> DEFINE entry == [op |-> opno[r], probe |-> on[r], act |-> act, ok |-> ok]
<1>1. log \in Seq(Records)
  BY DEF IInv, TypeOK, Chain
<1>2. opno[r] \in 1..MaxOps /\ on[r] \in Probes \cup {None}
  BY BoundsAssumption DEF IInv, TypeOK, StageHeld
<1>3. entry \in Records
  BY <1>2 DEF Records
<1>4. log' = Append(log, entry)
  BY DEF Record
<1>5. log' \in Chain
  BY <1>1, <1>3, <1>4 DEF Chain
<1>6. /\ DOMAIN log' = DOMAIN log \cup {Len(log) + 1}
      /\ \A i \in DOMAIN log : i \in Nat /\ i < Len(log) + 1 /\ log'[i] = log[i]
      /\ log'[Len(log) + 1] = entry
      /\ Len(log) + 1 \in Nat
  BY <1>1, <1>3, <1>4
<1>7. entry.op = opno[r] /\ entry.probe = on[r] /\ entry.act = act /\ entry.ok = ok
  OBVIOUS
<1> HIDE DEF entry
<1> QED
  BY <1>5, <1>6, <1>7 DEF NewEntry

\* What a request in progress has.
LEMMA InStage ==
    ASSUME IInv, NEW r \in Requests, stage[r] # "idle"
    PROVE  /\ opno[r] \in 1..MaxOps /\ opno[r] \in Nat /\ opno[r] < next /\ next \in Nat
           /\ on[r] \in Probes \cup {None}
           /\ "identity" \in Acts /\ "resume" \in Acts /\ "application" \in Acts
           /\ kind[r] \notin {"application", "resumed"} => kind[r] \in Acts \cap Final
           /\ "application" \in Final
  BY BoundsAssumption DEF IInv, TypeOK, StageHeld, Acts, Final, Kinds

\* A record takes nothing away from what the chain says of any operation.
LEMMA RecordKeepsIdentity ==
    ASSUME IInv, NEW r \in Requests, stage[r] # "idle", NEW act \in Acts, NEW ok \in BOOLEAN,
           Record(r, act, ok)
    PROVE  /\ \A n \in Nat : Identity(n) => Identity(n)'
           /\ \A n \in Nat : n = opno[r] /\ act = "identity" /\ ok => Identity(n)'
<1>1. PICK e \in Nat : NewEntry(e, r, act, ok)
  BY Appended
<1> USE DEF NewEntry
<1>2. ASSUME NEW n \in Nat, Identity(n)
      PROVE  Identity(n)'
  BY <1>1, <1>2 DEF Identity
<1>3. ASSUME NEW n \in Nat, n = opno[r], act = "identity", ok
      PROVE  Identity(n)'
  BY <1>1, <1>3 DEF Identity
<1> QED
  BY <1>2, <1>3

\* A record of a stage that has none yet is the only one of its kind.
LEMMA RecordOnce ==
    ASSUME IInv, NEW r \in Requests, stage[r] # "idle", NEW act \in Acts, NEW ok \in BOOLEAN,
           Record(r, act, ok),
           \A i \in DOMAIN log : log[i].op = opno[r] => log[i].act # act
    PROVE  AuditedOnce'
<1>1. PICK e \in Nat : NewEntry(e, r, act, ok)
  BY Appended
<1> USE DEF NewEntry
<1> QED
  BY <1>1 DEF IInv, AuditedOnce

\* The operation that records something for a probe is the last that leased it.
LEMMA RecordInOrder ==
    ASSUME IInv, NEW r \in Requests, stage[r] # "idle", NEW act \in Acts, NEW ok \in BOOLEAN,
           Record(r, act, ok)
    PROVE  LeasesInOrder'
<1>1. PICK e \in Nat : NewEntry(e, r, act, ok)
  BY Appended
<1> USE DEF NewEntry
<1>2. \A i \in DOMAIN log : log[i].probe = on[r] /\ on[r] # None => log[i].op <= opno[r]
  BY DEF IInv, StageRecords
<1> QED
  BY <1>1, <1>2, InStage DEF IInv, LeasesInOrder

\* An appended record is of an operation that has begun.
LEMMA RecordBegun ==
    ASSUME IInv, NEW r \in Requests, stage[r] # "idle", NEW act \in Acts, NEW ok \in BOOLEAN,
           Record(r, act, ok), next' = next, acted' \subseteq acted \cup {opno[r]}
    PROVE  RecordsBegun'
<1>1. PICK e \in Nat : NewEntry(e, r, act, ok)
  BY Appended
<1> USE DEF NewEntry
<1> QED
  BY <1>1, InStage DEF IInv, RecordsBegun

\* A record of one request says nothing of the others, which are in
\* operations and on probes of their own.
LEMMA RecordOfStage ==
    ASSUME IInv, NEW r \in Requests, stage[r] # "idle", NEW act \in Acts, NEW ok \in BOOLEAN,
           Record(r, act, ok), UNCHANGED request,
           \A q \in Requests \ {r} : stage'[q] = stage[q],
           \/ stage'[r] = "idle"
           \/ /\ OnTarget(r)'
              /\ act = "identity" \/ (act = "resume" /\ stage'[r] # "resume")
              /\ stage'[r] = "resume" => stage[r] = "identify"
    PROVE  StageRecords'
<1>1. PICK e \in Nat : NewEntry(e, r, act, ok)
  BY Appended
<1> USE DEF NewEntry
<1> SUFFICES ASSUME NEW q \in Requests, NEW i \in DOMAIN log', stage'[q] # "idle"
             PROVE  /\ log'[i].op = opno[q] =>
                          /\ OnTarget(q)'
                          /\ \/ log'[i].act = "identity"
                             \/ log'[i].act = "resume" /\ stage'[q] # "resume"
                    /\ log'[i].probe = on[q] /\ on[q] # None => log'[i].op <= opno[q]
  BY DEF StageRecords, request
<1>3. CASE q = r
  <2>1. CASE i = e
    BY <1>1, <1>3, <2>1, InStage
  <2>2. CASE i # e
    BY <1>1, <1>3, <2>2 DEF IInv, StageRecords, OnTarget
  <2> QED
    BY <2>1, <2>2
<1>4. CASE q # r
  <2>1. stage[q] # "idle" /\ (OnTarget(q) => OnTarget(q)')
    BY <1>4 DEF OnTarget, request
  <2>2. CASE i = e
    <3>1. opno[q] # opno[r]
      BY <1>4, <2>1 DEF IInv, NumbersDiffer
    <3>2. ~(on[q] = on[r] /\ on[q] # None)
      BY <1>4, <2>1, NoneAssumption DEF IInv, StageHeld
    <3> QED
      BY <1>1, <2>2, <3>1, <3>2
  <2>3. CASE i # e
    BY <1>1, <1>4, <2>1, <2>3 DEF IInv, StageRecords
  <2> QED
    BY <2>2, <2>3
<1> QED
  BY <1>3, <1>4

\* A stage that is recorded ends its operation with a final or a negative
\* record, or not at all.
LEMMA RecordAudits ==
    ASSUME IInv, NEW r \in Requests, stage[r] # "idle", NEW act \in Acts, NEW ok \in BOOLEAN,
           Record(r, act, ok), opno' = opno, lost \subseteq lost',
           acted' \subseteq acted \cup {opno[r]},
           \A q \in Requests \ {r} : stage'[q] = stage[q],
           stage'[r] # "idle" \/ act \in Final \/ ~ok \/ opno[r] \in lost'
    PROVE  ActedIsAudited'
<1>1. PICK e \in Nat : NewEntry(e, r, act, ok)
  BY Appended
<1> USE DEF NewEntry
<1> SUFFICES ASSUME NEW n \in acted' \ lost'
             PROVE  \/ InProgress(n)'
                    \/ \E i \in DOMAIN log' : /\ log'[i].op = n
                                              /\ log'[i].act \in Final \/ ~log'[i].ok
  BY DEF ActedIsAudited
<1>3. CASE n = opno[r]
  BY <1>1, <1>3 DEF InProgress
<1>4. CASE n # opno[r]
  <2>1. CASE InProgress(n)
    BY <1>4, <2>1 DEF InProgress
  <2>2. CASE ~InProgress(n)
    BY <1>1, <1>4, <2>2 DEF IInv, ActedIsAudited, InProgress
  <2> QED
    BY <2>1, <2>2
<1> QED
  BY <1>3, <1>4

\* An operation that is cut off is lost.
LEMMA LostIsLost ==
    ASSUME IInv, NEW r \in Requests, opno[r] \in lost', UNCHANGED <<log, opno>>,
           lost \subseteq lost', acted' \subseteq acted \cup {opno[r]},
           \A q \in Requests \ {r} : stage'[q] = stage[q]
    PROVE  ActedIsAudited'
<1> SUFFICES ASSUME NEW n \in acted' \ lost'
             PROVE  \/ InProgress(n)'
                    \/ \E i \in DOMAIN log : /\ log[i].op = n
                                             /\ log[i].act \in Final \/ ~log[i].ok
  BY DEF ActedIsAudited
<1>1. n # opno[r] /\ n \in acted \ lost
  OBVIOUS
<1>2. CASE InProgress(n)
  BY <1>1, <1>2 DEF InProgress
<1>3. CASE ~InProgress(n)
  BY <1>1, <1>3 DEF IInv, ActedIsAudited
<1> QED
  BY <1>2, <1>3

\* The records carry operation numbers.
LEMMA RecordNumbers == ASSUME IInv PROVE \A i \in DOMAIN log : log[i].op \in Nat
<1>1. log \in Seq(Records)
  BY DEF IInv, TypeOK, Chain
<1>2. \A i \in DOMAIN log : log[i] \in Records
  BY <1>1
<1> QED
  BY <1>2, BoundsAssumption DEF Records

\* A request begins: it takes the next number and the lease of its probe.
LEMMA BeginKeeps ==
    ASSUME IInv, NEW r \in Requests, NEW k \in Kinds, NEW p \in Probes, Begin(r, k, p)
    PROVE  IInv'
<1> USE NoneAssumption, BoundsAssumption DEF IInv, Begin, RunStage, request, history,
       Kinds, Stages, TypeOK
<1>1. TypeOK'
  OBVIOUS
<1>2. StageHeld'
  BY DEF StageHeld, InProgress, OnTarget, Identity
<1>3. NoProcess'
  BY DEF NoProcess, InProgress, OnTarget, Identity
<1>4. NumbersDiffer'
  BY DEF NumbersDiffer, StageHeld
<1>5. StageRecords'
  <2>1. \A i \in DOMAIN log : log[i].op < next
    BY DEF RecordsBegun
  <2>2. \A q \in Requests \ {r} : stage'[q] = stage[q] /\ opno'[q] = opno[q] /\ on'[q] = on[q]
                                /\ kind'[q] = kind[q]
    OBVIOUS
  <2>3. opno'[r] = next /\ log' = log
    OBVIOUS
  <2>4. (\A i \in DOMAIN log : log[i].op \in Nat) /\ next \in Nat
    BY RecordNumbers
  <2> QED
    BY <2>1, <2>2, <2>3, <2>4 DEF StageRecords, OnTarget
<1>6. RecordsBegun'
  <2>1. \A i \in DOMAIN log : log[i].op \in Nat
    BY RecordNumbers
  <2> QED
    BY <2>1 DEF RecordsBegun
<1>7. ActedOnIdentified'
  BY DEF ActedOnIdentified, InProgress, OnTarget, Identity
<1>8. ActedIsAudited'
  BY DEF ActedIsAudited, InProgress, OnTarget, Identity
<1>9. AuditedOnce'
  BY DEF AuditedOnce, InProgress, OnTarget, Identity
<1>10. LeasesInOrder'
  BY DEF LeasesInOrder, InProgress, OnTarget, Identity
<1> QED
  BY <1>1, <1>2, <1>3, <1>4, <1>5, <1>6, <1>7, <1>8, <1>9, <1>10 DEF IInv

\* The identity preflight is audited and validated.
LEMMA IdentifiedKeeps ==
    ASSUME IInv, NEW r \in Requests, NEW ok \in BOOLEAN, Identified(r, ok)
    PROVE  IInv'
<1> USE NoneAssumption, BoundsAssumption
<1>0. /\ stage[r] # "idle" /\ "identity" \in Acts /\ Record(r, "identity", ok)
      /\ UNCHANGED request /\ UNCHANGED <<kind, on, opno>> /\ next' = next
      /\ \A q \in Requests \ {r} : stage'[q] = stage[q]
      /\ lost \subseteq lost' /\ acted' \subseteq acted \cup {opno[r]}
      /\ stage[r] = "identify" /\ (acted' # acted => ok)
      /\ \/ stage'[r] = "idle" /\ (~ok \/ opno[r] \in lost')
         \/ ok /\ OnTarget(r)' /\ stage'[r] # "idle"
  BY InStage DEF Identified, GoOn, RunStage, End, Mark, request, history, IInv, TypeOK, StageHeld, OnTarget
<1>1. TypeOK'
  <2>1. log' \in Chain
    BY <1>0, Appended
  <2> QED
    BY <1>0, <2>1, InStage DEF Identified, GoOn, RunStage, End, Mark, Freed, Result, request, history, IInv, TypeOK, Kinds, Stages
<1>2. StageHeld'
  <2>1. \A q \in Requests : stage[q] # "idle" => (Identity(opno[q]) => Identity(opno[q])')
    BY <1>0, RecordKeepsIdentity, InStage
  <2>2. stage'[r] # "idle" => Identity(opno[r])'
    BY <1>0, <2>1, RecordKeepsIdentity DEF IInv, StageHeld, OnTarget
  <2> QED
    BY <1>0, <2>1, <2>2 DEF Identified, GoOn, RunStage, End, Mark, Freed, request, history, IInv, StageHeld, OnTarget, TypeOK, Kinds
<1>3. NoProcess'
  BY DEF Identified, GoOn, RunStage, End, Mark, history, request, IInv, NoProcess, TypeOK
<1>4. NumbersDiffer'
  BY <1>0 DEF IInv, NumbersDiffer
<1>5. StageRecords'
  BY <1>0, RecordOfStage
<1>6. RecordsBegun'
  BY <1>0, RecordBegun
<1>7. ActedOnIdentified'
  <2>1. \A m \in acted' : Identity(m)'
    BY <1>0, RecordKeepsIdentity, InStage DEF IInv, TypeOK, ActedOnIdentified, Identity
  <2> QED
    BY <2>1 DEF ActedOnIdentified, Identity
<1>8. ActedIsAudited'
  BY <1>0, RecordAudits
<1>9. AuditedOnce'
  BY <1>0, RecordOnce DEF IInv, StageRecords, OnTarget
<1>10. LeasesInOrder'
  BY <1>0, RecordInOrder
<1> QED
  BY <1>1, <1>2, <1>3, <1>4, <1>5, <1>6, <1>7, <1>8, <1>9, <1>10 DEF IInv

\* The target was resumed, or was not.
LEMMA ResumedKeeps ==
    ASSUME IInv, NEW r \in Requests, NEW ok \in BOOLEAN, Resumed(r, ok)
    PROVE  IInv'
<1> USE NoneAssumption, BoundsAssumption
<1>0. /\ stage[r] # "idle" /\ "resume" \in Acts /\ Record(r, "resume", ok)
      /\ UNCHANGED request /\ UNCHANGED <<kind, on, opno>> /\ next' = next
      /\ \A q \in Requests \ {r} : stage'[q] = stage[q]
      /\ lost \subseteq lost' /\ acted' \subseteq acted \cup {opno[r]}
      /\ stage[r] = "resume" /\ acted' = acted
      /\ \/ stage'[r] = "idle" /\ ~ok
         \/ OnTarget(r)' /\ stage'[r] = "pause"
  BY InStage DEF Resumed, Sleep, End, request, history, IInv, TypeOK, StageHeld, OnTarget
<1>1. TypeOK'
  <2>1. log' \in Chain
    BY <1>0, Appended
  <2> QED
    BY <1>0, <2>1, InStage DEF Resumed, Sleep, End, Freed, Result, request, history, IInv, TypeOK, Kinds, Stages
<1>2. StageHeld'
  <2>1. \A q \in Requests : stage[q] # "idle" => (Identity(opno[q]) => Identity(opno[q])')
    BY <1>0, RecordKeepsIdentity, InStage
  <2>2. stage'[r] # "idle" => Identity(opno[r])'
    BY <1>0, <2>1, RecordKeepsIdentity DEF IInv, StageHeld, OnTarget
  <2> QED
    BY <1>0, <2>1, <2>2 DEF Resumed, Sleep, End, Freed, request, history, IInv, StageHeld, OnTarget, TypeOK, Kinds
<1>3. NoProcess'
  BY DEF Resumed, Sleep, End, history, request, IInv, NoProcess, TypeOK
<1>4. NumbersDiffer'
  BY <1>0 DEF IInv, NumbersDiffer
<1>5. StageRecords'
  BY <1>0, RecordOfStage
<1>6. RecordsBegun'
  BY <1>0, RecordBegun
<1>7. ActedOnIdentified'
  <2>1. \A m \in acted' : Identity(m)'
    BY <1>0, RecordKeepsIdentity, InStage DEF IInv, TypeOK, ActedOnIdentified, Identity
  <2> QED
    BY <2>1 DEF ActedOnIdentified, Identity
<1>8. ActedIsAudited'
  BY <1>0, RecordAudits
<1>9. AuditedOnce'
  BY <1>0, RecordOnce DEF IInv, StageRecords, OnTarget
<1>10. LeasesInOrder'
  BY <1>0, RecordInOrder
<1> QED
  BY <1>1, <1>2, <1>3, <1>4, <1>5, <1>6, <1>7, <1>8, <1>9, <1>10 DEF IInv

\* The last process of a Commander operation.
LEMMA ExecutedKeeps ==
    ASSUME IInv, NEW r \in Requests, NEW ok \in BOOLEAN, Executed(r, ok)
    PROVE  IInv'
<1> USE NoneAssumption, BoundsAssumption
<1>0. /\ stage[r] # "idle" /\ kind[r] \in Acts /\ Record(r, kind[r], ok)
      /\ UNCHANGED request /\ UNCHANGED <<kind, on, opno>> /\ next' = next
      /\ \A q \in Requests \ {r} : stage'[q] = stage[q]
      /\ lost \subseteq lost' /\ acted' \subseteq acted \cup {opno[r]}
      /\ stage[r] = "execute" /\ kind[r] \in Final /\ acted' = acted
      /\ kind[r] \notin {"application", "resumed"} /\ stage'[r] = "idle"
  BY InStage DEF Executed, End, request, history, IInv, TypeOK, StageHeld, OnTarget
<1>1. TypeOK'
  <2>1. log' \in Chain
    BY <1>0, Appended
  <2> QED
    BY <1>0, <2>1, InStage DEF Executed, End, Freed, Result, request, history, IInv, TypeOK, Kinds, Stages
<1>2. StageHeld'
  <2>1. \A q \in Requests : stage[q] # "idle" => (Identity(opno[q]) => Identity(opno[q])')
    BY <1>0, RecordKeepsIdentity, InStage
  <2>2. stage'[r] # "idle" => Identity(opno[r])'
    BY <1>0, <2>1, RecordKeepsIdentity DEF IInv, StageHeld, OnTarget
  <2> QED
    BY <1>0, <2>1, <2>2 DEF Executed, End, Freed, request, history, IInv, StageHeld, OnTarget, TypeOK, Kinds
<1>3. NoProcess'
  BY DEF Executed, End, history, request, IInv, NoProcess, TypeOK
<1>4. NumbersDiffer'
  BY <1>0 DEF IInv, NumbersDiffer
<1>5. StageRecords'
  BY <1>0, RecordOfStage
<1>6. RecordsBegun'
  BY <1>0, RecordBegun
<1>7. ActedOnIdentified'
  <2>1. \A m \in acted : m \in Nat /\ Identity(m)
    BY DEF IInv, TypeOK, ActedOnIdentified, Identity
  <2>2. \A m \in Nat : Identity(m) => Identity(m)'
    BY <1>0, RecordKeepsIdentity
  <2> QED
    BY <1>0, <2>1, <2>2 DEF ActedOnIdentified, Identity
<1>8. ActedIsAudited'
  BY <1>0, RecordAudits
<1>9. AuditedOnce'
  BY <1>0, RecordOnce DEF IInv, StageRecords, OnTarget, Final
<1>10. LeasesInOrder'
  BY <1>0, RecordInOrder
<1> QED
  BY <1>1, <1>2, <1>3, <1>4, <1>5, <1>6, <1>7, <1>8, <1>9, <1>10 DEF IInv

\* An attempt of an application.
LEMMA AttemptedKeeps ==
    ASSUME IInv, NEW r \in Requests, NEW ok \in BOOLEAN, Attempted(r, ok)
    PROVE  IInv'
<1> USE NoneAssumption, BoundsAssumption
<1>0. /\ stage[r] = "execute" /\ kind[r] \in {"application", "resumed"}
      /\ "application" \in Acts \cap Final
      /\ UNCHANGED request /\ UNCHANGED <<kind, on, opno>> /\ next' = next
      /\ \A q \in Requests \ {r} : stage'[q] = stage[q]
      /\ lost' = lost /\ acted' = acted
      /\ \/ Record(r, "application", ok) /\ stage'[r] = "idle"
         \/ UNCHANGED <<log, holder>> /\ stage'[r] = "pause" /\ tries'[r] < MaxAttempts
  BY InStage DEF Attempted, Sleep, End, request, history, IInv, TypeOK, Acts
<1>1. TypeOK'
  <2>1. log' \in Chain
    BY <1>0, Appended DEF IInv, TypeOK
  <2>2. tries'[r] \in 0..MaxAttempts
    BY <1>0, BoundsAssumption DEF Attempted, IInv, TypeOK, StageHeld
  <2> QED
    BY <1>0, <2>1, <2>2 DEF Attempted, Sleep, End, Freed, request, history, IInv, TypeOK, Stages
<1>2. StageHeld'
  <2>1. \A q \in Requests : stage[q] # "idle" => (Identity(opno[q]) => Identity(opno[q])')
    BY <1>0, RecordKeepsIdentity, InStage DEF Identity
  <2> QED
    BY <1>0, <2>1 DEF Attempted, Sleep, End, Freed, request, history, IInv, StageHeld, OnTarget, TypeOK
<1>3. NoProcess'
  BY DEF Attempted, Sleep, End, history, request, IInv, NoProcess, TypeOK
<1>4. NumbersDiffer'
  BY <1>0 DEF IInv, NumbersDiffer
<1>5. StageRecords'
  <2>1. CASE Record(r, "application", ok) /\ stage'[r] = "idle"
    BY <1>0, <2>1, RecordOfStage
  <2>2. CASE UNCHANGED <<log, holder>> /\ stage'[r] = "pause" /\ tries'[r] < MaxAttempts
    BY <1>0, <2>2 DEF IInv, StageRecords, OnTarget
  <2> QED
    BY <1>0, <2>1, <2>2
<1>6. RecordsBegun'
  <2>1. CASE Record(r, "application", ok) /\ stage'[r] = "idle"
    BY <1>0, <2>1, RecordBegun
  <2>2. CASE UNCHANGED <<log, holder>> /\ stage'[r] = "pause" /\ tries'[r] < MaxAttempts
    BY <1>0, <2>2 DEF IInv, RecordsBegun
  <2> QED
    BY <1>0, <2>1, <2>2
<1>7. ActedOnIdentified'
  <2>1. ASSUME NEW m \in acted PROVE Identity(m)'
    <3>1. m \in Nat
      BY DEF IInv, TypeOK
    <3>2. Identity(m)
      BY DEF IInv, ActedOnIdentified, Identity
    <3>3. CASE Record(r, "application", ok)
      BY <1>0, <3>1, <3>2, <3>3, RecordKeepsIdentity
    <3>4. CASE log' = log
      BY <3>2, <3>4 DEF Identity
    <3> QED
      BY <1>0, <3>3, <3>4
  <2> QED
    BY <1>0, <2>1 DEF ActedOnIdentified, Identity
<1>8. ActedIsAudited'
  <2>1. CASE Record(r, "application", ok) /\ stage'[r] = "idle"
    BY <1>0, <2>1, RecordAudits
  <2>2. CASE UNCHANGED <<log, holder>> /\ stage'[r] = "pause" /\ tries'[r] < MaxAttempts
    <3>1. \A m : InProgress(m) => InProgress(m)'
      BY <1>0, <2>2 DEF InProgress
    <3> QED
      BY <1>0, <2>2, <3>1 DEF IInv, ActedIsAudited
  <2> QED
    BY <1>0, <2>1, <2>2
<1>9. AuditedOnce'
  <2>1. CASE Record(r, "application", ok) /\ stage'[r] = "idle"
    <3>1. \A i \in DOMAIN log : log[i].op = opno[r] => log[i].act # "application"
      BY <1>0 DEF IInv, StageRecords
    <3> QED
      BY <1>0, <2>1, <3>1, RecordOnce
  <2>2. CASE UNCHANGED <<log, holder>> /\ stage'[r] = "pause" /\ tries'[r] < MaxAttempts
    BY <2>2 DEF IInv, AuditedOnce
  <2> QED
    BY <1>0, <2>1, <2>2
<1>10. LeasesInOrder'
  <2>1. CASE Record(r, "application", ok) /\ stage'[r] = "idle"
    BY <1>0, <2>1, RecordInOrder
  <2>2. CASE UNCHANGED <<log, holder>> /\ stage'[r] = "pause" /\ tries'[r] < MaxAttempts
    BY <2>2 DEF IInv, LeasesInOrder
  <2> QED
    BY <1>0, <2>1, <2>2
<1> QED
  BY <1>1, <1>2, <1>3, <1>4, <1>5, <1>6, <1>7, <1>8, <1>9, <1>10 DEF IInv

\* The next attempt starts.
LEMMA AwakeKeeps ==
    ASSUME IInv, NEW r \in Requests, Awake(r)
    PROVE  IInv'
<1> USE NoneAssumption, BoundsAssumption
<1>0. /\ stage[r] = "pause" /\ OnTarget(r) /\ Identity(opno[r])
      /\ kind[r] \notin {"connect", "info"}
      /\ UNCHANGED <<kind, on, opno, tries, next, log>>
      /\ \A q \in Requests \ {r} : stage'[q] = stage[q]
      /\ lost \subseteq lost' /\ acted' \subseteq acted \cup {opno[r]}
      /\ \/ stage'[r] = "idle" /\ opno[r] \in lost'
         \/ stage'[r] = "execute" /\ lost' = lost
  BY DEF Awake, GoOn, RunStage, End, Mark, request, IInv, StageHeld, OnTarget, TypeOK
<1>1. TypeOK'
  BY <1>0, InStage DEF Awake, GoOn, RunStage, End, Freed, Mark, request, history, IInv, TypeOK, Stages
<1>2. StageHeld'
  <2>1. \A m : Identity(m)' <=> Identity(m)
    BY <1>0 DEF Identity
  <2> QED
    BY <1>0, <2>1 DEF Awake, GoOn, RunStage, End, Freed, request, IInv, TypeOK, StageHeld, OnTarget
<1>3. NoProcess'
  BY DEF Awake, GoOn, RunStage, End, request, IInv, TypeOK, NoProcess
<1>4. NumbersDiffer'
  BY <1>0 DEF IInv, NumbersDiffer
<1>5. StageRecords'
  BY <1>0 DEF IInv, StageRecords, OnTarget
<1>6. RecordsBegun'
  BY <1>0, InStage DEF IInv, RecordsBegun
<1>7. ActedOnIdentified'
  BY <1>0 DEF IInv, ActedOnIdentified, Identity
<1>8. ActedIsAudited'
  <2>1. CASE stage'[r] = "idle" /\ opno[r] \in lost'
    BY <1>0, <2>1, LostIsLost
  <2>2. CASE stage'[r] = "execute" /\ lost' = lost
    BY <1>0, <2>2 DEF IInv, ActedIsAudited, InProgress
  <2> QED
    BY <1>0, <2>1, <2>2
<1>9. AuditedOnce'
  BY <1>0 DEF IInv, AuditedOnce
<1>10. LeasesInOrder'
  BY <1>0 DEF IInv, LeasesInOrder
<1> QED
  BY <1>1, <1>2, <1>3, <1>4, <1>5, <1>6, <1>7, <1>8, <1>9, <1>10 DEF IInv

\* SIGTERM after the timeout.
LEMMA TimeoutKeeps ==
    ASSUME IInv, NEW r \in Requests, Timeout(r)
    PROVE  IInv'
<1> USE NoneAssumption, BoundsAssumption DEF IInv, Timeout, request, history,
       Kinds, Stages, TypeOK
<1>1. TypeOK'
  OBVIOUS
<1>2. StageHeld'
  BY DEF StageHeld, InProgress, OnTarget, Identity
<1>3. NoProcess'
  BY DEF NoProcess, InProgress, OnTarget, Identity
<1>4. NumbersDiffer'
  BY DEF NumbersDiffer, InProgress, OnTarget, Identity
<1>5. StageRecords'
  BY DEF StageRecords, InProgress, OnTarget, Identity
<1>6. RecordsBegun'
  BY DEF RecordsBegun, InProgress, OnTarget, Identity
<1>7. ActedOnIdentified'
  BY DEF ActedOnIdentified, InProgress, OnTarget, Identity
<1>8. ActedIsAudited'
  BY DEF ActedIsAudited, InProgress, OnTarget, Identity
<1>9. AuditedOnce'
  BY DEF AuditedOnce, InProgress, OnTarget, Identity
<1>10. LeasesInOrder'
  BY DEF LeasesInOrder, InProgress, OnTarget, Identity
<1> QED
  BY <1>1, <1>2, <1>3, <1>4, <1>5, <1>6, <1>7, <1>8, <1>9, <1>10 DEF IInv

\* SIGKILL.
LEMMA KillKeeps ==
    ASSUME IInv, NEW r \in Requests, Kill(r)
    PROVE  IInv'
<1> USE NoneAssumption, BoundsAssumption DEF IInv, Kill, request, history,
       Kinds, Stages, TypeOK
<1>1. TypeOK'
  OBVIOUS
<1>2. StageHeld'
  BY DEF StageHeld, InProgress, OnTarget, Identity
<1>3. NoProcess'
  BY DEF NoProcess, InProgress, OnTarget, Identity
<1>4. NumbersDiffer'
  BY DEF NumbersDiffer, InProgress, OnTarget, Identity
<1>5. StageRecords'
  BY DEF StageRecords, InProgress, OnTarget, Identity
<1>6. RecordsBegun'
  BY DEF RecordsBegun, InProgress, OnTarget, Identity
<1>7. ActedOnIdentified'
  BY DEF ActedOnIdentified, InProgress, OnTarget, Identity
<1>8. ActedIsAudited'
  BY DEF ActedIsAudited, InProgress, OnTarget, Identity
<1>9. AuditedOnce'
  BY DEF AuditedOnce, InProgress, OnTarget, Identity
<1>10. LeasesInOrder'
  BY DEF LeasesInOrder, InProgress, OnTarget, Identity
<1> QED
  BY <1>1, <1>2, <1>3, <1>4, <1>5, <1>6, <1>7, <1>8, <1>9, <1>10 DEF IInv

\* A request is cancelled while its process runs.
LEMMA CancelKeeps ==
    ASSUME IInv, NEW r \in Requests, Cancel(r)
    PROVE  IInv'
<1> USE NoneAssumption, BoundsAssumption DEF IInv, Cancel, Mark, request, history,
       Kinds, Stages, TypeOK
<1>1. TypeOK'
  <2>1. opno[r] \in 1..MaxOps
    BY InStage DEF NoProcess
  <2> QED
    BY <2>1
<1>2. StageHeld'
  BY DEF StageHeld, InProgress, OnTarget, Identity
<1>3. NoProcess'
  BY DEF NoProcess, InProgress, OnTarget, Identity
<1>4. NumbersDiffer'
  BY DEF NumbersDiffer, InProgress, OnTarget, Identity
<1>5. StageRecords'
  BY DEF StageRecords, InProgress, OnTarget, Identity
<1>6. RecordsBegun'
  BY DEF RecordsBegun, InProgress, OnTarget, Identity
<1>7. ActedOnIdentified'
  BY DEF ActedOnIdentified, InProgress, OnTarget, Identity
<1>8. ActedIsAudited'
  BY LostIsLost
<1>9. AuditedOnce'
  BY DEF AuditedOnce, InProgress, OnTarget, Identity
<1>10. LeasesInOrder'
  BY DEF LeasesInOrder, InProgress, OnTarget, Identity
<1> QED
  BY <1>1, <1>2, <1>3, <1>4, <1>5, <1>6, <1>7, <1>8, <1>9, <1>10 DEF IInv

\* A cancelled process is gone.
LEMMA CancelDoneKeeps ==
    ASSUME IInv, NEW r \in Requests, CancelDone(r)
    PROVE  IInv'
<1> USE NoneAssumption, BoundsAssumption DEF IInv, CancelDone, End, Freed, request, history,
       Kinds, Stages, TypeOK
<1>1. TypeOK'
  OBVIOUS
<1>2. StageHeld'
  BY DEF StageHeld, InProgress, OnTarget, Identity
<1>3. NoProcess'
  BY DEF NoProcess, InProgress, OnTarget, Identity
<1>4. NumbersDiffer'
  BY DEF NumbersDiffer, InProgress, OnTarget, Identity
<1>5. StageRecords'
  BY DEF StageRecords, InProgress, OnTarget, Identity
<1>6. RecordsBegun'
  BY DEF RecordsBegun, InProgress, OnTarget, Identity
<1>7. ActedOnIdentified'
  BY DEF ActedOnIdentified, InProgress, OnTarget, Identity
<1>8. ActedIsAudited'
  BY LostIsLost DEF StageHeld, NoProcess
<1>9. AuditedOnce'
  BY DEF AuditedOnce, InProgress, OnTarget, Identity
<1>10. LeasesInOrder'
  BY DEF LeasesInOrder, InProgress, OnTarget, Identity
<1> QED
  BY <1>1, <1>2, <1>3, <1>4, <1>5, <1>6, <1>7, <1>8, <1>9, <1>10 DEF IInv

\* A cancellation while a signalled process is awaited.
LEMMA CancelAgainKeeps ==
    ASSUME IInv, NEW r \in Requests, CancelAgain(r)
    PROVE  IInv'
<1> USE NoneAssumption, BoundsAssumption DEF IInv, CancelAgain, End, Freed, Mark, request, history,
       Kinds, Stages, TypeOK
<1>1. TypeOK'
  <2>1. opno[r] \in 1..MaxOps
    BY InStage DEF NoProcess
  <2> QED
    BY <2>1
<1>2. StageHeld'
  BY DEF StageHeld, InProgress, OnTarget, Identity
<1>3. NoProcess'
  BY DEF NoProcess, InProgress, OnTarget, Identity
<1>4. NumbersDiffer'
  BY DEF NumbersDiffer, InProgress, OnTarget, Identity
<1>5. StageRecords'
  BY DEF StageRecords, InProgress, OnTarget, Identity
<1>6. RecordsBegun'
  BY DEF RecordsBegun, InProgress, OnTarget, Identity
<1>7. ActedOnIdentified'
  BY DEF ActedOnIdentified, InProgress, OnTarget, Identity
<1>8. ActedIsAudited'
  BY LostIsLost
<1>9. AuditedOnce'
  BY DEF AuditedOnce, InProgress, OnTarget, Identity
<1>10. LeasesInOrder'
  BY DEF LeasesInOrder, InProgress, OnTarget, Identity
<1> QED
  BY <1>1, <1>2, <1>3, <1>4, <1>5, <1>6, <1>7, <1>8, <1>9, <1>10 DEF IInv

\* A cancellation between two attempts.
LEMMA CancelPauseKeeps ==
    ASSUME IInv, NEW r \in Requests, CancelPause(r)
    PROVE  IInv'
<1> USE NoneAssumption, BoundsAssumption DEF IInv, CancelPause, End, Freed, Mark, request, history,
       Kinds, Stages, TypeOK
<1>1. TypeOK'
  <2>1. opno[r] \in 1..MaxOps
    BY InStage DEF NoProcess
  <2> QED
    BY <2>1
<1>2. StageHeld'
  BY DEF StageHeld, InProgress, OnTarget, Identity
<1>3. NoProcess'
  BY DEF NoProcess, InProgress, OnTarget, Identity
<1>4. NumbersDiffer'
  BY DEF NumbersDiffer, InProgress, OnTarget, Identity
<1>5. StageRecords'
  BY DEF StageRecords, InProgress, OnTarget, Identity
<1>6. RecordsBegun'
  BY DEF RecordsBegun, InProgress, OnTarget, Identity
<1>7. ActedOnIdentified'
  BY DEF ActedOnIdentified, InProgress, OnTarget, Identity
<1>8. ActedIsAudited'
  BY LostIsLost
<1>9. AuditedOnce'
  BY DEF AuditedOnce, InProgress, OnTarget, Identity
<1>10. LeasesInOrder'
  BY DEF LeasesInOrder, InProgress, OnTarget, Identity
<1> QED
  BY <1>1, <1>2, <1>3, <1>4, <1>5, <1>6, <1>7, <1>8, <1>9, <1>10 DEF IInv

\* An orphan ends.
LEMMA OrphanExitsKeeps ==
    ASSUME IInv, NEW n \in 1..MaxOps, OrphanExits(n)
    PROVE  IInv'
<1> USE NoneAssumption, BoundsAssumption DEF IInv, OrphanExits, request, history,
       Kinds, Stages, TypeOK
<1>1. TypeOK'
  OBVIOUS
<1>2. StageHeld'
  BY DEF StageHeld, InProgress, OnTarget, Identity
<1>3. NoProcess'
  BY DEF NoProcess, InProgress, OnTarget, Identity
<1>4. NumbersDiffer'
  BY DEF NumbersDiffer, InProgress, OnTarget, Identity
<1>5. StageRecords'
  BY DEF StageRecords, InProgress, OnTarget, Identity
<1>6. RecordsBegun'
  BY DEF RecordsBegun, InProgress, OnTarget, Identity
<1>7. ActedOnIdentified'
  BY DEF ActedOnIdentified, InProgress, OnTarget, Identity
<1>8. ActedIsAudited'
  BY DEF ActedIsAudited, InProgress, OnTarget, Identity
<1>9. AuditedOnce'
  BY DEF AuditedOnce, InProgress, OnTarget, Identity
<1>10. LeasesInOrder'
  BY DEF LeasesInOrder, InProgress, OnTarget, Identity
<1> QED
  BY <1>1, <1>2, <1>3, <1>4, <1>5, <1>6, <1>7, <1>8, <1>9, <1>10 DEF IInv

\* A board is exchanged.
LEMMA ExchangeKeeps ==
    ASSUME IInv, NEW p \in Probes, Exchange(p)
    PROVE  IInv'
<1> USE NoneAssumption, BoundsAssumption DEF IInv, Exchange, request, history,
       Kinds, Stages, TypeOK
<1>1. TypeOK'
  OBVIOUS
<1>2. StageHeld'
  BY DEF StageHeld, InProgress, OnTarget, Identity
<1>3. NoProcess'
  BY DEF NoProcess, InProgress, OnTarget, Identity
<1>4. NumbersDiffer'
  BY DEF NumbersDiffer, InProgress, OnTarget, Identity
<1>5. StageRecords'
  BY DEF StageRecords, InProgress, OnTarget, Identity
<1>6. RecordsBegun'
  BY DEF RecordsBegun, InProgress, OnTarget, Identity
<1>7. ActedOnIdentified'
  BY DEF ActedOnIdentified, InProgress, OnTarget, Identity
<1>8. ActedIsAudited'
  BY DEF ActedIsAudited, InProgress, OnTarget, Identity
<1>9. AuditedOnce'
  BY DEF AuditedOnce, InProgress, OnTarget, Identity
<1>10. LeasesInOrder'
  BY DEF LeasesInOrder, InProgress, OnTarget, Identity
<1> QED
  BY <1>1, <1>2, <1>3, <1>4, <1>5, <1>6, <1>7, <1>8, <1>9, <1>10 DEF IInv

\* Every step keeps the invariant.
LEMMA NextIInv == IInv /\ [Next]_vars => IInv'
<1> SUFFICES ASSUME IInv, [Next]_vars PROVE IInv'
  OBVIOUS
<1>1. CASE UNCHANGED vars
  BY <1>1 DEF vars, request, history, IInv, TypeOK, StageHeld, NoProcess, NumbersDiffer, StageRecords,
              RecordsBegun, ActedOnIdentified, ActedIsAudited, AuditedOnce, LeasesInOrder,
              OnTarget, Identity, InProgress
<1>2. ASSUME NEW r \in Requests, NEW k \in Kinds, NEW p \in Probes, Begin(r, k, p)
      PROVE  IInv'
  BY <1>2, BeginKeeps
<1>3. ASSUME NEW r \in Requests, Returns(r)
      PROVE  IInv'
  BY <1>3, IdentifiedKeeps, ResumedKeeps, ExecutedKeeps, AttemptedKeeps, CancelDoneKeeps
     DEF Returns
<1>4. ASSUME NEW r \in Requests,
             Awake(r) \/ Timeout(r) \/ Kill(r) \/ Cancel(r) \/ CancelAgain(r) \/ CancelPause(r)
      PROVE  IInv'
  BY <1>4, AwakeKeeps, TimeoutKeeps, KillKeeps, CancelKeeps, CancelAgainKeeps, CancelPauseKeeps
<1>5. ASSUME NEW n \in 1..MaxOps, OrphanExits(n)
      PROVE  IInv'
  BY <1>5, OrphanExitsKeeps
<1>6. ASSUME NEW p \in Probes, Exchange(p)
      PROVE  IInv'
  BY <1>6, ExchangeKeeps
<1> QED
  BY <1>1, <1>2, <1>3, <1>4, <1>5, <1>6 DEF Next

\* What each stage has established holds throughout (service.py,
\* commander_commands and run_application).
THEOREM Invariance == Spec => []IInv
  BY InitIInv, NextIInv, PTL DEF Spec

\* No operation acts on a target that was not positively identified and
\* audited as such under the operation's own lease (_identity_preflight).
THEOREM ActsOnIdentifiedTargets == Spec => []ActedOnIdentified
  BY Invariance, PTL DEF IInv

\* The last stage of an operation that ran to its end is in the audit chain,
\* failed ones and those that timed out included, and no stage is recorded
\* twice, however often an application is tried (run_application).
THEOREM StagesAreAudited == Spec => []StagesAudited
  BY Invariance, PTL DEF IInv, StagesAudited

\* The records of a probe are in the order of its leases (commander_commands).
THEOREM RecordsInLeaseOrder == Spec => []LeasesInOrder
  BY Invariance, PTL DEF IInv

\* Two operations are never in progress on one probe (ProbeLeaseManager.lease).
THEOREM ProbesExclusive == Spec => []OneOperationPerProbe
<1>1. IInv => OneOperationPerProbe
  BY NoneAssumption DEF IInv, StageHeld, OneOperationPerProbe, TypeOK
<1> QED
  BY <1>1, Invariance, PTL
=============================================================================
