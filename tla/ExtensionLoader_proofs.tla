------------------------ MODULE ExtensionLoader_proofs ------------------------
(***************************************************************************)
(* Loading, rollback and shutdown are right for any set of extensions with  *)
(* any dependencies, contributions and failures.                            *)
(***************************************************************************)
EXTENDS ExtensionLoader, SequenceTheorems, WellFoundedInduction, TLAPS

TypeOK ==
    /\ phase \in {"ordering", "loading", "registering", "cleanup", "rollback", "failed",
                  "aborted", "serving", "stopping", "stopped"}
    /\ visiting \in Seq(Extensions) /\ order \in Seq(Extensions)
    /\ started \in Seq(Extensions) /\ loaded \in Seq(Extensions)
    /\ infos \in Seq(Extensions)
    /\ pending \in Seq(Extensions) /\ hooks \in Seq(Extensions)
    /\ undo \in [Extensions -> Seq(Names)]
    /\ registry \in [Names -> SUBSET (Extensions \cup {Core})]

\* An extension is visited once, and stands after its dependencies in the order.
OrderInv ==
    /\ \A i, j \in 1..Len(order) : order[i] = order[j] => i = j
    /\ \A i, j \in 1..Len(visiting) : visiting[i] = visiting[j] => i = j
    /\ \A i \in 1..Len(order), j \in 1..Len(visiting) : order[i] # visiting[j]
    /\ \A i \in 1..Len(order) : \A d \in deps[order[i]] : \E j \in 1..(i-1) : order[j] = d

\* Extensions start in the order; those whose register returned are loaded.
StartInv ==
    /\ Len(started) <= Len(order)
    /\ \A i \in 1..Len(started) : started[i] = order[i]
    /\ phase \in {"ordering", "failed"} => loaded = <<>> /\ infos = <<>>
    /\ phase = "ordering" => started = <<>>
    /\ phase \in {"loading", "serving"} => Len(loaded) = Len(started)
    /\ phase = "registering" => Len(started) = Len(loaded) + 1
    /\ phase \in {"loading", "registering", "serving"} =>
           \A i \in 1..Len(loaded) : loaded[i] = started[i]

\* Hooks run from the last extension that started to the first.
HookInv ==
    /\ Len(hooks) <= Len(started)
    /\ \A j \in 1..Len(hooks) : hooks[j] = started[Len(started) + 1 - j]
    /\ phase \in {"ordering", "loading", "registering", "serving"} => hooks = <<>>
    /\ phase \in {"cleanup", "stopping"} => Len(pending) + Len(hooks) = Len(started)
    /\ phase \in {"cleanup", "stopping", "rollback"} =>
           /\ Len(pending) <= Len(started)
           /\ \A i \in 1..Len(pending) : pending[i] = started[i]
    /\ phase \in {"rollback", "failed", "stopped"} /\ ~broken => Len(hooks) = Len(started)

\* How many of the started extensions may have names in the registry.
Contributors == IF phase = "failed" THEN 0
                ELSE IF phase = "rollback" THEN Len(pending) ELSE Len(started)

Notes(e, n) == \E i \in 1..Len(undo[e]) : undo[e][i] = n

\* A name that is not as the core left it is noted by a contributor, and is
\* none of the core's.
RegistryInv ==
    /\ \A e \in Extensions, n \in Names : Notes(e, n) => n \notin CoreNames
    /\ \A n \in Names :
           \/ registry[n] = CoreRegistry[n]
           \/ n \notin CoreNames /\ \E k \in 1..Contributors : Notes(started[k], n)

\* The inductive invariant behind the theorems.
IInv == TypeOK /\ OrderInv /\ StartInv /\ HookInv /\ RegistryInv

-----------------------------------------------------------------------------
(* Sequences                                                                *)

LEMMA RangeMembers ==
    ASSUME NEW S, NEW s \in Seq(S)
    PROVE  Range(s) = {s[i] : i \in 1..Len(s)}
<1>1. DOMAIN s = 1..Len(s)
  OBVIOUS
<1>2. Range(s) = {s[i] : i \in DOMAIN s}
  BY DEF Range
<1> QED
  BY <1>1, <1>2

LEMMA FrontAndLast ==
    ASSUME NEW S, NEW s \in Seq(S), s # <<>>
    PROVE  /\ Len(s) \in Nat \ {0}
           /\ Front(s) \in Seq(S) /\ Len(Front(s)) = Len(s) - 1
           /\ \A i \in 1..(Len(s) - 1) : Front(s)[i] = s[i]
           /\ Last(s) = s[Len(s)] /\ Last(s) \in S
<1> DEFINE n == Len(s) - 1
<1>1. Len(s) \in Nat \ {0} /\ \A i \in 1..Len(s) : s[i] \in S
  OBVIOUS
<1>2. n \in Nat /\ 1 \in Int /\ n \in Int /\ n - 1 + 1 = n
  BY <1>1
<1>3. \A i \in 1..n : s[i] \in S
  BY <1>1
<1> HIDE DEF n
<1>4. /\ SubSeq(s, 1, n) \in Seq(S)
      /\ Len(SubSeq(s, 1, n)) = IF 1 <= n THEN n - 1 + 1 ELSE 0
      /\ \A i \in 1..(n - 1 + 1) : SubSeq(s, 1, n)[i] = s[1 + i - 1]
  BY <1>2, <1>3, SubSeqProperties
<1>5. Len(SubSeq(s, 1, n)) = n
  BY <1>2, <1>4
<1>6. \A i \in 1..n : SubSeq(s, 1, n)[i] = s[i]
  BY <1>2, <1>4
<1>7. Front(s) = SubSeq(s, 1, n) /\ Last(s) = s[Len(s)]
  BY DEF Front, Last, n
<1>8. Last(s) \in S
  BY <1>1, <1>7
<1>9. Front(s) \in Seq(S) /\ Len(Front(s)) = n /\ \A i \in 1..n : Front(s)[i] = s[i]
  BY <1>4, <1>5, <1>6, <1>7
<1> QED
  BY <1>1, <1>7, <1>8, <1>9 DEF n

LEMMA AppendOne ==
    ASSUME NEW S, NEW s \in Seq(S), NEW x \in S
    PROVE  /\ Len(s) \in Nat
           /\ Append(s, x) \in Seq(S) /\ Len(Append(s, x)) = Len(s) + 1
           /\ \A i \in 1..Len(s) : Append(s, x)[i] = s[i]
           /\ Append(s, x)[Len(s) + 1] = x
  OBVIOUS

-----------------------------------------------------------------------------
(* Parts that a step leaves alone                                           *)

LEMMA OrderStays ==
    ASSUME OrderInv, UNCHANGED <<deps, visiting, order>> PROVE OrderInv'
  BY DEF OrderInv

LEMMA RegistryStays ==
    ASSUME RegistryInv, UNCHANGED <<undo, started, registry>>, Contributors' = Contributors
    PROVE  RegistryInv'
  BY DEF RegistryInv, Notes, CoreRegistry

-----------------------------------------------------------------------------
(* Order                                                                    *)

LEMMA VisitKeeps == ASSUME IInv, NEW e \in Extensions, Visit(e) PROVE IInv'
<1> USE DEF IInv
<1>1. /\ phase = "ordering" /\ e \notin Range(order)
      /\ UNCHANGED <<deps, order, started, undo, loaded, infos, registry, pending, hooks>>
      /\ broken' = broken
  BY DEF Visit, given, Unvisited
<1>2. \/ phase' = "failed" /\ visiting' = visiting
      \/ e \notin Range(visiting) /\ visiting' = Append(visiting, e) /\ phase' = phase
  BY DEF Visit
<1>3. TypeOK'
  <2>1. Append(visiting, e) \in Seq(Extensions)
    BY AppendOne DEF TypeOK
  <2> QED
    BY <1>1, <1>2, <2>1 DEF TypeOK
<1>4. OrderInv'
  <2>1. CASE visiting' = visiting
    BY <1>1, <2>1, OrderStays
  <2>2. CASE e \notin Range(visiting) /\ visiting' = Append(visiting, e)
    <3>1. /\ Len(visiting) \in Nat /\ Len(visiting') = Len(visiting) + 1
          /\ \A i \in 1..Len(visiting) : visiting'[i] = visiting[i]
          /\ visiting'[Len(visiting) + 1] = e
      BY <2>2, AppendOne DEF TypeOK
    <3>2. /\ \A i \in 1..Len(visiting) : visiting[i] # e
          /\ \A i \in 1..Len(order) : order[i] # e
      <4>1. visiting \in Seq(Extensions) /\ order \in Seq(Extensions)
        BY DEF TypeOK
      <4>2. /\ Range(visiting) = {visiting[i] : i \in 1..Len(visiting)}
            /\ Range(order) = {order[i] : i \in 1..Len(order)}
        BY <4>1, RangeMembers
      <4> QED
        BY <1>1, <2>2, <4>2
    <3>3. \A i \in 1..Len(visiting') : i \in 1..Len(visiting) \/ i = Len(visiting) + 1
      BY <3>1
    <3>4. \A i, j \in 1..Len(visiting') : visiting'[i] = visiting'[j] => i = j
      BY <3>1, <3>2, <3>3 DEF OrderInv
    <3>5. \A i \in 1..Len(order), j \in 1..Len(visiting') : order[i] # visiting'[j]
      BY <3>1, <3>2, <3>3 DEF OrderInv
    <3> QED
      BY <1>1, <3>4, <3>5 DEF OrderInv
  <2> QED
    BY <1>2, <2>1, <2>2
<1>5. StartInv'
  BY <1>1, <1>2 DEF StartInv
<1>6. HookInv'
  BY <1>1, <1>2 DEF HookInv, StartInv
<1>7. RegistryInv'
  <2>1. Contributors' = Contributors
    BY <1>1, <1>2 DEF Contributors, StartInv
  <2> QED
    BY <1>1, <2>1, RegistryStays
<1> QED
  BY <1>3, <1>4, <1>5, <1>6, <1>7

LEMMA VisitedKeeps == ASSUME IInv, Visited PROVE IInv'
<1> USE DEF IInv
<1>1. /\ phase = "ordering" /\ visiting # <<>>
      /\ \A d \in deps[Last(visiting)] : d \in Range(order)
      /\ visiting' = Front(visiting) /\ order' = Append(order, Last(visiting))
      /\ UNCHANGED <<phase, deps, started, undo, loaded, infos, registry, pending, hooks>>
      /\ broken' = broken
  BY DEF Visited, given, Unvisited
<1>2. /\ Len(visiting) \in Nat \ {0} /\ visiting' \in Seq(Extensions)
      /\ Len(visiting') = Len(visiting) - 1
      /\ \A i \in 1..(Len(visiting) - 1) : visiting'[i] = visiting[i]
      /\ Last(visiting) = visiting[Len(visiting)] /\ Last(visiting) \in Extensions
  <2>1. visiting \in Seq(Extensions)
    BY DEF TypeOK
  <2> QED
    BY <1>1, <2>1, FrontAndLast
<1>3. /\ Len(order) \in Nat /\ order' \in Seq(Extensions) /\ Len(order') = Len(order) + 1
      /\ \A i \in 1..Len(order) : order'[i] = order[i]
      /\ order'[Len(order) + 1] = Last(visiting)
  BY <1>1, <1>2, AppendOne DEF TypeOK
<1>4. TypeOK'
  BY <1>1, <1>2, <1>3 DEF TypeOK
<1>5. OrderInv'
  <2>1. \A i \in 1..Len(order') : i \in 1..Len(order) \/ i = Len(order) + 1
    BY <1>3
  <2>2. \A j \in 1..Len(visiting') : j \in 1..Len(visiting) /\ j # Len(visiting)
    BY <1>2
  <2>3. ASSUME NEW i \in 1..Len(order'), NEW j \in 1..Len(order'), order'[i] = order'[j]
        PROVE  i = j
    <3>1. \A k \in 1..Len(order) : order[k] # Last(visiting)
      BY <1>2 DEF OrderInv
    <3>2. CASE i \in 1..Len(order) /\ j \in 1..Len(order)
      BY <1>3, <2>3, <3>2 DEF OrderInv
    <3>3. CASE i = Len(order) + 1 /\ j \in 1..Len(order)
      BY <1>3, <2>3, <3>1, <3>3
    <3>4. CASE i \in 1..Len(order) /\ j = Len(order) + 1
      BY <1>3, <2>3, <3>1, <3>4
    <3> QED
      BY <2>1, <3>2, <3>3, <3>4
  <2>4. \A i, j \in 1..Len(visiting') : visiting'[i] = visiting'[j] => i = j
    BY <1>2, <2>2 DEF OrderInv
  <2>5. \A i \in 1..Len(order'), j \in 1..Len(visiting') : order'[i] # visiting'[j]
    BY <1>2, <1>3, <2>1, <2>2 DEF OrderInv
  <2>6. ASSUME NEW i \in 1..Len(order'), NEW d \in deps[order'[i]]
        PROVE  \E j \in 1..(i-1) : order'[j] = d
    <3>1. CASE i \in 1..Len(order)
      <4>1. PICK j \in 1..(i-1) : order[j] = d
        BY <1>3, <2>6, <3>1 DEF OrderInv
      <4>2. j \in 1..Len(order)
        BY <1>3, <3>1
      <4> QED
        BY <1>3, <4>1, <4>2
    <3>2. CASE i = Len(order) + 1
      <4>1. d \in Range(order)
        BY <1>1, <1>3, <2>6, <3>2
      <4>2. PICK j \in 1..Len(order) : order[j] = d
        <5>1. order \in Seq(Extensions)
          BY DEF TypeOK
        <5>2. Range(order) = {order[j] : j \in 1..Len(order)}
          BY <5>1, RangeMembers
        <5> QED
          BY <4>1, <5>2
      <4> QED
        BY <1>3, <3>2, <4>2
    <3> QED
      BY <2>1, <3>1, <3>2
  <2> QED
    BY <1>1, <2>3, <2>4, <2>5, <2>6 DEF OrderInv
<1>6. StartInv'
  BY <1>1, <1>3 DEF StartInv, TypeOK
<1>7. HookInv'
  BY <1>1 DEF HookInv
<1>8. RegistryInv'
  <2>1. Contributors' = Contributors
    BY <1>1 DEF Contributors
  <2> QED
    BY <1>1, <2>1, RegistryStays
<1> QED
  BY <1>4, <1>5, <1>6, <1>7, <1>8

LEMMA OrderEndsKeep == ASSUME IInv, Refuse \/ Ordered PROVE IInv'
<1> USE DEF IInv
<1>1. /\ phase = "ordering" /\ phase' \in {"failed", "loading"}
      /\ UNCHANGED <<deps, visiting, order, started, undo, loaded, infos, registry>>
      /\ UNCHANGED <<pending, hooks, broken>>
  BY DEF Refuse, Ordered, given
<1>2. TypeOK'
  BY <1>1 DEF TypeOK
<1>3. OrderInv'
  BY <1>1, OrderStays
<1>4. StartInv'
  BY <1>1 DEF StartInv
<1>5. HookInv'
  BY <1>1 DEF HookInv, StartInv
<1>6. RegistryInv'
  <2>1. Contributors' = Contributors
    BY <1>1 DEF Contributors, StartInv
  <2> QED
    BY <1>1, <2>1, RegistryStays
<1> QED
  BY <1>2, <1>3, <1>4, <1>5, <1>6

-----------------------------------------------------------------------------
(* Registration                                                             *)

LEMMA RegisterKeeps == ASSUME IInv, Register PROVE IInv'
<1> USE DEF IInv
<1>1. /\ phase = "loading" /\ phase' = "registering" /\ Len(loaded) < Len(order)
      /\ started' = Append(started, order[Len(loaded) + 1])
      /\ UNCHANGED <<deps, visiting, order, undo, loaded, infos, registry, pending, hooks>>
      /\ broken' = broken
  BY DEF Register, given
<1>2. Len(started) \in Nat /\ Len(order) \in Nat /\ Len(loaded) = Len(started)
  BY <1>1 DEF TypeOK, StartInv
<1>3. order[Len(started) + 1] \in Extensions
  BY <1>1, <1>2 DEF TypeOK
<1>4. /\ started' \in Seq(Extensions) /\ Len(started') = Len(started) + 1
      /\ \A i \in 1..Len(started) : started'[i] = started[i]
      /\ started'[Len(started) + 1] = order[Len(started) + 1]
  <2>1. started \in Seq(Extensions) /\ started' = Append(started, order[Len(started) + 1])
    BY <1>1, <1>2 DEF TypeOK
  <2> QED
    BY <1>3, <2>1, AppendOne
<1>5. TypeOK'
  BY <1>1, <1>4 DEF TypeOK
<1>6. OrderInv'
  BY <1>1, OrderStays
<1>7. StartInv'
  BY <1>1, <1>2, <1>4 DEF StartInv
<1>8. HookInv'
  BY <1>1, <1>2, <1>4 DEF HookInv
<1>9. RegistryInv'
  <2>1. Contributors = Len(started) /\ Contributors' = Len(started) + 1
    BY <1>1, <1>4 DEF Contributors
  <2>2. \A k \in 1..Contributors : k \in 1..Contributors' /\ started'[k] = started[k]
    BY <1>2, <1>4, <2>1
  <2>3. \A d \in Extensions, n \in Names : Notes(d, n)' <=> Notes(d, n)
    BY <1>1 DEF Notes
  <2>4. ASSUME NEW n \in Names
        PROVE  \/ registry'[n] = CoreRegistry[n]
               \/ n \notin CoreNames /\ \E k \in 1..Contributors' : Notes(started[k], n)'
    <3>1. CASE registry[n] = CoreRegistry[n]
      BY <1>1, <3>1
    <3>2. ASSUME n \notin CoreNames, NEW k \in 1..Contributors, Notes(started[k], n)
          PROVE  \E l \in 1..Contributors' : Notes(started[l], n)'
      <4>1. k \in 1..Contributors' /\ started'[k] = started[k] /\ undo' = undo
        BY <1>1, <2>2
      <4>2. Notes(started[k], n)'
        BY <3>2, <4>1 DEF Notes
      <4> QED
        BY <4>1, <4>2
    <3> QED
      BY <3>1, <3>2 DEF RegistryInv
  <2> QED
    BY <1>1, <2>3, <2>4 DEF RegistryInv, CoreRegistry
<1> QED
  BY <1>5, <1>6, <1>7, <1>8, <1>9

LEMMA ContributeKeeps == ASSUME IInv, NEW n \in Names, Contribute(n) PROVE IInv'
<1> USE DEF IInv
<1>1. /\ phase = "registering" /\ registry[n] = {}
      /\ registry' = [registry EXCEPT ![n] = @ \cup {started[Len(started)]}]
      /\ undo' = [undo EXCEPT ![started[Len(started)]] = Append(@, n)]
      /\ UNCHANGED <<phase, deps, visiting, order, started, loaded, infos, pending, hooks>>
      /\ broken' = broken
  BY DEF Contribute, given, Current, Last
<1>2. Len(started) \in Nat /\ Len(loaded) \in Nat /\ Len(started) = Len(loaded) + 1
  BY <1>1 DEF TypeOK, StartInv
<1>3. PICK e \in Extensions : e = started[Len(started)]
  BY <1>2 DEF TypeOK
<1>4. /\ Len(undo[e]) \in Nat /\ undo'[e] \in Seq(Names) /\ Len(undo'[e]) = Len(undo[e]) + 1
      /\ \A i \in 1..Len(undo[e]) : undo'[e][i] = undo[e][i]
      /\ undo'[e][Len(undo[e]) + 1] = n
  <2>1. undo[e] \in Seq(Names) /\ undo'[e] = Append(undo[e], n)
    BY <1>1, <1>3 DEF TypeOK
  <2> QED
    BY <2>1, AppendOne
<1>5. \A d \in Extensions \ {e} : undo'[d] = undo[d]
  BY <1>1, <1>3 DEF TypeOK
<1>6. TypeOK'
  <2>1. undo' \in [Extensions -> Seq(Names)]
    BY <1>1, <1>3, <1>4 DEF TypeOK
  <2>2. registry' \in [Names -> SUBSET (Extensions \cup {Core})]
    BY <1>1, <1>3 DEF TypeOK
  <2> QED
    BY <1>1, <2>1, <2>2 DEF TypeOK
<1>7. OrderInv' /\ StartInv' /\ HookInv'
  BY <1>1, OrderStays DEF StartInv, HookInv
<1>8. RegistryInv'
  <2>1. n \notin CoreNames
    BY <1>1 DEF RegistryInv, CoreRegistry
  <2>2. \A d \in Extensions, m \in Names : Notes(d, m)' => Notes(d, m) \/ m = n
    <3>1. ASSUME NEW d \in Extensions, NEW m \in Names, NEW i \in 1..Len(undo'[d]),
                 undo'[d][i] = m
          PROVE  Notes(d, m) \/ m = n
      <4>1. CASE d = e
        <5>1. i \in 1..Len(undo[e]) \/ i = Len(undo[e]) + 1
          BY <1>4, <4>1
        <5> QED
          BY <1>4, <3>1, <4>1, <5>1 DEF Notes
      <4>2. CASE d # e
        BY <1>5, <3>1, <4>2 DEF Notes
      <4> QED
        BY <4>1, <4>2
    <3> QED
      BY <3>1 DEF Notes
  <2>3. \A d \in Extensions, m \in Names : Notes(d, m) => Notes(d, m)'
    <3>1. ASSUME NEW d \in Extensions, NEW m \in Names, NEW i \in 1..Len(undo[d]),
                 undo[d][i] = m
          PROVE  Notes(d, m)'
      <4>1. CASE d = e
        <5>1. i \in 1..Len(undo'[e])
          BY <1>4, <4>1
        <5> QED
          BY <1>4, <3>1, <4>1, <5>1 DEF Notes
      <4>2. CASE d # e
        BY <1>5, <3>1, <4>2 DEF Notes
      <4> QED
        BY <4>1, <4>2
    <3> QED
      BY <3>1 DEF Notes
  <2>4. Notes(e, n)'
    <3>1. Len(undo[e]) + 1 \in 1..Len(undo'[e])
      BY <1>4
    <3> QED
      BY <1>4, <3>1 DEF Notes
  <2>5. Contributors' = Contributors /\ Contributors = Len(started)
    BY <1>1 DEF Contributors
  <2>6. ASSUME NEW m \in Names
        PROVE  \/ registry'[m] = CoreRegistry[m]
               \/ m \notin CoreNames /\ \E k \in 1..Contributors' : Notes(started[k], m)'
    <3>1. CASE m = n
      BY <1>1, <1>2, <1>3, <2>1, <2>4, <2>5, <3>1
    <3>2. CASE m # n
      <4>1. registry'[m] = registry[m]
        BY <1>1, <3>2 DEF TypeOK
      <4>2. \A k \in 1..Contributors : started[k] \in Extensions
        BY <1>2, <2>5 DEF TypeOK
      <4> QED
        BY <1>1, <2>3, <2>5, <4>1, <4>2 DEF RegistryInv
    <3> QED
      BY <3>1, <3>2
  <2>7. \A d \in Extensions, m \in Names : Notes(d, m)' => m \notin CoreNames
    BY <2>1, <2>2 DEF RegistryInv
  <2> QED
    BY <2>6, <2>7 DEF RegistryInv, CoreRegistry
<1> QED
  BY <1>6, <1>7, <1>8

LEMMA RegisteredKeeps == ASSUME IInv, Registered PROVE IInv'
<1> USE DEF IInv
<1>1. /\ phase = "registering" /\ phase' = "loading"
      /\ loaded' = Append(loaded, Last(started)) /\ infos' = Append(infos, Last(started))
      /\ UNCHANGED <<deps, visiting, order, started, undo, registry, pending, hooks>>
      /\ broken' = broken
  BY DEF Registered, given, Current
<1>2. /\ Len(started) \in Nat /\ Len(loaded) \in Nat /\ Len(started) = Len(loaded) + 1
      /\ Last(started) = started[Len(started)]
  BY <1>1 DEF TypeOK, StartInv, Last
<1>3. Last(started) \in Extensions
  BY <1>2 DEF TypeOK
<1>4. /\ loaded' \in Seq(Extensions) /\ Len(loaded') = Len(loaded) + 1
      /\ \A i \in 1..Len(loaded) : loaded'[i] = loaded[i]
      /\ loaded'[Len(loaded) + 1] = Last(started)
  <2>1. loaded \in Seq(Extensions)
    BY DEF TypeOK
  <2> QED
    BY <1>1, <1>3, <2>1, AppendOne
<1>5. infos' \in Seq(Extensions)
  BY <1>1, <1>3 DEF TypeOK
<1>6. TypeOK'
  BY <1>1, <1>4, <1>5 DEF TypeOK
<1>7. OrderInv'
  BY <1>1, OrderStays
<1>8. StartInv'
  <2>1. \A i \in 1..Len(loaded') : i \in 1..Len(loaded) \/ i = Len(loaded) + 1
    BY <1>2, <1>4
  <2>2. \A i \in 1..Len(loaded') : loaded'[i] = started[i]
    BY <1>1, <1>2, <1>4, <2>1 DEF StartInv
  <2> QED
    BY <1>1, <1>2, <1>4, <2>2 DEF StartInv
<1>9. HookInv'
  BY <1>1 DEF HookInv
<1>10. RegistryInv'
  <2>1. Contributors' = Contributors
    BY <1>1 DEF Contributors
  <2> QED
    BY <1>1, <2>1, RegistryStays
<1> QED
  BY <1>6, <1>7, <1>8, <1>9, <1>10

LEMMA LoadFailsKeeps == ASSUME IInv, LoadFails PROVE IInv'
<1> USE DEF IInv
<1>1. /\ phase \in {"loading", "registering"} /\ phase' = "cleanup" /\ pending' = started
      /\ UNCHANGED <<deps, visiting, order, started, undo, loaded, infos, registry, hooks>>
      /\ broken' = broken
  BY DEF LoadFails, given
<1>2. TypeOK'
  BY <1>1 DEF TypeOK
<1>3. OrderInv' /\ StartInv'
  BY <1>1, OrderStays DEF StartInv
<1>4. HookInv'
  <2>1. hooks = <<>> /\ Len(started) \in Nat
    BY <1>1 DEF HookInv, TypeOK
  <2> QED
    BY <1>1, <2>1 DEF HookInv
<1>5. RegistryInv'
  <2>1. Contributors' = Contributors
    BY <1>1 DEF Contributors
  <2> QED
    BY <1>1, <2>1, RegistryStays
<1> QED
  BY <1>2, <1>3, <1>4, <1>5

LEMMA LoadBreaksKeeps == ASSUME IInv, LoadBreaks PROVE IInv'
<1> USE DEF IInv
<1>1. /\ phase \in {"loading", "registering"} /\ phase' = "aborted" /\ broken' = TRUE
      /\ UNCHANGED <<deps, visiting, order, started, undo, loaded, infos, registry>>
      /\ UNCHANGED <<pending, hooks>>
  BY DEF LoadBreaks, given
<1>2. TypeOK'
  BY <1>1 DEF TypeOK
<1>3. OrderInv' /\ StartInv' /\ HookInv'
  BY <1>1, OrderStays DEF StartInv, HookInv
<1>4. RegistryInv'
  <2>1. Contributors' = Contributors
    BY <1>1 DEF Contributors
  <2> QED
    BY <1>1, <2>1, RegistryStays
<1> QED
  BY <1>2, <1>3, <1>4

LEMMA ServingKeeps == ASSUME IInv, Validated \/ Shutdown PROVE IInv'
<1> USE DEF IInv
<1>1. /\ \/ phase = "loading" /\ phase' = "serving" /\ pending' = pending
         \/ phase = "serving" /\ phase' = "stopping" /\ pending' = loaded
      /\ UNCHANGED <<deps, visiting, order, started, undo, loaded, infos, registry, hooks>>
      /\ broken' = broken
  BY DEF Validated, Shutdown, given
<1>2. TypeOK'
  BY <1>1 DEF TypeOK
<1>3. OrderInv' /\ StartInv'
  BY <1>1, OrderStays DEF StartInv
<1>4. HookInv'
  <2>1. hooks = <<>> /\ Len(started) \in Nat
    BY <1>1 DEF HookInv, TypeOK
  <2> QED
    BY <1>1, <2>1 DEF HookInv, StartInv
<1>5. RegistryInv'
  <2>1. Contributors' = Contributors
    BY <1>1 DEF Contributors
  <2> QED
    BY <1>1, <2>1, RegistryStays
<1> QED
  BY <1>2, <1>3, <1>4, <1>5

-----------------------------------------------------------------------------
(* Rollback and shutdown                                                    *)

\* The hook of the last pending extension is the next in the reverse order.
LEMMA NextHook ==
    ASSUME IInv, phase \in {"cleanup", "stopping"}, pending # <<>>,
           hooks' = Append(hooks, Last(pending)), UNCHANGED started
    PROVE  /\ hooks' \in Seq(Extensions) /\ Len(hooks') = Len(hooks) + 1
           /\ Len(pending) \in Nat \ {0} /\ Len(hooks) \in Nat /\ Len(started) \in Nat
           /\ Len(hooks') <= Len(started)
           /\ \A j \in 1..Len(hooks') : hooks'[j] = started'[Len(started') + 1 - j]
<1>1. pending \in Seq(Extensions) /\ hooks \in Seq(Extensions) /\ Len(started) \in Nat
  BY DEF IInv, TypeOK
<1>2. /\ Len(pending) \in Nat \ {0} /\ Last(pending) \in Extensions
      /\ Last(pending) = pending[Len(pending)]
  BY <1>1, FrontAndLast
<1>3. /\ Len(hooks) \in Nat /\ hooks' \in Seq(Extensions) /\ Len(hooks') = Len(hooks) + 1
      /\ \A j \in 1..Len(hooks) : hooks'[j] = hooks[j]
      /\ hooks'[Len(hooks) + 1] = Last(pending)
  BY <1>1, <1>2, AppendOne
<1>4. /\ Len(pending) + Len(hooks) = Len(started)
      /\ \A i \in 1..Len(pending) : pending[i] = started[i]
      /\ \A j \in 1..Len(hooks) : hooks[j] = started[Len(started) + 1 - j]
  BY DEF IInv, HookInv
<1>5. Len(hooks') <= Len(started)
  BY <1>1, <1>2, <1>3, <1>4
<1>6. ASSUME NEW j \in 1..Len(hooks')
      PROVE  hooks'[j] = started[Len(started) + 1 - j]
  <2>1. CASE j \in 1..Len(hooks)
    BY <1>3, <1>4, <2>1
  <2>2. CASE j = Len(hooks) + 1
    <3>1. Len(started) + 1 - j = Len(pending) /\ Len(pending) \in 1..Len(pending)
      BY <1>1, <1>2, <1>3, <1>4, <2>2
    <3> QED
      BY <1>2, <1>3, <1>4, <2>2, <3>1
  <2>3. j \in 1..Len(hooks) \/ j = Len(hooks) + 1
    BY <1>3
  <2> QED
    BY <2>1, <2>2, <2>3
<1> QED
  BY <1>1, <1>2, <1>3, <1>5, <1>6

LEMMA RunHookKeeps == ASSUME IInv, RunHook PROVE IInv'
<1>1. /\ phase \in {"cleanup", "stopping"} /\ pending # <<>>
      /\ hooks' = Append(hooks, Last(pending)) /\ pending' = Front(pending)
      /\ UNCHANGED <<phase, deps, visiting, order, started, undo, loaded, infos, registry>>
      /\ broken' = broken
  BY DEF RunHook, given
<1>2. /\ hooks' \in Seq(Extensions) /\ Len(hooks') = Len(hooks) + 1
      /\ Len(pending) \in Nat \ {0} /\ Len(hooks) \in Nat /\ Len(started) \in Nat
      /\ Len(hooks') <= Len(started)
      /\ \A j \in 1..Len(hooks') : hooks'[j] = started'[Len(started') + 1 - j]
  BY <1>1, NextHook
<1>3. /\ pending' \in Seq(Extensions) /\ Len(pending') = Len(pending) - 1
      /\ \A i \in 1..(Len(pending) - 1) : pending'[i] = pending[i]
  <2>1. pending \in Seq(Extensions)
    BY DEF IInv, TypeOK
  <2> QED
    BY <1>1, <2>1, FrontAndLast
<1> USE DEF IInv
<1>4. TypeOK'
  BY <1>1, <1>2, <1>3 DEF TypeOK
<1>5. OrderInv' /\ StartInv'
  BY <1>1, OrderStays DEF StartInv
<1>6. HookInv'
  <2>1. Len(pending') + Len(hooks') = Len(started') /\ Len(pending') <= Len(started')
    <3>1. Len(pending) + Len(hooks) = Len(started)
      BY <1>1 DEF HookInv
    <3>2. Len(pending) \in Nat /\ Len(hooks) \in Nat /\ Len(started) \in Nat
      BY DEF TypeOK
    <3>3. Len(hooks') = Len(hooks) + 1 /\ Len(started') = Len(started)
      BY <1>1, <1>2
    <3>4. PICK p \in Nat : p = Len(pending)
      BY <3>2
    <3>5. PICK h \in Nat : h = Len(hooks)
      BY <3>2
    <3>6. Len(pending') = p - 1 /\ Len(hooks') = h + 1 /\ Len(started') = p + h
      BY <1>3, <3>1, <3>3, <3>4, <3>5
    <3> QED
      BY <3>6
  <2>2. \A i \in 1..Len(pending') : pending'[i] = started'[i]
    BY <1>1, <1>2, <1>3 DEF HookInv
  <2> QED
    BY <1>1, <1>2, <2>1, <2>2 DEF HookInv
<1>7. RegistryInv'
  <2>1. Contributors' = Contributors
    BY <1>1 DEF Contributors
  <2> QED
    BY <1>1, <2>1, RegistryStays
<1> QED
  BY <1>4, <1>5, <1>6, <1>7

LEMMA HookBreaksKeeps == ASSUME IInv, HookBreaks \/ HookBreaksThread PROVE IInv'
<1>1. /\ pending # <<>> /\ hooks' = Append(hooks, Last(pending)) /\ broken' = TRUE
      /\ \/ phase = "stopping" /\ phase' = "stopped" /\ pending' = pending
         \/ phase = "cleanup" /\ phase' = "aborted" /\ pending' = pending
         \/ phase = "cleanup" /\ phase' = "rollback" /\ pending' = started
      /\ UNCHANGED <<deps, visiting, order, started, undo, loaded, infos, registry>>
  BY DEF HookBreaks, HookBreaksThread, given
<1>2. /\ hooks' \in Seq(Extensions) /\ Len(hooks') <= Len(started) /\ Len(started) \in Nat
      /\ \A j \in 1..Len(hooks') : hooks'[j] = started'[Len(started') + 1 - j]
  BY <1>1, NextHook
<1> USE DEF IInv
<1>3. TypeOK'
  BY <1>1, <1>2 DEF TypeOK
<1>4. OrderInv' /\ StartInv'
  BY <1>1, OrderStays DEF StartInv
<1>5. HookInv'
  BY <1>1, <1>2 DEF HookInv
<1>6. RegistryInv'
  <2>1. Contributors' = Contributors
    BY <1>1 DEF Contributors
  <2> QED
    BY <1>1, <2>1, RegistryStays
<1> QED
  BY <1>3, <1>4, <1>5, <1>6

LEMMA HooksEndKeep == ASSUME IInv, Stopped \/ CleanedUp PROVE IInv'
<1> USE DEF IInv
<1>1. /\ pending = <<>>
      /\ \/ /\ phase = "stopping" /\ phase' = "stopped" /\ loaded' = <<>>
            /\ pending' = pending
         \/ /\ phase = "cleanup" /\ phase' = "rollback" /\ pending' = started
            /\ loaded' = loaded
      /\ UNCHANGED <<deps, visiting, order, started, undo, infos, registry, hooks, broken>>
  BY DEF Stopped, CleanedUp, given
<1>2. TypeOK'
  BY <1>1 DEF TypeOK
<1>3. OrderInv' /\ StartInv'
  BY <1>1, OrderStays DEF StartInv
<1>4. HookInv'
  <2>1. Len(pending) = 0 /\ Len(hooks) \in Nat /\ Len(started) \in Nat
    BY <1>1 DEF TypeOK
  <2>2. Len(hooks) = Len(started)
    BY <1>1, <2>1 DEF HookInv
  <2> QED
    BY <1>1, <2>1, <2>2 DEF HookInv
<1>5. RegistryInv'
  <2>1. Contributors' = Contributors
    BY <1>1 DEF Contributors
  <2> QED
    BY <1>1, <2>1, RegistryStays
<1> QED
  BY <1>2, <1>3, <1>4, <1>5

LEMMA RollbackKeeps == ASSUME IInv, Rollback PROVE IInv'
<1> USE DEF IInv
<1>1. /\ phase = "rollback" /\ pending # <<>> /\ pending' = Front(pending)
      /\ registry' = [n \in Names |->
                         IF n \in Range(undo[Last(pending)]) THEN {} ELSE registry[n]]
      /\ undo' = [undo EXCEPT ![Last(pending)] = <<>>]
      /\ UNCHANGED <<phase, deps, visiting, order, started, loaded, infos, hooks, broken>>
  BY DEF Rollback, given
<1>2. /\ Len(pending) \in Nat \ {0} /\ pending' \in Seq(Extensions)
      /\ Len(pending') = Len(pending) - 1
      /\ \A i \in 1..(Len(pending) - 1) : pending'[i] = pending[i]
      /\ Last(pending) = pending[Len(pending)] /\ Last(pending) \in Extensions
  <2>1. pending \in Seq(Extensions)
    BY DEF TypeOK
  <2> QED
    BY <1>1, <2>1, FrontAndLast
<1>3. PICK e \in Extensions : e = Last(pending)
  BY <1>2
<1>4. Len(pending) <= Len(started) /\ \A i \in 1..Len(pending) : pending[i] = started[i]
  BY <1>1 DEF HookInv
<1>5. Len(started) \in Nat /\ e = started[Len(pending)]
  <2>1. Len(started) \in Nat
    BY DEF TypeOK
  <2>2. Len(pending) \in 1..Len(pending)
    BY <1>2
  <2> QED
    BY <1>2, <1>3, <1>4, <2>1, <2>2
<1>6. TypeOK'
  <2>1. undo' \in [Extensions -> Seq(Names)]
    BY <1>1, <1>3 DEF TypeOK
  <2>2. registry' \in [Names -> SUBSET (Extensions \cup {Core})]
    BY <1>1 DEF TypeOK
  <2> QED
    BY <1>1, <1>2, <2>1, <2>2 DEF TypeOK
<1>7. OrderInv' /\ StartInv'
  BY <1>1, OrderStays DEF StartInv
<1>8. HookInv'
  <2>1. Len(pending') <= Len(started')
    BY <1>1, <1>2, <1>4, <1>5
  <2>2. \A i \in 1..Len(pending') : pending'[i] = started'[i]
    BY <1>1, <1>2, <1>4
  <2> QED
    BY <1>1, <2>1, <2>2 DEF HookInv
<1>9. RegistryInv'
  <2>1. \A n \in Names : n \in Range(undo[e]) <=> Notes(e, n)
    <3>1. undo[e] \in Seq(Names)
      BY DEF TypeOK
    <3>2. Range(undo[e]) = {undo[e][i] : i \in 1..Len(undo[e])}
      BY <3>1, RangeMembers
    <3> QED
      BY <3>2 DEF Notes
  <2>2. \A n \in Names : registry'[n] = IF Notes(e, n) THEN {} ELSE registry[n]
    BY <1>1, <1>3, <2>1
  <2>3. \A d \in Extensions : undo'[d] = IF d = e THEN <<>> ELSE undo[d]
    BY <1>1, <1>3 DEF TypeOK
  <2>4. \A d \in Extensions, n \in Names : Notes(d, n)' <=> d # e /\ Notes(d, n)
    BY <2>3 DEF Notes
  <2>5. Contributors = Len(pending) /\ Contributors' = Len(pending) - 1
    BY <1>1, <1>2 DEF Contributors
  <2>6. ASSUME NEW n \in Names
        PROVE  \/ registry'[n] = CoreRegistry[n]
               \/ n \notin CoreNames /\ \E k \in 1..Contributors' : Notes(started[k], n)'
    <3>1. CASE Notes(e, n)
      <4>1. n \notin CoreNames
        BY <3>1 DEF RegistryInv
      <4> QED
        BY <2>2, <3>1, <4>1 DEF CoreRegistry
    <3>2. CASE ~Notes(e, n) /\ registry[n] = CoreRegistry[n]
      BY <2>2, <3>2
    <3>3. ASSUME ~Notes(e, n), n \notin CoreNames, NEW k \in 1..Contributors,
                 Notes(started[k], n)
          PROVE  \E l \in 1..Contributors' : Notes(started[l], n)'
      <4>1. k # Len(pending)
        BY <1>5, <3>3
      <4>2. k \in 1..Contributors'
        BY <1>2, <2>5, <4>1
      <4>3. PICK d \in Extensions : d = started[k]
        <5>1. k \in 1..Len(started)
          BY <1>2, <1>4, <1>5, <2>5, <3>3
        <5>2. started \in Seq(Extensions)
          BY DEF TypeOK
        <5> QED
          BY <5>1, <5>2
      <4>4. Notes(d, n)'
        BY <2>4, <3>3, <4>3
      <4>5. started'[k] = d
        BY <1>1, <4>3
      <4>6. Notes(started[k], n)'
        BY <4>4, <4>5 DEF Notes
      <4> QED
        BY <4>2, <4>6
    <3> QED
      BY <3>1, <3>2, <3>3 DEF RegistryInv
  <2>7. \A d \in Extensions, n \in Names : Notes(d, n)' => n \notin CoreNames
    BY <2>4 DEF RegistryInv
  <2> QED
    BY <2>6, <2>7 DEF RegistryInv, CoreRegistry
<1> QED
  BY <1>6, <1>7, <1>8, <1>9

LEMMA RolledBackKeeps == ASSUME IInv, RolledBack PROVE IInv'
<1> USE DEF IInv
<1>1. /\ phase = "rollback" /\ pending = <<>> /\ phase' = "failed"
      /\ loaded' = <<>> /\ infos' = <<>>
      /\ UNCHANGED <<deps, visiting, order, started, undo, registry, pending, hooks>>
      /\ broken' = broken
  BY DEF RolledBack, given
<1>2. TypeOK'
  BY <1>1 DEF TypeOK
<1>3. OrderInv' /\ StartInv'
  BY <1>1, OrderStays DEF StartInv
<1>4. HookInv'
  BY <1>1 DEF HookInv
<1>5. RegistryInv'
  <2>1. Contributors' = Contributors
    BY <1>1 DEF Contributors
  <2> QED
    BY <1>1, <2>1, RegistryStays
<1> QED
  BY <1>2, <1>3, <1>4, <1>5

-----------------------------------------------------------------------------
(* The theorems                                                             *)

LEMMA InitIInv == LoadInit => IInv
<1> SUFFICES ASSUME LoadInit PROVE IInv
  OBVIOUS
<1> USE DEF LoadInit
<1>1. TypeOK
  <2>1. <<>> \in Seq(Extensions) /\ <<>> \in Seq(Names)
    OBVIOUS
  <2>2. registry \in [Names -> SUBSET (Extensions \cup {Core})]
    BY DEF CoreRegistry
  <2>3. undo \in [Extensions -> Seq(Names)]
    BY <2>1
  <2> QED
    BY <2>1, <2>2, <2>3 DEF TypeOK
<1>2. OrderInv
  BY DEF OrderInv
<1>3. StartInv
  BY DEF StartInv
<1>4. HookInv
  BY DEF HookInv
<1>5. RegistryInv
  <2>1. \A e \in Extensions, n \in Names : ~Notes(e, n)
    BY DEF Notes
  <2> QED
    BY <2>1 DEF RegistryInv
<1> QED
  BY <1>1, <1>2, <1>3, <1>4, <1>5 DEF IInv

LEMMA StutterKeeps == ASSUME IInv, UNCHANGED loadVars PROVE IInv'
<1> USE DEF IInv
<1>1. /\ UNCHANGED <<phase, deps, visiting, order, started, undo, loaded, infos, registry>>
      /\ UNCHANGED <<pending, hooks, broken>>
  BY DEF loadVars, given
<1>2. TypeOK'
  BY <1>1 DEF TypeOK
<1>3. OrderInv' /\ StartInv' /\ HookInv'
  BY <1>1, OrderStays DEF StartInv, HookInv
<1>4. RegistryInv'
  <2>1. Contributors' = Contributors
    BY <1>1 DEF Contributors
  <2> QED
    BY <1>1, <2>1, RegistryStays
<1> QED
  BY <1>2, <1>3, <1>4

\* Every step keeps the invariant.
LEMMA NextIInv == IInv /\ [LoadNext]_loadVars => IInv'
<1> SUFFICES ASSUME IInv, [LoadNext]_loadVars PROVE IInv'
  OBVIOUS
<1>1. CASE UNCHANGED loadVars
  BY <1>1, StutterKeeps
<1>2. CASE Refuse \/ Visited \/ Ordered \/ \E e \in Extensions : Visit(e)
  BY <1>2, OrderEndsKeep, VisitedKeeps, VisitKeeps
<1>3. CASE Register \/ Registered \/ LoadFails \/ LoadBreaks \/ \E n \in Names : Contribute(n)
  BY <1>3, RegisterKeeps, RegisteredKeeps, LoadFailsKeeps, LoadBreaksKeeps, ContributeKeeps
<1>4. CASE Validated \/ Shutdown \/ RunHook \/ HookBreaks \/ HookBreaksThread \/ Stopped
  BY <1>4, ServingKeeps, RunHookKeeps, HookBreaksKeeps, HooksEndKeep
<1>5. CASE CleanedUp \/ Rollback \/ RolledBack
  BY <1>5, HooksEndKeep, RollbackKeeps, RolledBackKeeps
<1> QED
  BY <1>1, <1>2, <1>3, <1>4, <1>5 DEF LoadNext

\* What the order, the extensions that started, their hooks and the registry
\* have in common throughout load and shutdown (loader.py, api.py).
THEOREM Invariance == LoadSpec => []IInv
  BY InitIInv, NextIInv, PTL DEF LoadSpec

\* A load that raises an ExtensionError has undone every contribution, however
\* many extensions it had started, also when a hook in the thread of the cleanup
\* ended it with a BaseException (load, _rollback_registration).
THEOREM FailuresLeaveNothing == LoadSpec => []FailedLoadLeavesNothing
<1>1. IInv => FailedLoadLeavesNothing
  <2> SUFFICES ASSUME IInv, phase = "failed"
               PROVE  registry = CoreRegistry /\ loaded = <<>> /\ infos = <<>>
    BY DEF FailedLoadLeavesNothing
  <2>1. loaded = <<>> /\ infos = <<>>
    BY DEF IInv, StartInv
  <2>2. \A n \in Names : registry[n] = CoreRegistry[n]
    BY DEF IInv, RegistryInv, Contributors
  <2>3. DOMAIN registry = Names /\ registry = [n \in Names |-> registry[n]]
    BY DEF IInv, TypeOK
  <2>4. registry = CoreRegistry
    BY <2>2, <2>3 DEF CoreRegistry
  <2> QED
    BY <2>1, <2>4
<1> QED
  BY <1>1, Invariance, PTL

\* An extension registers after all it depends on has (_topological_order).
THEOREM DependenciesAreFirst == LoadSpec => []DependenciesFirst
<1>1. IInv => DependenciesFirst
  <2> SUFFICES ASSUME IInv, phase = "registering", NEW d \in deps[Current]
               PROVE  d \in Range(loaded)
    BY DEF DependenciesFirst
  <2>1. /\ Len(started) \in Nat /\ Len(loaded) \in Nat /\ Len(order) \in Nat
        /\ Len(started) = Len(loaded) + 1 /\ Len(started) <= Len(order)
        /\ loaded \in Seq(Extensions)
    BY DEF IInv, TypeOK, StartInv
  <2>2. Current = order[Len(started)]
    BY <2>1 DEF IInv, StartInv, Current, Last
  <2>3. PICK j \in 1..(Len(started) - 1) : order[j] = d
    BY <2>1, <2>2 DEF IInv, OrderInv
  <2>4. j \in 1..Len(loaded) /\ j \in 1..Len(started)
    BY <2>1
  <2>5. loaded[j] = d
    BY <2>3, <2>4 DEF IInv, StartInv
  <2>6. Range(loaded) = {loaded[i] : i \in 1..Len(loaded)}
    BY <2>1, RangeMembers
  <2> QED
    BY <2>4, <2>5, <2>6
<1> QED
  BY <1>1, Invariance, PTL

\* Hooks run in reverse dependency order, each once, in a shutdown and in the
\* cleanup of a failed load (shutdown, _shutdown_after_failed_load).
THEOREM HooksFollowDependents == LoadSpec => []HooksAfterDependents
<1>1. IInv => HooksAfterDependents
  <2> SUFFICES ASSUME IInv PROVE HooksAfterDependents
    OBVIOUS
  <2> DEFINE N == Len(started)
  <2>1. /\ N \in Nat /\ Len(order) \in Nat /\ Len(hooks) \in Nat
        /\ hooks \in Seq(Extensions) /\ started \in Seq(Extensions)
    BY DEF IInv, TypeOK
  <2>2. /\ N <= Len(order) /\ Len(hooks) <= N
        /\ \A i \in 1..N : started[i] = order[i]
        /\ \A i \in 1..Len(hooks) : hooks[i] = started[N + 1 - i]
    BY DEF IInv, StartInv, HookInv
  <2>3. /\ \A i, j \in 1..Len(order) : order[i] = order[j] => i = j
        /\ \A i \in 1..Len(order) : \A d \in deps[order[i]] : \E j \in 1..(i-1) : order[j] = d
    BY DEF IInv, OrderInv
  <2> HIDE DEF N
  <2>4. \A i \in 1..Len(hooks) :
            N + 1 - i \in 1..N /\ N + 1 - i \in 1..Len(order) /\ hooks[i] = order[N + 1 - i]
    BY <2>1, <2>2
  <2>5. ASSUME NEW i \in 1..Len(hooks), NEW j \in 1..Len(hooks), hooks[i] = hooks[j]
        PROVE  i = j
    <3>1. order[N + 1 - i] = order[N + 1 - j]
      BY <2>4, <2>5
    <3>2. N + 1 - i = N + 1 - j
      BY <2>3, <2>4, <3>1
    <3>3. i \in Nat /\ j \in Nat
      BY <2>1
    <3> QED
      BY <2>1, <3>2, <3>3
  <2>6. ASSUME NEW i \in 1..Len(hooks), NEW e \in Range(started), hooks[i] \in deps[e]
        PROVE  e \in Range(SubSeq(hooks, 1, i - 1))
    <3>1. Range(started) = {started[k] : k \in 1..N}
      BY <2>1, RangeMembers DEF N
    <3>2. PICK k \in 1..N : started[k] = e
      BY <3>1
    <3>3. k \in 1..Len(order) /\ order[k] = e
      BY <2>1, <2>2, <3>2
    <3>4. PICK j \in 1..(k-1) : order[j] = hooks[i]
      BY <2>3, <2>6, <3>3
    <3>5. j \in 1..Len(order)
      BY <2>1, <3>3
    <3>6. j = N + 1 - i
      BY <2>3, <2>4, <3>4, <3>5
    <3>7. PICK m \in 1..(i-1) : m = N + 1 - k
      BY <2>1, <3>6
    <3>8. m \in 1..Len(hooks) /\ N + 1 - m = k
      BY <2>1, <3>7
    <3>9. hooks[m] = e
      BY <2>2, <3>2, <3>8
    <3>10. SubSeq(hooks, 1, i - 1)[m] = hooks[m] /\ SubSeq(hooks, 1, i - 1) \in Seq(Extensions)
           /\ m \in 1..Len(SubSeq(hooks, 1, i - 1))
      <4>1. i - 1 \in Int /\ 1 \in Int /\ i - 1 - 1 + 1 = i - 1 /\ 1 + m - 1 = m /\ 1 <= i - 1
        BY <3>7
      <4>2. \A l \in 1..(i - 1) : hooks[l] \in Extensions
        BY <2>1
      <4>3. /\ SubSeq(hooks, 1, i - 1) \in Seq(Extensions)
            /\ Len(SubSeq(hooks, 1, i - 1)) = IF 1 <= i - 1 THEN i - 1 - 1 + 1 ELSE 0
            /\ \A l \in 1..(i - 1 - 1 + 1) : SubSeq(hooks, 1, i - 1)[l] = hooks[1 + l - 1]
        BY <4>1, <4>2, SubSeqProperties
      <4> QED
        BY <3>7, <4>1, <4>3
    <3>11. Range(SubSeq(hooks, 1, i - 1)) =
               {SubSeq(hooks, 1, i - 1)[l] : l \in 1..Len(SubSeq(hooks, 1, i - 1))}
      BY <3>10, RangeMembers
    <3> QED
      BY <3>9, <3>10, <3>11
  <2> QED
    BY <2>5, <2>6 DEF HooksAfterDependents
<1> QED
  BY <1>1, Invariance, PTL

\* Every hook runs, whichever of the others raised an Exception; only after a
\* BaseException are hooks skipped (shutdown, _shutdown_after_failed_load).
THEOREM EveryHookIsRun == LoadSpec => []EveryHookRuns
<1>1. IInv => EveryHookRuns
  <2> SUFFICES ASSUME IInv, phase \in {"rollback", "failed", "stopped"}, ~broken
               PROVE  Range(hooks) = Range(started)
    BY DEF EveryHookRuns
  <2> DEFINE N == Len(started)
  <2>1. N \in Nat /\ hooks \in Seq(Extensions) /\ started \in Seq(Extensions)
    BY DEF IInv, TypeOK
  <2>2. Len(hooks) = N /\ \A i \in 1..Len(hooks) : hooks[i] = started[N + 1 - i]
    BY DEF IInv, HookInv
  <2>3. /\ Range(hooks) = {hooks[i] : i \in 1..Len(hooks)}
        /\ Range(started) = {started[i] : i \in 1..N}
    BY <2>1, RangeMembers
  <2> HIDE DEF N
  <2>4. ASSUME NEW i \in 1..N
        PROVE  hooks[i] \in Range(started) /\ started[i] \in Range(hooks)
    <3>1. PICK k \in 1..N : k = N + 1 - i
      BY <2>1
    <3>2. N + 1 - k = i
      BY <2>1, <3>1
    <3>3. hooks[i] = started[k] /\ hooks[k] = started[i]
      BY <2>2, <3>1, <3>2
    <3> QED
      BY <2>2, <2>3, <3>3
  <2>5. Range(hooks) \subseteq Range(started)
    BY <2>2, <2>3, <2>4
  <2>6. Range(started) \subseteq Range(hooks)
    BY <2>3, <2>4
  <2> QED
    BY <2>5, <2>6
<1> QED
  BY <1>1, Invariance, PTL
-----------------------------------------------------------------------------
(* Cycles                                                                   *)

\* The visit calls in progress are a path of dependencies; what has been ordered
\* is all that is enabled.
PathInv ==
    /\ enabled \subseteq Extensions /\ deps \in [enabled -> SUBSET Extensions]
    /\ \A i \in 1..Len(visiting) : visiting[i] \in enabled
    /\ \A i \in 1..(Len(visiting) - 1) : visiting[i + 1] \in deps[visiting[i]]
    /\ cyclic => HasCycle
    /\ phase \notin {"ordering", "failed"} \/ started # <<>> =>
           /\ Complete
           /\ \A e \in enabled : \E i \in 1..Len(order) : order[i] = e

\* Induction, for a set of numbers.
LEMMA NumbersFromZero ==
    ASSUME NEW S, 0 \in S, \A n \in Nat : n \in S => n + 1 \in S
    PROVE  Nat \subseteq S
<1> SUFFICES ASSUME Nat \ S # {} PROVE FALSE
  OBVIOUS
<1>1. IsWellFoundedOn(OpToRel(<, Nat), Nat)
  BY NatLessThanWellFounded
<1>2. PICK least \in Nat \ S : \A n \in Nat \ S : <<n, least>> \notin OpToRel(<, Nat)
  BY <1>1, WFMin
<1>3. \A n \in Nat : n < least => n \in S
  BY <1>2 DEF OpToRel
<1>4. least \in Nat /\ least \notin S /\ least # 0 /\ least - 1 \in Nat
  OBVIOUS
<1>5. least - 1 \in S
  BY <1>3, <1>4
<1> QED
  BY <1>4, <1>5

\* A set that holds the dependencies of its members and one extension of a path
\* holds all that follow.
LEMMA PathStaysIn ==
    ASSUME NEW path, NEW last \in Nat, NEW first \in 1..last, NEW set,
           \A i \in 1..(last - 1) : path[i + 1] \in deps[path[i]],
           \A d \in set : deps[d] \subseteq set, path[first] \in set
    PROVE  path[last] \in set
<1> DEFINE S == {n \in Nat : first + n <= last => path[first + n] \in set}
<1>1. 0 \in S
  OBVIOUS
<1>2. ASSUME NEW n \in Nat, n \in S PROVE n + 1 \in S
  <2> SUFFICES ASSUME first + (n + 1) <= last PROVE path[first + (n + 1)] \in set
    OBVIOUS
  <2>1. first + n \in 1..(last - 1) /\ first + (n + 1) = (first + n) + 1
    OBVIOUS
  <2>2. path[first + n] \in set
    BY <1>2, <2>1
  <2>3. path[(first + n) + 1] \in deps[path[first + n]]
    BY <2>1
  <2> QED
    BY <2>1, <2>2, <2>3
<1> HIDE DEF S
<1>3. Nat \subseteq S
  BY <1>1, <1>2, NumbersFromZero
<1>4. last - first \in Nat /\ first + (last - first) = last
  OBVIOUS
<1>5. last - first \in S
  BY <1>3, <1>4
<1> QED
  BY <1>4, <1>5 DEF S

\* The visit of an extension whose visit is in progress has found a cycle.
LEMMA PathIsCycle ==
    ASSUME IInv, PathInv, Complete, visiting # <<>>,
           NEW e \in deps[Last(visiting)], e \in Range(visiting)
    PROVE  HasCycle
<1>1. /\ Len(visiting) \in Nat \ {0} /\ Last(visiting) = visiting[Len(visiting)]
      /\ Range(visiting) = {visiting[i] : i \in 1..Len(visiting)}
  <2>1. visiting \in Seq(Extensions)
    BY DEF IInv, TypeOK
  <2>2. Len(visiting) \in Nat \ {0} /\ Last(visiting) = visiting[Len(visiting)]
    BY <2>1, FrontAndLast
  <2>3. Range(visiting) = {visiting[i] : i \in 1..Len(visiting)}
    BY <2>1, RangeMembers
  <2> QED
    BY <2>2, <2>3
<1>2. PICK m \in 1..Len(visiting) : visiting[m] = e
  BY <1>1
<1>3. e \in enabled
  BY <1>2 DEF PathInv
<1>4. ASSUME NEW set \in SUBSET enabled, deps[e] \subseteq set,
             \A d \in set : deps[d] \subseteq set
      PROVE  e \in set
  <2>1. CASE m = Len(visiting)
    BY <1>1, <1>2, <1>4, <2>1
  <2>2. CASE m # Len(visiting)
    <3>1. m \in 1..(Len(visiting) - 1) /\ m + 1 \in 1..Len(visiting)
      BY <1>1, <2>2
    <3>2. visiting[m + 1] \in set
      BY <1>2, <1>4, <3>1 DEF PathInv
    <3>3. visiting[Len(visiting)] \in set
      BY <1>1, <1>4, <3>1, <3>2, PathStaysIn DEF PathInv
    <3> QED
      BY <1>1, <1>4, <3>3
  <2> QED
    BY <2>1, <2>2
<1> QED
  BY <1>3, <1>4 DEF HasCycle

\* What has an order has no cycle.
LEMMA OrderedIsAcyclic ==
    ASSUME IInv, PathInv, Complete, \A e \in enabled : \E i \in 1..Len(order) : order[i] = e
    PROVE  ~HasCycle
<1> SUFFICES ASSUME NEW e \in enabled
             PROVE  \E set \in SUBSET enabled :
                      /\ deps[e] \subseteq set /\ \A d \in set : deps[d] \subseteq set
                      /\ e \notin set
  BY DEF HasCycle
<1>1. Len(order) \in Nat
  BY DEF IInv, TypeOK
<1>2. PICK i \in 1..Len(order) : order[i] = e
  OBVIOUS
<1> DEFINE set == {d \in enabled : \E j \in 1..(i - 1) : order[j] = d}
<1>3. deps[e] \subseteq set
  BY <1>2 DEF IInv, OrderInv, Complete
<1>4. ASSUME NEW d \in set PROVE deps[d] \subseteq set
  <2>1. PICK j \in 1..(i - 1) : order[j] = d
    OBVIOUS
  <2>2. j \in 1..Len(order) /\ \A k \in 1..(j - 1) : k \in 1..(i - 1)
    BY <1>1
  <2>3. d \in enabled
    BY <1>4
  <2>4. \A x \in deps[d] : \E k \in 1..(j - 1) : order[k] = x
    BY <2>1, <2>2 DEF IInv, OrderInv
  <2>5. \A x \in deps[d] : x \in enabled
    BY <2>3 DEF Complete
  <2> QED
    BY <2>2, <2>4, <2>5
<1>5. e \notin set
  <2>1. \A j \in 1..(i - 1) : j \in 1..Len(order) /\ j # i
    BY <1>1
  <2> QED
    BY <1>2, <2>1 DEF IInv, OrderInv
<1>6. set \in SUBSET enabled
  OBVIOUS
<1> HIDE DEF set
<1> QED
  BY <1>3, <1>4, <1>5, <1>6

\* Steps after the order leave the path alone.
LEMMA PathStays ==
    ASSUME PathInv, UNCHANGED <<given, visiting, order, cyclic>>,
           phase' = "failed" \/ phase \notin {"ordering", "failed"},
           started' = started \/ phase \notin {"ordering", "failed"}
    PROVE  PathInv'
  BY DEF PathInv, given, HasCycle, Complete

LEMMA VisitKeepsPath == ASSUME IInv, PathInv, NEW e \in Extensions, Visit(e) PROVE PathInv'
<1>1. /\ phase = "ordering" /\ Complete /\ started = <<>>
      /\ UNCHANGED <<enabled, deps, order, started>>
      /\ e \in IF visiting = <<>> THEN enabled ELSE deps[Last(visiting)]
  BY DEF Visit, given, Unvisited, IInv, StartInv
<1>2. CASE e \in Range(visiting)
  <2>1. phase' = "failed" /\ UNCHANGED visiting
    BY <1>2 DEF Visit
  <2>2. visiting # <<>>
    <3>1. visiting \in Seq(Extensions)
      BY DEF IInv, TypeOK
    <3>2. Range(visiting) = {visiting[i] : i \in 1..Len(visiting)}
      BY <3>1, RangeMembers
    <3> QED
      BY <1>2, <3>2
  <2>3. HasCycle
    BY <1>1, <1>2, <2>2, PathIsCycle
  <2> QED
    BY <1>1, <2>1, <2>3 DEF PathInv, HasCycle
<1>3. CASE e \notin Range(visiting)
  <2>1. visiting' = Append(visiting, e) /\ UNCHANGED <<phase, cyclic>>
    BY <1>3 DEF Visit
  <2>2. /\ Len(visiting) \in Nat /\ Len(visiting') = Len(visiting) + 1
        /\ \A i \in 1..Len(visiting) : visiting'[i] = visiting[i]
        /\ visiting'[Len(visiting) + 1] = e
    BY <2>1, AppendOne DEF IInv, TypeOK
  <2>3. visiting # <<>> => Last(visiting) = visiting[Len(visiting)] /\ Len(visiting) # 0
    BY FrontAndLast DEF IInv, TypeOK
  <2>4. e \in enabled
    BY <1>1, <2>2, <2>3 DEF PathInv, Complete
  <2>5. \A i \in 1..Len(visiting') : visiting'[i] \in enabled
    BY <2>2, <2>4 DEF PathInv
  <2>6. \A i \in 1..(Len(visiting') - 1) : visiting'[i + 1] \in deps[visiting'[i]]
    <3> TAKE i \in 1..(Len(visiting') - 1)
    <3>1. CASE i = Len(visiting)
      <4>1. visiting # <<>>
        BY <2>2, <3>1
      <4> QED
        BY <1>1, <2>2, <2>3, <3>1, <4>1
    <3>2. CASE i # Len(visiting)
      BY <2>2, <3>2 DEF PathInv
    <3> QED
      BY <3>1, <3>2
  <2> QED
    BY <1>1, <2>1, <2>5, <2>6 DEF PathInv, HasCycle
<1> QED
  BY <1>2, <1>3

\* A visit that returns has shortened the path.
LEMMA VisitedKeepsPath == ASSUME IInv, PathInv, Visited PROVE PathInv'
<1>1. /\ phase = "ordering" /\ started = <<>> /\ visiting # <<>> /\ visiting' = Front(visiting)
      /\ UNCHANGED <<phase, enabled, deps, started, cyclic>>
  BY DEF Visited, given, IInv, StartInv
<1>2. /\ Len(visiting) \in Nat \ {0} /\ Len(visiting') = Len(visiting) - 1
      /\ \A i \in 1..(Len(visiting) - 1) : visiting'[i] = visiting[i]
  BY <1>1, FrontAndLast DEF IInv, TypeOK
<1>3. \A i \in 1..Len(visiting') : visiting'[i] \in enabled
  BY <1>2 DEF PathInv
<1>4. \A i \in 1..(Len(visiting') - 1) : visiting'[i + 1] \in deps[visiting'[i]]
  BY <1>2 DEF PathInv
<1> QED
  BY <1>1, <1>3, <1>4 DEF PathInv, HasCycle

\* All that is enabled has been ordered.
LEMMA OrderedKeepsPath == ASSUME IInv, PathInv, Ordered PROVE PathInv'
<1>1. /\ Complete /\ enabled \subseteq Range(order)
      /\ UNCHANGED <<enabled, deps, visiting, order, cyclic>>
  BY DEF Ordered, Unvisited, given
<1>2. Range(order) = {order[i] : i \in 1..Len(order)}
  BY RangeMembers DEF IInv, TypeOK
<1> QED
  BY <1>1, <1>2 DEF PathInv, HasCycle, Complete

LEMMA NextPathInv == IInv /\ PathInv /\ [LoadNext]_loadVars => PathInv'
<1> SUFFICES ASSUME IInv, PathInv, [LoadNext]_loadVars PROVE PathInv'
  OBVIOUS
<1>1. CASE UNCHANGED loadVars
  BY <1>1 DEF loadVars, given, PathInv, HasCycle, Complete
<1>2. CASE Refuse
  BY <1>2, PathStays DEF Refuse
<1>3. CASE Register \/ Registered \/ LoadFails \/ LoadBreaks \/ Validated
           \/ \E n \in Names : Contribute(n)
  BY <1>3, PathStays DEF Register, Registered, LoadFails, LoadBreaks, Validated, Contribute
<1>4. CASE Shutdown \/ RunHook \/ HookBreaks \/ HookBreaksThread \/ Stopped
  BY <1>4, PathStays DEF Shutdown, RunHook, HookBreaks, HookBreaksThread, Stopped
<1>5. CASE CleanedUp \/ Rollback \/ RolledBack
  BY <1>5, PathStays DEF CleanedUp, Rollback, RolledBack
<1> QED
  BY <1>1, <1>2, <1>3, <1>4, <1>5, VisitKeepsPath, VisitedKeepsPath, OrderedKeepsPath DEF LoadNext

\* _topological_order raises for a cycle only when the dependencies of the
\* enabled extensions have one, and nothing is registered when they have.
THEOREM CyclesRefused == LoadSpec => []CyclesAreRefused
<1>1. LoadInit => PathInv
  BY DEF LoadInit, PathInv, HasCycle, Complete
<1>2. IInv /\ PathInv => CyclesAreRefused
  BY OrderedIsAcyclic DEF PathInv, CyclesAreRefused
<1> QED
  BY <1>1, <1>2, NextPathInv, Invariance, PTL DEF LoadSpec
=============================================================================
