--------------------------- MODULE ExclusiveGrant ---------------------------
(***************************************************************************)
(* What ProbeLeaseManager promises its callers, with nothing of how it      *)
(* keeps the promise: a probe is held under at most one lease id, an id is  *)
(* granted once, to one probe, and an id that was dropped never holds a     *)
(* probe again.  "Exclusive per-probe leases" and "stale releases are       *)
(* harmless" (src/src/jlink_mcp/leases.py) are these two actions.           *)
(***************************************************************************)
CONSTANTS Probes,    \* the probe serials
          LeaseIds,  \* the lease ids uuid4 may draw
          None       \* no lease

VARIABLES holder,  \* holder[p]: the id probe p is held under, or None
          spent    \* the ids granted earlier and dropped since

vars == <<holder, spent>>

Held == {holder[p] : p \in Probes} \ {None}

Init == /\ holder = [p \in Probes |-> None]
        /\ spent = {}

\* A free probe is held under an id that was never used.
Grant(p, id) == /\ holder[p] = None
                /\ id \notin spent \cup Held
                /\ holder' = [holder EXCEPT ![p] = id]
                /\ UNCHANGED spent

\* The probe's own id gives it back, for good.
Drop(p) == /\ holder[p] # None
           /\ holder' = [holder EXCEPT ![p] = None]
           /\ spent' = spent \cup {holder[p]}

Next == \E p \in Probes : \/ \E id \in LeaseIds : Grant(p, id)
                          \/ Drop(p)

Spec == Init /\ [][Next]_vars
=============================================================================
