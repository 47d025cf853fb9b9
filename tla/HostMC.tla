-------------------------------- MODULE HostMC --------------------------------
(* Small instances of the host's components and of the workflows of its        *)
(* extensions for TLC.  They share no variable; a behaviour is one of a        *)
(* component, which `part` names, so that one run explores the sum of their    *)
(* state spaces.                                                               *)
EXTENDS TargetSelection, ExtensionLoader, CoreWorkflows, FlashWorkflows, TLC

CONSTANTS b1, b2, giga, other
VARIABLE part

MCProfileOf == b1 :> giga @@ b2 :> giga

\* Sessions and two servers at once are explored with no probe attached (their
\* records are those of recoveries), two boards at once before the first record,
\* and selections until there are two: a selection reads the USB and the records
\* of its store, never another process or a session.
Scope ==
    /\ (shared \/ opened # {} \/ Len(rows) = 2) => probes = {} /\ boards = {}
    /\ rows # <<>> => Cardinality(boards) <= 1

Symmetry == Permutations(Processes) \cup Permutations(Probes) \cup Permutations(Boards)
            \cup Permutations(Callers)

HostInit ==
    /\ part \in {"selection", "loader", "core", "flash"}
    /\ SelectionInit /\ CoreInit /\ Init
    /\ IF part = "loader" THEN LoadInit
       ELSE LoadInit /\ enabled = Extensions /\ deps = [e \in Extensions |-> {}]
    /\ part # "core" => region = source /\ source = CHOOSE image \in Images : TRUE

HostNext ==
    /\ UNCHANGED part
    /\ \/ /\ part = "selection" /\ SelectionNext
          /\ UNCHANGED <<loadVars, coreVars, vars>>
       \/ /\ part = "loader" /\ LoadNext
          /\ UNCHANGED <<selectionVars, coreVars, vars>>
       \/ /\ part = "core" /\ CoreNext
          /\ UNCHANGED <<selectionVars, loadVars, vars>>
       \/ /\ part = "flash" /\ Next
          /\ UNCHANGED <<selectionVars, loadVars, coreVars>>

HostSpec == HostInit /\ [][HostNext]_<<part, selectionVars, loadVars, coreVars, vars>>
=============================================================================
