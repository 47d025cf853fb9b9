--------------------------- MODULE ExtensionLoader ---------------------------
(***************************************************************************)
(* Loading and shutting down the extensions of one runtime:                 *)
(* ExtensionManager.load and shutdown (src/src/jlink_mcp/extensions/        *)
(* loader.py), the registrations of ExtensionContext and their rollback     *)
(* (extensions/api.py), and the lifespan of MCPRuntime (server.py).         *)
(*                                                                          *)
(* An extension chooses the order of its dependencies, its contributions    *)
(* and whether its hooks raise.  Tools, resources and profiles have one     *)
(* name space each, with names the core owns; services and detectors are    *)
(* prefixed with the extension's id.  All are names here.                   *)
(*                                                                          *)
(* What an extension raises is an Exception, which load and shutdown catch, *)
(* or another BaseException (a CancelledError of a task that a hook awaits, *)
(* SystemExit), which they do not.  A signal is not modelled.               *)
(***************************************************************************)
EXTENDS Naturals, Sequences, FiniteSets, SequencesExt

CONSTANTS Extensions,  \* extension ids
          Names,       \* names that extensions may contribute
          CoreNames,   \* those the core registered before load
          Core,        \* their owner
          MaxNames     \* bound: contributions of one extension

ASSUME CoreAssumption == Core \notin Extensions /\ CoreNames \subseteq Names
ASSUME ExtensionsAssumption == IsFiniteSet(Extensions) /\ MaxNames \in Nat

VARIABLES
    phase,     \* "ordering", "loading", "registering", "cleanup", "rollback",
               \* "failed", "aborted", "serving", "stopping", "stopped"
    enabled,   \* the allowlist
    deps,      \* deps[e]: declared dependencies of e
    visiting,  \* visit calls in progress in _topological_order
    order,     \* its result
    started,   \* extensions whose register was called, in order
    undo,      \* undo[e]: _rollback_actions of e's context
    loaded,    \* self._loaded
    infos,     \* registry.extension_infos
    registry,  \* registry[n]: set of owners that n has
    pending,   \* hooks that the shutdown or the cleanup has still to run
    hooks,     \* history: shutdown hooks run, in order
    broken,    \* history: a BaseException ended a hook or the load
    cyclic     \* history: load failed with a dependency cycle

given == <<enabled, deps>>
loadVars == <<phase, given, visiting, order, started, undo, loaded, infos, registry,
          pending, hooks, broken, cyclic>>

CoreRegistry == [n \in Names |-> IF n \in CoreNames THEN {Core} ELSE {}]

LoadInit ==
    /\ phase = "ordering"
    /\ enabled \in SUBSET Extensions \ {{}}   \* with none, load returns at once
    /\ deps \in [enabled -> SUBSET Extensions]
    /\ visiting = <<>> /\ order = <<>>
    /\ started = <<>> /\ loaded = <<>> /\ infos = <<>>
    /\ undo = [e \in Extensions |-> <<>>]
    /\ registry = CoreRegistry
    /\ pending = <<>> /\ hooks = <<>>
    /\ broken = FALSE /\ cyclic = FALSE

-----------------------------------------------------------------------------
(* _topological_order: every enabled extension is visited, in any order      *)

\* An import or contract error or a missing dependency before the order, and a
\* configuration file that is refused after it, end the load with nothing done.
Refuse ==
    /\ phase = "ordering" /\ visiting = <<>>
    /\ Range(order) \in {{}, enabled}
    /\ phase' = "failed"
    /\ UNCHANGED <<given, visiting, order, started, undo, loaded, infos, registry,
                   pending, hooks, broken, cyclic>>

Complete == \A e \in enabled : deps[e] \subseteq enabled

Unvisited(set) == set \ Range(order)

\* Mutant: a visit that meets a visit in progress returns, as for a visited one.
VisitAny(e) ==
    /\ phase = "ordering" /\ Complete
    /\ e \in Unvisited(IF visiting = <<>> THEN enabled ELSE deps[Last(visiting)])
    /\ IF e \in Range(visiting)
       THEN visiting' = Front(visiting) /\ order' = Append(order, Last(visiting))
       ELSE visiting' = Append(visiting, e) /\ UNCHANGED order
    /\ UNCHANGED <<phase, given, started, undo, loaded, infos, registry, pending,
                   hooks, broken, cyclic>>

\* visit(e) for the next enabled extension or the next dependency.
Visit(e) ==
    /\ phase = "ordering" /\ Complete
    /\ e \in Unvisited(IF visiting = <<>> THEN enabled ELSE deps[Last(visiting)])
    /\ IF e \in Range(visiting)
       THEN /\ phase' = "failed" /\ cyclic' = TRUE
            /\ UNCHANGED visiting
       ELSE /\ visiting' = Append(visiting, e)
            /\ UNCHANGED <<phase, cyclic>>
    /\ UNCHANGED <<given, order, started, undo, loaded, infos, registry, pending,
                   hooks, broken>>

\* Mutant: visit appends before it visits the dependencies.
VisitedAtOnce ==
    /\ phase = "ordering" /\ visiting # <<>>
    /\ visiting' = Front(visiting)
    /\ order' = Append(order, Last(visiting))
    /\ UNCHANGED <<phase, given, started, undo, loaded, infos, registry, pending,
                   hooks, broken, cyclic>>

\* visit returns: the dependencies have been visited.
Visited ==
    /\ phase = "ordering" /\ visiting # <<>>
    /\ Unvisited(deps[Last(visiting)]) = {}
    /\ visiting' = Front(visiting)
    /\ order' = Append(order, Last(visiting))
    /\ UNCHANGED <<phase, given, started, undo, loaded, infos, registry, pending,
                   hooks, broken, cyclic>>

Ordered ==
    /\ phase = "ordering" /\ Complete
    /\ visiting = <<>> /\ Unvisited(enabled) = {}
    /\ phase' = "loading"
    /\ UNCHANGED <<given, visiting, order, started, undo, loaded, infos, registry,
                   pending, hooks, broken, cyclic>>

-----------------------------------------------------------------------------
(* Registration                                                             *)

Current == Last(started)

\* The next extension has a valid configuration; its context is created and
\* it counts as started before register runs.
Register ==
    /\ phase = "loading" /\ Len(loaded) < Len(order)
    /\ phase' = "registering"
    /\ started' = Append(started, order[Len(loaded) + 1])
    /\ UNCHANGED <<given, visiting, order, undo, loaded, infos, registry, pending,
                   hooks, broken, cyclic>>

\* register_tool, register_resource, register_target_profile, publish_service:
\* a free name is taken and its removal noted.
Contribute(n) ==
    /\ phase = "registering"
    /\ Len(undo[Current]) < MaxNames
    /\ registry[n] = {}
    /\ registry' = [registry EXCEPT ![n] = @ \cup {Current}]
    /\ undo' = [undo EXCEPT ![Current] = Append(@, n)]
    /\ UNCHANGED <<phase, given, visiting, order, started, loaded, infos, pending,
                   hooks, broken, cyclic>>

Registered ==
    /\ phase = "registering"
    /\ phase' = "loading"
    /\ loaded' = Append(loaded, Current)
    /\ infos' = Append(infos, Current)
    /\ UNCHANGED <<given, visiting, order, started, undo, registry, pending, hooks,
                   broken, cyclic>>

\* Mutant: only the extensions whose register returned are cleaned up.
LoadFailsForLoaded ==
    /\ phase \in {"loading", "registering"}
    /\ phase' = "cleanup"
    /\ pending' = loaded
    /\ UNCHANGED <<given, visiting, order, started, undo, loaded, infos, registry,
                   hooks, broken, cyclic>>

\* An invalid configuration, a register that raises (a name that is taken, a
\* service that is not there, a fault of its own), or a validation that fails:
\* the cleanup will run the hooks of what has started.
LoadFails ==
    /\ phase \in {"loading", "registering"}
    /\ phase' = "cleanup"
    /\ pending' = started
    /\ UNCHANGED <<given, visiting, order, started, undo, loaded, infos, registry,
                   hooks, broken, cyclic>>

\* Configuration, register or validation ends with a BaseException: no clause of
\* load catches it.
LoadBreaks ==
    /\ phase \in {"loading", "registering"}
    /\ phase' = "aborted"
    /\ broken' = TRUE
    /\ UNCHANGED <<given, visiting, order, started, undo, loaded, infos, registry,
                   pending, hooks, cyclic>>

\* The doctor has accepted the contributions.
Validated ==
    /\ phase = "loading" /\ Len(loaded) = Len(order)
    /\ phase' = "serving"
    /\ UNCHANGED <<given, visiting, order, started, undo, loaded, infos, registry,
                   pending, hooks, broken, cyclic>>

-----------------------------------------------------------------------------
(* Rollback and shutdown                                                    *)

\* The lifespan ends: shutdown() goes through the loaded extensions.
Shutdown ==
    /\ phase = "serving"
    /\ phase' = "stopping"
    /\ pending' = loaded
    /\ UNCHANGED <<given, visiting, order, started, undo, loaded, infos, registry,
                   hooks, broken, cyclic>>

\* Mutant: hooks are called in the order of registration.
RunHookForward ==
    /\ phase \in {"cleanup", "stopping"} /\ pending # <<>>
    /\ hooks' = Append(hooks, Head(pending))
    /\ pending' = Tail(pending)
    /\ UNCHANGED <<phase, given, visiting, order, started, undo, loaded, infos,
                   registry, broken, cyclic>>

\* A hook is called, from the last to the first; an Exception it raises is
\* collected.
RunHook ==
    /\ phase \in {"cleanup", "stopping"} /\ pending # <<>>
    /\ hooks' = Append(hooks, Last(pending))
    /\ pending' = Front(pending)
    /\ UNCHANGED <<phase, given, visiting, order, started, undo, loaded, infos,
                   registry, broken, cyclic>>

\* A hook ends with a BaseException: it leaves the loop over the hooks.  From
\* shutdown() it goes on to the caller, as it does from the asyncio.run of the
\* cleanup, and then the rollback and the clearing of load are skipped as well.
HookBreaks ==
    /\ phase \in {"cleanup", "stopping"} /\ pending # <<>>
    /\ hooks' = Append(hooks, Last(pending))
    /\ broken' = TRUE
    /\ phase' = IF phase = "cleanup" THEN "aborted" ELSE "stopped"
    /\ UNCHANGED <<given, visiting, order, started, undo, loaded, infos, registry,
                   pending, cyclic>>

\* When an event loop is running, the cleanup runs the hooks in a thread, which
\* catches the BaseException: the other hooks are skipped, the rollback is not.
HookBreaksThread ==
    /\ phase = "cleanup" /\ pending # <<>>
    /\ hooks' = Append(hooks, Last(pending))
    /\ broken' = TRUE
    /\ phase' = "rollback"
    /\ pending' = started
    /\ UNCHANGED <<given, visiting, order, started, undo, loaded, infos, registry,
                   cyclic>>

Stopped ==
    /\ phase = "stopping" /\ pending = <<>>
    /\ phase' = "stopped"
    /\ loaded' = <<>>
    /\ UNCHANGED <<given, visiting, order, started, undo, infos, registry, pending,
                   hooks, broken, cyclic>>

CleanedUp ==
    /\ phase = "cleanup" /\ pending = <<>>
    /\ phase' = "rollback"
    /\ pending' = started
    /\ UNCHANGED <<given, visiting, order, started, undo, loaded, infos, registry,
                   hooks, broken, cyclic>>

\* Mutant: the rollback ends with the last context that registered.
RollbackOnce ==
    /\ phase = "rollback" /\ pending # <<>>
    /\ LET e == Last(pending)
       IN /\ registry' = [n \in Names |-> IF n \in Range(undo[e]) THEN {} ELSE registry[n]]
          /\ undo' = [undo EXCEPT ![e] = <<>>]
    /\ pending' = <<>>
    /\ UNCHANGED <<phase, given, visiting, order, started, loaded, infos, hooks,
                   broken, cyclic>>

\* _rollback_registration of a context: the names it noted are removed.
Rollback ==
    /\ phase = "rollback" /\ pending # <<>>
    /\ LET e == Last(pending)
       IN /\ registry' = [n \in Names |-> IF n \in Range(undo[e]) THEN {} ELSE registry[n]]
          /\ undo' = [undo EXCEPT ![e] = <<>>]
    /\ pending' = Front(pending)
    /\ UNCHANGED <<phase, given, visiting, order, started, loaded, infos, hooks,
                   broken, cyclic>>

RolledBack ==
    /\ phase = "rollback" /\ pending = <<>>
    /\ phase' = "failed"
    /\ loaded' = <<>> /\ infos' = <<>>
    /\ UNCHANGED <<given, visiting, order, started, undo, registry, pending, hooks,
                   broken, cyclic>>

LoadNext ==
    \/ Refuse \/ Visited \/ Ordered \/ Register \/ Registered \/ Validated
    \/ LoadFails \/ LoadBreaks \/ Shutdown \/ RunHook \/ HookBreaks \/ HookBreaksThread
    \/ Stopped \/ CleanedUp \/ Rollback \/ RolledBack
    \/ \E e \in Extensions : Visit(e)
    \/ \E n \in Names : Contribute(n)

LoadSpec == LoadInit /\ [][LoadNext]_loadVars

-----------------------------------------------------------------------------
(* Properties                                                               *)

\* The except branch of load: a load that ends with an ExtensionError, at
\* whichever extension and however its hooks behave, leaves the registry as the
\* core set it up and no extension loaded, also when a hook in the thread broke
\* off the cleanup.  ("aborted" is the other end, which cleans up nothing.)
FailedLoadLeavesNothing ==
    phase = "failed" => registry = CoreRegistry /\ loaded = <<>> /\ infos = <<>>

\* register of an extension runs after register of all its dependencies
\* returned, whatever order they are enabled and declared in.
DependenciesFirst ==
    phase = "registering" => deps[Current] \subseteq Range(loaded)

\* Some extension depends on itself, directly or through others: it is in every
\* set that holds its dependencies and those of the set's own members.
HasCycle ==
    \E e \in enabled : \A set \in SUBSET enabled :
        deps[e] \subseteq set /\ (\A d \in set : deps[d] \subseteq set) => e \in set

\* The load is refused for a cycle only when there is one, and no extension
\* starts when there is: the path of visit calls is the cycle.
CyclesAreRefused ==
    /\ cyclic => HasCycle
    /\ started # <<>> => ~HasCycle

\* "Shutdown runs in reverse dependency order" (docs/architecture.md): in a
\* shutdown and in the cleanup of a failed load, the hook of an extension runs
\* once, and after those of the started extensions that depend on it.
HooksAfterDependents ==
    /\ \A i, j \in 1..Len(hooks) : hooks[i] = hooks[j] => i = j
    /\ \A i \in 1..Len(hooks), e \in Range(started) :
           hooks[i] \in deps[e] => e \in Range(SubSeq(hooks, 1, i - 1))

\* The loops over the hooks of shutdown and _shutdown_after_failed_load: the
\* hooks of all started extensions have run when the load has failed or the
\* runtime has stopped, whichever of them raised an Exception.  The hooks that a
\* BaseException skips are those that EveryHookIsReached shows.
EveryHookRuns ==
    phase \in {"rollback", "failed", "stopped"} /\ ~broken =>
        Range(hooks) = Range(started)

\* "run every shutdown hook", "run every rollback hook" (loader.py:151, 164):
\* once one hook has run, those of all started extensions run.  It fails for a
\* hook that ends with a BaseException.
EveryHookIsReached ==
    phase \in {"failed", "aborted", "stopped"} /\ hooks # <<>> =>
        Range(hooks) = Range(started)
=============================================================================
