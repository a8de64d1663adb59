---------------------------- MODULE RegistryLock ----------------------------
(***************************************************************************)
(* d.lock of RemoteOutputServiceDirectory against the collaborator calls   *)
(* its handlers make                                                       *)
(* (src/pkg/filesystem/virtual/remote_output_service_directory.go).        *)
(*                                                                         *)
(* Only the control of each gRPC and FUSE handler is kept: where it takes  *)
(* and releases d.lock and which collaborator calls it makes in between.   *)
(* The registry's data is abstracted to the branches it selects (found or  *)
(* not, a known build ID or not, the number of output paths listed).  A    *)
(* critical section that calls nothing outside the registry is one step    *)
(* that needs the lock free; the three that call a collaborator while      *)
(* holding it (StartInitialBuild(), the output path's FinalizeBuild() and  *)
(* VirtualGetAttributes() in VirtualReadDir()) hold the lock across the    *)
(* call.  A collaborator call in CallsBack raises a callback that takes    *)
(* d.lock before the call returns (the NotifyRemoval() calls Clean()'s     *)
(* comment warns about): it returns only once the lock is free.            *)
(***************************************************************************)
EXTENDS Integers

CONSTANTS
    Clients,     \* goroutines running gRPC and FUSE handlers
    Free,        \* d.lock is not held
    CallsBack,   \* the collaborator calls whose callbacks take d.lock
    MaxEntries   \* output paths VirtualReadDir() may list

\* The collaborator calls the handlers make.
Calls == {"RemoveAllChildren", "NotifyRemoval", "FactoryClean",
          "StartInitialBuild", "FilterChildren", "FinalizeBuild",
          "CreateChildren", "LookupChild", "GetOutputServiceFileStatus",
          "VirtualGetAttributes", "HandleGetAttributes"}

ASSUME CallsBack \subseteq Calls /\ MaxEntries \in Nat \ {0} /\ Free \notin Clients

\* The handlers, each the name of its first step.
Handlers == {"Clean", "StartBuild", "FinalizeBuild", "BatchCreate", "BatchStat",
             "VirtualGetAttributes", "VirtualLookup", "VirtualOpenChild",
             "VirtualReadDir"}

VARIABLES
    owner,  \* the goroutine holding d.lock, or Free
    pc,     \* client -> "idle", a handler's first step, or a step inside it
    left    \* client -> output paths VirtualReadDir() has still to report

vars == <<owner, pc, left>>

Init ==
    /\ owner = Free
    /\ pc = [t \in Clients |-> "idle"]
    /\ left = [t \in Clients |-> 0]

\* A set of collaborator calls returns: none of them calls back, or d.lock
\* is free for the callbacks to take and release.
Returns(calls) == calls \cap CallsBack = {} \/ owner = Free

Goto(t, to) == pc' = [pc EXCEPT ![t] = to]

\* A critical section that calls nothing outside the registry.
Locked(t, from, to) ==
    /\ pc[t] = from
    /\ owner = Free
    /\ Goto(t, to)
    /\ UNCHANGED <<owner, left>>

\* Collaborator calls made without holding d.lock.
Call(t, from, calls, to) ==
    /\ pc[t] = from
    /\ Returns(calls)
    /\ Goto(t, to)
    /\ UNCHANGED <<owner, left>>

\* A client issues a call; nothing obliges it to.
Begin(t, h) ==
    /\ pc[t] = "idle"
    /\ Goto(t, h)
    /\ UNCHANGED <<owner, left>>

-----------------------------------------------------------------------------
(* Clean()                                                                 *)

\* Faulty variant of CleanLookup: the lock is kept across RemoveAllChildren(),
\* as the comment above that call says it must not be.
CleanLookupHolding(t) ==
    /\ pc[t] = "Clean"
    /\ owner = Free
    /\ \/ /\ Goto(t, "removeAllChildren")
          /\ owner' = t
       \/ /\ Goto(t, "factoryClean")
          /\ UNCHANGED owner
    /\ UNCHANGED left

\* The lookup of the output base; found or not.
CleanLookup(t) ==
    \/ Locked(t, "Clean", "removeAllChildren")
    \/ Locked(t, "Clean", "factoryClean")

\* RemoveAllChildren(true); on an error Clean() returns.
CleanRemoveAllChildren(t) ==
    \/ Call(t, "removeAllChildren", {"RemoveAllChildren"}, "cleanCommit")
    \/ Call(t, "removeAllChildren", {"RemoveAllChildren"}, "idle")

CleanCommit(t) == Locked(t, "cleanCommit", "notifyRemoval")

\* d.handle.NotifyRemoval(), after d.lock is released.
CleanNotifyRemoval(t) == Call(t, "notifyRemoval", {"NotifyRemoval"}, "idle")

CleanFactory(t) == Call(t, "factoryClean", {"FactoryClean"}, "idle")

-----------------------------------------------------------------------------
(* StartBuild()                                                            *)

\* The critical section.  Creating an output path calls
\* outputPathFactory.StartInitialBuild() with d.lock held; reusing one, or
\* a build ID already running, does not.
StartBuildLocked(t) ==
    /\ pc[t] = "StartBuild"
    /\ owner = Free
    /\ \/ /\ owner' = t
          /\ Goto(t, "startInitialBuild")
       \/ /\ Goto(t, "filter")
          /\ UNCHANGED owner
    /\ UNCHANGED left

StartInitialBuild(t) ==
    /\ pc[t] = "startInitialBuild"
    /\ Returns({"StartInitialBuild"})
    /\ owner' = Free
    /\ Goto(t, "filter")
    /\ UNCHANGED left

\* filterMissingChildren(): FilterChildren() and the removals it makes.
StartBuildFilter(t) == Call(t, "filter", {"FilterChildren"}, "idle")

-----------------------------------------------------------------------------
(* FinalizeBuild(): d.lock is held, by defer, across the output path's     *)
(* FinalizeBuild(); an unknown build ID is ignored.                        *)

FinalizeBuildLocked(t) ==
    /\ pc[t] = "FinalizeBuild"
    /\ owner = Free
    /\ \/ /\ owner' = t
          /\ Goto(t, "finalizeTree")
       \/ /\ Goto(t, "idle")
          /\ UNCHANGED owner
    /\ UNCHANGED left

FinalizeTree(t) ==
    /\ pc[t] = "finalizeTree"
    /\ Returns({"FinalizeBuild"})
    /\ owner' = Free
    /\ Goto(t, "idle")
    /\ UNCHANGED left

-----------------------------------------------------------------------------
(* BatchCreate() and BatchStat(): getOutputPathAndBuildState(), then the   *)
(* walkers on the tree without d.lock; FailedPrecondition returns.         *)

GetOutputPathAndBuildState(t, h, work) ==
    \/ Locked(t, h, work)
    \/ Locked(t, h, "idle")

BatchCreateTree(t) == Call(t, "create", {"RemoveAllChildren", "CreateChildren"}, "idle")

BatchStatTree(t) ==
    Call(t, "stat", {"LookupChild", "GetOutputServiceFileStatus", "VirtualGetAttributes"}, "idle")

-----------------------------------------------------------------------------
(* The FUSE side.                                                          *)

\* VirtualGetAttributes() takes d.lock only when the change ID or the link
\* count is requested; d.handle.GetAttributes() follows without it.
GetAttributesLocked(t) ==
    \/ Locked(t, "VirtualGetAttributes", "handleAttributes")
    \/ /\ pc[t] = "VirtualGetAttributes"
       /\ Goto(t, "handleAttributes")
       /\ UNCHANGED <<owner, left>>

HandleGetAttributes(t) == Call(t, "handleAttributes", {"HandleGetAttributes"}, "idle")

\* VirtualLookup(): the map under d.lock, then the root directory's
\* attributes without it; ENOENT returns.
LookupLocked(t) ==
    \/ Locked(t, "VirtualLookup", "lookupAttributes")
    \/ Locked(t, "VirtualLookup", "idle")

LookupAttributes(t) == Call(t, "lookupAttributes", {"VirtualGetAttributes"}, "idle")

\* VirtualOpenChild(): the map under d.lock; it always fails.
OpenChild(t) == Locked(t, "VirtualOpenChild", "idle")

\* VirtualReadDir(): under d.lock for the whole call, skip to firstCookie,
\* then for each output path call its root's VirtualGetAttributes() and
\* report it, until the list ends or the reporter is full.
ReadDirLocked(t) ==
    /\ pc[t] = "VirtualReadDir"
    /\ owner = Free
    /\ \E n \in 0 .. MaxEntries :
          IF n = 0
            THEN Goto(t, "idle") /\ UNCHANGED <<owner, left>>
            ELSE /\ owner' = t
                 /\ left' = [left EXCEPT ![t] = n]
                 /\ Goto(t, "readDirEntries")

ReadDirEntry(t) ==
    /\ pc[t] = "readDirEntries"
    /\ Returns({"VirtualGetAttributes"})
    /\ \/ /\ left[t] > 1
          /\ left' = [left EXCEPT ![t] = left[t] - 1]
          /\ UNCHANGED <<owner, pc>>
       \/ /\ owner' = Free
          /\ left' = [left EXCEPT ![t] = 0]
          /\ Goto(t, "idle")

-----------------------------------------------------------------------------
\* The steps of a handler that is running.
Running(t) ==
    \/ CleanLookup(t) \/ CleanRemoveAllChildren(t) \/ CleanCommit(t)
    \/ CleanNotifyRemoval(t) \/ CleanFactory(t)
    \/ StartBuildLocked(t) \/ StartInitialBuild(t) \/ StartBuildFilter(t)
    \/ FinalizeBuildLocked(t) \/ FinalizeTree(t)
    \/ GetOutputPathAndBuildState(t, "BatchCreate", "create") \/ BatchCreateTree(t)
    \/ GetOutputPathAndBuildState(t, "BatchStat", "stat") \/ BatchStatTree(t)
    \/ GetAttributesLocked(t) \/ HandleGetAttributes(t)
    \/ LookupLocked(t) \/ LookupAttributes(t) \/ OpenChild(t)
    \/ ReadDirLocked(t) \/ ReadDirEntry(t)

Next == \E t \in Clients : (\E h \in Handlers : Begin(t, h)) \/ Running(t)

Spec == Init /\ [][Next]_vars

\* A running goroutine keeps being scheduled, and one waiting for d.lock, or
\* for a callback waiting for it, gets it once it is free infinitely often:
\* sync.Mutex hands the lock to a waiter that has waited over a millisecond.
\* Clients need not call.
LiveSpec == Spec /\ \A t \in Clients : SF_vars(Running(t))

-----------------------------------------------------------------------------
\* Every handler that has been called returns: no goroutine waits forever
\* for d.lock, whether the holder is another handler blocked in a
\* collaborator call or itself, waiting for a callback that needs the lock.
HandlersReturn == \A t \in Clients : pc[t] # "idle" ~> pc[t] = "idle"
==============================================================================
