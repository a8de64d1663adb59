------------------------- MODULE MissingBlobFilter -------------------------
(***************************************************************************)
(* filterMissingChildren() and findMissingAndRemove() of                   *)
(* RemoteOutputServiceDirectory                                            *)
(* (src/pkg/filesystem/virtual/remote_output_service_directory.go), run by *)
(* StartBuild() on the output path before the build may use it.           *)
(*                                                                         *)
(* The output path's children, in the order FilterChildren() offers them, *)
(* are the input: each is a leaf with the digests it contains, or a        *)
(* directory whose GetContainingDigests() succeeds, reports NotFound or    *)
(* fails otherwise.  The Content Addressable Storage holds the digests in  *)
(* present.  A ChildRemover is the index of its child; removing a child    *)
(* twice removes it once.                                                  *)
(***************************************************************************)
EXTENDS Integers, Sequences, FiniteSets, TLC

CONSTANTS
    Digests,        \* blob digests
    Foreign,        \* digests of another instance name or digest function
    BatchLimit,     \* blobstore.RecommendedFindMissingDigestsCount
    MaxChildren     \* children of the output path, at most

ASSUME Foreign \subseteq Digests /\ BatchLimit \in Nat \ {0} /\ MaxChildren \in Nat

Node ==
    [kind : {"leaf"}, digests : {D \in SUBSET Digests : Cardinality(D) <= 1},
     lookup : {"ok"}]
    \cup [kind : {"dir"}, digests : SUBSET Digests, lookup : {"ok"}]
    \cup [kind : {"dir"}, digests : {{}}, lookup : {"notFound", "error"}]

Children == UNION {[1 .. n -> Node] : n \in 0 .. MaxChildren}

VARIABLES
    children,   \* the output path's children, as FilterChildren() visits them
    present,    \* digests the Content Addressable Storage holds
    i,          \* the next child FilterChildren() offers
    cur,        \* the child whose digests are being queued
    pending,    \* its digests not queued yet
    queue,      \* digest -> children whose ChildRemover it gates
    removed,    \* children removed so far
    calls,      \* digest sets passed to FindMissing(), in order
    outcome     \* "running", "ok" or "error"

vars == <<children, present, i, cur, pending, queue, removed, calls, outcome>>

TypeOK ==
    /\ children \in Children
    /\ present \subseteq Digests
    /\ i \in 1 .. MaxChildren + 1
    /\ cur \in 0 .. MaxChildren
    /\ pending \subseteq Digests
    /\ DOMAIN queue \subseteq Digests
    /\ \A d \in DOMAIN queue : queue[d] \subseteq 1 .. Len(children)
    /\ removed \subseteq 1 .. Len(children)
    /\ calls \in Seq(SUBSET Digests)
    /\ outcome \in {"running", "ok", "error"}

\* Any tree the output path can hold, any contents of the storage.
Init ==
    /\ children \in Children
    /\ present \in SUBSET Digests
    /\ i = 1
    /\ cur = 0
    /\ pending = {}
    /\ queue = <<>>
    /\ removed = {}
    /\ calls = <<>>
    /\ outcome = "running"

\* findMissingAndRemove(): one FindMissing() call on the queued digests,
\* then every ChildRemover queued under a digest reported missing.  A
\* failing call ends filterMissingChildren() with an error; otherwise the
\* outcome becomes after.
FindMissingAndRemove(after) ==
    /\ calls' = Append(calls, DOMAIN queue)
    /\ \/ /\ removed' = removed \cup UNION {queue[d] : d \in DOMAIN queue \ present}
          /\ outcome' = after
       \/ /\ outcome' = "error"
          /\ UNCHANGED removed

\* Faulty variant of ChildRemover: the closure captured the loop's next
\* child instead of child k.
ChildRemoverNext(k) == k + 1

\* The ChildRemover FilterChildren() hands the callback for child k.
ChildRemover(k) == k

\* The FilterChildren() callback for child i, up to queueing its digests.
VisitChild ==
    LET n == children[i] IN
    /\ outcome = "running"
    /\ pending = {}
    /\ i <= Len(children)
    /\ i' = i + 1
    /\ \/ /\ n.lookup = "notFound"
          /\ removed' = removed \cup {ChildRemover(i)}
          /\ UNCHANGED <<cur, pending, outcome>>
       \/ /\ n.lookup = "error"
          /\ outcome' = "error"
          /\ UNCHANGED <<cur, pending, removed>>
       \/ /\ n.lookup = "ok"
          /\ n.digests \cap Foreign # {}
          /\ removed' = removed \cup {ChildRemover(i)}
          /\ UNCHANGED <<cur, pending, outcome>>
       \/ /\ n.lookup = "ok"
          /\ n.digests \cap Foreign = {}
          /\ cur' = i
          /\ pending' = n.digests
          /\ UNCHANGED <<removed, outcome>>
    /\ UNCHANGED <<children, present, queue, calls>>

\* The batch is full: it is sent before another digest is queued.
Flushes(q) == Cardinality(DOMAIN q) >= BatchLimit

\* Queue a digest of the current child under its ChildRemover, sending the
\* batch first when it is full.  digests.Items() order is any order.
QueueDigest ==
    /\ outcome = "running"
    /\ \E d \in pending :
         /\ pending' = pending \ {d}
         /\ \/ /\ ~Flushes(queue)
               /\ queue' = [x \in DOMAIN queue \cup {d} |->
                              IF x = d THEN (IF d \in DOMAIN queue THEN queue[d] ELSE {}) \cup {ChildRemover(cur)}
                              ELSE queue[x]]
               /\ UNCHANGED <<removed, calls, outcome>>
            \/ /\ Flushes(queue)
               /\ FindMissingAndRemove("running")
               /\ queue' = (d :> {ChildRemover(cur)})
    /\ UNCHANGED <<children, present, i, cur>>

\* Faulty variant of FinalBatch: the last partial batch is never sent.
FinalBatchDropped ==
    /\ outcome = "running"
    /\ pending = {}
    /\ i > Len(children)
    /\ outcome' = "ok"
    /\ UNCHANGED <<children, present, i, cur, pending, queue, removed, calls>>

\* After FilterChildren(): send the final partial batch, if any.
FinalBatch ==
    /\ outcome = "running"
    /\ pending = {}
    /\ i > Len(children)
    /\ \/ /\ DOMAIN queue = {}
          /\ outcome' = "ok"
          /\ UNCHANGED <<removed, calls>>
       \/ /\ DOMAIN queue # {}
          /\ FindMissingAndRemove("ok")
    /\ UNCHANGED <<children, present, i, cur, pending, queue>>

Next == VisitChild \/ QueueDigest \/ FinalBatch

Spec == Init /\ [][Next]_vars

-----------------------------------------------------------------------------
(***************************************************************************)
(* Properties                                                              *)
(***************************************************************************)

\* Reference definition: a child must go when its digests cannot be listed,
\* when one belongs to another instance or digest function, or when one is
\* not in the storage.
MustRemove(n) ==
    \/ n.lookup = "notFound"
    \/ n.digests \cap Foreign # {}
    \/ ~(n.digests \subseteq present)

\* The filter never removes a child whose blobs are all present under the
\* build's digest function, even when it stops on an error half way, and a
\* filter that returns success has removed every child that must go, however
\* the children's digests were split over FindMissing() batches.
RemovesExactlyMissing ==
    /\ removed \subseteq {k \in 1 .. Len(children) : MustRemove(children[k])}
    /\ outcome = "ok" =>
          removed = {k \in 1 .. Len(children) : MustRemove(children[k])}

\* Spec 8: given a tree with N digests and a batch threshold T, the filter
\* issues ceil(N / T) FindMissing() calls.
QueuedDigests ==
    UNION {children[k].digests :
             k \in {k \in 1 .. Len(children) :
                      children[k].lookup = "ok" /\ children[k].digests \cap Foreign = {}}}
CallsAsSpecified ==
    outcome = "ok" =>
       Len(calls) = (Cardinality(QueuedDigests) + BatchLimit - 1) \div BatchLimit
==============================================================================
