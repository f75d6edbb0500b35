---------------------------- MODULE DiskOperator ----------------------------
(***************************************************************************)
(* The disk of one tier (src/base/disk_operator.c): a queue of requests for *)
(* each type of IO, and the threads that serve it.  BlockingQueue says how  *)
(* a queue works; here it is the number of requests in it.  A request that  *)
(* a thread has popped is in no queue while the disk is at work on it.      *)
(***************************************************************************)
EXTENDS Naturals

CONSTANTS requestQueueSize,   \* room of the host queue; the others have no bound
          hostConcurrency, backConcurrency

ASSUME DiskAssumption ==
    /\ requestQueueSize \in Nat \ {0}
    /\ hostConcurrency \in Nat \ {0} /\ backConcurrency \in Nat \ {0}

IOType == {"HOST", "BACK_GC", "BACK_TIER"}

Concurrency == [HOST |-> hostConcurrency, BACK_GC |-> backConcurrency, BACK_TIER |-> backConcurrency]

VARIABLES queueSize,  \* IO type -> requests in its queue
          busy        \* IO type -> threads at work on a request

diskVars == <<queueSize, busy>>

\* Faulty: a push to the host queue does not wait.
HandleDiskIOAtOnce(io) ==
    /\ queueSize' = [queueSize EXCEPT ![io] = @ + 1]
    /\ UNCHANGED busy

\* A push to the host queue waits for room; one thread pushes to it.
HandleDiskIO(io) ==
    /\ io = "HOST" => queueSize[io] < requestQueueSize
    /\ queueSize' = [queueSize EXCEPT ![io] = @ + 1]
    /\ UNCHANGED busy

\* Faulty: the request stays in its queue.
SizeKept(size) == size

SizeAfterPop(size) == size - 1

Pop(io) ==
    /\ queueSize[io] > 0 /\ busy[io] < Concurrency[io]
    /\ queueSize' = [queueSize EXCEPT ![io] = SizeAfterPop(@)]
    /\ busy' = [busy EXCEPT ![io] = @ + 1]

Serve(io) ==
    /\ busy[io] > 0
    /\ busy' = [busy EXCEPT ![io] = @ - 1]
    /\ UNCHANGED queueSize

DiskInit ==
    /\ queueSize = [io \in IOType |-> 0]
    /\ busy = [io \in IOType |-> 0]

DiskTypeOK ==
    /\ queueSize \in [IOType -> Nat] /\ queueSize["HOST"] <= requestQueueSize
    /\ \A io \in IOType : busy[io] \in 0 .. Concurrency[io]
=============================================================================
