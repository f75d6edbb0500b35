---------------------------- MODULE QueueThreads ----------------------------
(***************************************************************************)
(* What the two request queues have in common (src/utility/blocking_queue.c *)
(* and unblocking_queue.c): the threads about a queue, its mutex and its    *)
(* condition variables, and its end.                                        *)
(*                                                                          *)
(* What a thread does under the mutex is one action, but for a consumer     *)
(* that has seen the queue empty and not shut down: Shutdown takes no mutex *)
(* and can come before that consumer waits.  A thread that waits is woken   *)
(* by a signal alone.                                                       *)
(***************************************************************************)
EXTENDS Integers, Sequences, FiniteSets

CONSTANTS Producers, Consumers,
          MaxPush,    \* bound of the requests of each producer
          NULL

ASSUME ThreadAssumption ==
    /\ IsFiniteSet(Producers)
    /\ Producers \cap Consumers = {} /\ NULL \notin Producers \cup Consumers
    /\ MaxPush \in Nat

Threads == Producers \cup Consumers
Request == Producers \X (1 .. MaxPush)

VARIABLES pc,     \* idle, popping, checked, waiting, woken, done
          mutex,  \* the consumer that holds it between two actions, or NULL
          sent,   \* requests each producer has pushed
          end,    \* how far the queue's end has come
          taken,  \* history: the requests in the order they were popped
          missed  \* history: the broadcast found a consumer about to wait

threadVars == <<pc, mutex, sent, end, taken, missed>>

\* The flag of the consumers' loops, and that of the queue.
Stopped == end # "open"
ShutDown == end \in {"shutdown", "broadcast"}

\* A queue that is freed is not for use; what a thread that uses it then does is
\* not said.
Freed == end \in {"freed", "misused", "joined"}

MayLock(t, place) == pc[t] = place /\ mutex = NULL /\ ~Freed

Waiting(T) == {t \in T : pc[t] = "waiting"}

\* Faulty: no signal.
NotSignalled(f, T) == {f}

\* pthread_cond_signal: one of the threads of T that wait on it, if any, wakes.
Signalled(f, T) ==
    IF Waiting(T) = {} THEN {f} ELSE {[f EXCEPT ![t] = "woken"] : t \in Waiting(T)}

-----------------------------------------------------------------------------
(* A consumer's loop about Pop.                                             *)

\* The loop tests its flag, and goes on to Pop or ends.
TestFlag(c) ==
    /\ pc[c] = "idle"
    /\ pc' = [pc EXCEPT ![c] = IF Stopped THEN "done" ELSE "popping"]
    /\ UNCHANGED <<mutex, sent, end, taken, missed>>

\* In Pop of an empty queue.
Check(c) ==
    /\ MayLock(c, "popping") /\ ~ShutDown
    /\ mutex' = c
    /\ pc' = [pc EXCEPT ![c] = "checked"]
    /\ UNCHANGED <<sent, end, taken, missed>>

Wait(c) ==
    /\ pc[c] = "checked" /\ ~Freed
    /\ mutex' = NULL
    /\ pc' = [pc EXCEPT ![c] = "waiting"]
    /\ UNCHANGED <<sent, end, taken, missed>>

UseFreed(c) ==
    /\ pc[c] \in {"popping", "checked", "woken"} /\ end = "freed"
    /\ end' = "misused"
    /\ UNCHANGED <<pc, mutex, sent, taken, missed>>

LoopStep(c) == TestFlag(c) \/ Wait(c) \/ UseFreed(c)

-----------------------------------------------------------------------------
(* The end: the consumers' flag, the queue's Destroy, and the joins.        *)

EndGoes(from, to) == end = from /\ end' = to /\ UNCHANGED <<mutex, sent, taken>>

\* The producers have ended by then (WaitForStorageSystemInstance,
\* DestroyStorageSystem), at any number of requests.
Stop ==
    /\ \A p \in Producers : pc[p] = "idle"
    /\ EndGoes("open", "stopped") /\ UNCHANGED <<pc, missed>>

SetShutdown == EndGoes("stopped", "shutdown") /\ UNCHANGED <<pc, missed>>

\* Faulty: a signal.
WakeOne == Signalled(pc, Consumers)

WakeAll == {[t \in Threads |-> IF t \in Waiting(Consumers) THEN "woken" ELSE pc[t]]}

Broadcast ==
    /\ EndGoes("shutdown", "broadcast")
    /\ pc' \in WakeAll
    /\ missed' = \E c \in Consumers : pc[c] = "checked"

\* pthread_cond_destroy lets no thread wait on, and nobody looks for those that
\* were woken and have still to take the mutex.
Free ==
    /\ Waiting(Consumers) = {}
    /\ EndGoes("broadcast", "freed") /\ UNCHANGED <<pc, missed>>

Join ==
    /\ \A c \in Consumers : pc[c] = "done"
    /\ EndGoes("freed", "joined") /\ UNCHANGED <<pc, missed>>

Destroy == SetShutdown \/ Broadcast \/ Free \/ Join

ThreadsInit ==
    /\ pc = [t \in Threads |-> "idle"]
    /\ mutex = NULL
    /\ sent = [p \in Producers |-> 0]
    /\ end = "open" /\ missed = FALSE
    /\ taken = <<>>

ThreadTypeOK ==
    /\ pc \in [Threads -> {"idle", "popping", "checked", "waiting", "woken", "done"}]
    /\ mutex \in Consumers \cup {NULL}
    /\ sent \in [Producers -> 0 .. MaxPush]
    /\ end \in {"open", "stopped", "shutdown", "broadcast", "freed", "misused", "joined"}
    /\ missed \in BOOLEAN
    /\ taken \in Seq(Request)

-----------------------------------------------------------------------------

\* Unless the consumers are stopped, every request is sent and taken
\* (HostIOThread, BackGCThread and BackTierThread serve all that is pushed).
EveryRequestIsTaken == <>(Stopped \/ Len(taken) = MaxPush * Cardinality(Producers))

\* No thread hangs at the end, unless the broadcast came between a consumer's test and
\* its wait: the queue's Destroy and the joins after it go on to where they end or to
\* where a thread uses the queue that was freed.  That use is no failure here.
DestroyEnds == end = "broadcast" /\ ~missed ~> end \in {"joined", "misused"}
=============================================================================
