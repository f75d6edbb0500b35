--------------------------- MODULE BlockingQueue ---------------------------
(***************************************************************************)
(* The bounded queue between threads (src/utility/blocking_queue.c): a ring *)
(* under a mutex with two condition variables.  Its uses are the workload   *)
(* queue, from a generator to the storage system, and the host queue of a   *)
(* disk, from the storage system to the host IO threads.                    *)
(***************************************************************************)
EXTENDS QueueThreads

CONSTANT queueSize

ASSUME QueueAssumption == queueSize \in Nat \ {0}

\* A queue is filled by one thread, the generator that runs or the host thread: a
\* second one could take the room that a woken one was told of.
ASSUME OneProducer == \E p \in Producers : Producers = {p}

VARIABLES queue, pushCursor, popCursor, currentSize

ringVars == <<queue, pushCursor, popCursor, currentSize>>
vars == <<ringVars, threadVars>>

\* Faulty: lets one too many in.
IsOverfull == currentSize > queueSize

IsFull == currentSize = queueSize

IsEmpty == currentSize = 0

\* Faulty: the ring does not turn.
RunOn(cursor) == cursor + 1

Turn(cursor) == (cursor + 1) % queueSize

-----------------------------------------------------------------------------

MayPush(p) == MayLock(p, "idle") /\ ~Stopped /\ sent[p] < MaxPush

PushItem(p) ==
    /\ queue' = [queue EXCEPT ![pushCursor] = <<p, sent[p] + 1>>]
    /\ pushCursor' = Turn(pushCursor)
    /\ currentSize' = currentSize + 1
    /\ sent' = [sent EXCEPT ![p] = @ + 1]
    /\ pc' \in Signalled([pc EXCEPT ![p] = "idle"], Consumers)
    /\ UNCHANGED <<popCursor, mutex, end, taken, missed>>

Push(p) == MayPush(p) /\ ~IsFull /\ PushItem(p)

PushWait(p) ==
    /\ MayPush(p) /\ IsFull
    /\ pc' = [pc EXCEPT ![p] = "waiting"]
    /\ UNCHANGED <<ringVars, mutex, sent, end, taken, missed>>

\* A woken producer does not look again.
PushResume(p) == MayLock(p, "woken") /\ PushItem(p)

-----------------------------------------------------------------------------

PopItem(c) ==
    /\ IF IsEmpty
       THEN UNCHANGED <<ringVars, taken>>
       ELSE /\ taken' = Append(taken, queue[popCursor])
            /\ popCursor' = Turn(popCursor)
            /\ currentSize' = currentSize - 1
            /\ UNCHANGED <<queue, pushCursor>>
    /\ pc' \in Signalled([pc EXCEPT ![c] = "idle"], Producers)
    /\ UNCHANGED <<mutex, sent, end, missed>>

Pop(c) == MayLock(c, "popping") /\ (~IsEmpty \/ ShutDown) /\ PopItem(c)

PopCheck(c) == IsEmpty /\ Check(c) /\ UNCHANGED ringVars

\* A woken consumer may find that another was faster, and returns nothing.
PopResume(c) == MayLock(c, "woken") /\ PopItem(c)

Init ==
    /\ ThreadsInit
    /\ queue = [i \in 0 .. queueSize - 1 |-> NULL]
    /\ pushCursor = 0 /\ popCursor = 0 /\ currentSize = 0

Producer(p) == Push(p) \/ PushWait(p) \/ PushResume(p)

Consumer(c) ==
    \/ Pop(c) \/ PopCheck(c) \/ PopResume(c)
    \/ LoopStep(c) /\ UNCHANGED ringVars

Ending == Destroy /\ UNCHANGED ringVars

Next ==
    \/ \E p \in Producers : Producer(p)
    \/ \E c \in Consumers : Consumer(c)
    \/ Stop /\ UNCHANGED ringVars
    \/ Ending

\* Every thread runs on while it can.  The end comes only if it comes, and goes on
\* then.
Spec ==
    /\ Init /\ [][Next]_vars
    /\ \A p \in Producers : WF_vars(Producer(p))
    /\ \A c \in Consumers : WF_vars(Consumer(c))
    /\ WF_vars(Ending)

-----------------------------------------------------------------------------

\* Every variable stays within its values; the ring never holds more than it has
\* room for, so no request is overwritten.
TypeOK ==
    /\ ThreadTypeOK
    /\ queue \in [0 .. queueSize - 1 -> Request \cup {NULL}]
    /\ pushCursor \in 0 .. queueSize - 1 /\ popCursor \in 0 .. queueSize - 1
    /\ currentSize \in 0 .. queueSize

\* No wakeup is lost between the two sides: when requests lie in the queue, some
\* consumer is awake (or all have left), and when there is room, so is a producer.
WakeupsAreNotLost ==
    /\ ~IsEmpty /\ Waiting(Consumers) # {} => Waiting(Consumers) # Consumers
    /\ ~IsFull /\ Waiting(Producers) # {} => \E p \in Producers : pc[p] = "woken"

Channel == INSTANCE RequestChannel WITH
    capacity <- queueSize,
    inTransit <- [i \in 1 .. currentSize |-> queue[(popCursor + i - 1) % queueSize]]

\* The ring is a channel: first in, first out, nothing lost or repeated.
ImplementsChannel == Channel!Spec
=============================================================================
