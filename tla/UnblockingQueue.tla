-------------------------- MODULE UnblockingQueue --------------------------
(***************************************************************************)
(* The unbounded queue between threads (src/utility/unblocking_queue.c): a  *)
(* list under a mutex with one condition variable.  The two queues of a     *)
(* disk for background requests are of this kind; in the lower tier the     *)
(* host thread and the tier thread both push garbage collection's.          *)
(***************************************************************************)
EXTENDS QueueThreads

VARIABLES queue, cursor

listVars == <<queue, cursor>>
vars == <<listVars, threadVars>>

IsEmpty == cursor = 0

\* Faulty: adds behind the list's head instead of behind its last node.
AddInFront(r) == <<r>> \o queue

AddAtEnd(r) == Append(queue, r)

\* Faulty: the count is not taken down.
CursorKept == cursor

CursorAfterPop == cursor - 1

-----------------------------------------------------------------------------

\* Nothing makes a producer wait.
Push(p) ==
    /\ MayLock(p, "idle") /\ ~Stopped /\ sent[p] < MaxPush
    /\ queue' = AddAtEnd(<<p, sent[p] + 1>>)
    /\ cursor' = cursor + 1
    /\ sent' = [sent EXCEPT ![p] = @ + 1]
    /\ pc' \in Signalled(pc, Consumers)
    /\ UNCHANGED <<mutex, end, taken, missed>>

PopItem(c) ==
    /\ IF IsEmpty
       THEN UNCHANGED <<listVars, taken>>
       ELSE /\ taken' = Append(taken, Head(queue))
            /\ queue' = Tail(queue)
            /\ cursor' = CursorAfterPop
    /\ pc' = [pc EXCEPT ![c] = "idle"]
    /\ UNCHANGED <<mutex, sent, end, missed>>

Pop(c) == MayLock(c, "popping") /\ (~IsEmpty \/ ShutDown) /\ PopItem(c)

PopCheck(c) == IsEmpty /\ Check(c) /\ UNCHANGED listVars

PopResume(c) == MayLock(c, "woken") /\ PopItem(c)

Init == ThreadsInit /\ queue = <<>> /\ cursor = 0

Consumer(c) ==
    \/ Pop(c) \/ PopCheck(c) \/ PopResume(c)
    \/ LoopStep(c) /\ UNCHANGED listVars

Ending == Destroy /\ UNCHANGED listVars

Next ==
    \/ \E p \in Producers : Push(p)
    \/ \E c \in Consumers : Consumer(c)
    \/ Stop /\ UNCHANGED listVars
    \/ Ending

\* Every thread runs on while it can.  The end comes only if it comes, and goes on
\* then.
Spec ==
    /\ Init /\ [][Next]_vars
    /\ \A p \in Producers : WF_vars(Push(p))
    /\ \A c \in Consumers : WF_vars(Consumer(c))
    /\ WF_vars(Ending)

-----------------------------------------------------------------------------

\* Every variable stays within its values; the count that Pop and the water level
\* conditions test is the length of the list.
TypeOK ==
    /\ ThreadTypeOK
    /\ queue \in Seq(Request)
    /\ cursor = Len(queue)

Channel == INSTANCE RequestChannel WITH
    capacity <- MaxPush * Cardinality(Producers), inTransit <- queue

\* The list is a channel that is never full: first in, first out, nothing lost or
\* repeated.
ImplementsChannel == Channel!Spec
=============================================================================
