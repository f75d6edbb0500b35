------------------------- MODULE UnblockingQueueProofs -------------------------
(***************************************************************************)
(* Proofs about UnblockingQueue, for any producers, consumers and number of *)
(* requests: the count is the list's length, and the list is a channel that *)
(* no push finds full.                                                      *)
(***************************************************************************)
EXTENDS UnblockingQueue, SequenceTheorems, FiniteSetTheorems, TLAPS

\* The requests in the list were pushed, each of them once.
ListInv ==
    /\ \A i \in DOMAIN queue : queue[i][2] <= sent[queue[i][1]]
    /\ \A i, j \in DOMAIN queue : i # j => queue[i] # queue[j]

IInv == TypeOK /\ ListInv

-----------------------------------------------------------------------------
(* The steps.                                                               *)

\* The places of the threads.
Places == {"idle", "popping", "checked", "waiting", "woken", "done"}

\* A push adds a request that is numbered beyond those of its producer before it.
LEMMA PushKeeps ==
    ASSUME IInv, NEW p \in Producers, Push(p)
    PROVE  IInv'
<1> USE ThreadAssumption DEF IInv, TypeOK, ThreadTypeOK
<1> DEFINE r == <<p, sent[p] + 1>>
<1>1. /\ queue' = Append(queue, r) /\ cursor' = cursor + 1
      /\ sent[p] < MaxPush /\ sent' = [sent EXCEPT ![p] = @ + 1]
      /\ UNCHANGED <<mutex, end, taken, missed>>
  BY DEF Push, AddAtEnd
<1>2. r \in Request
  BY <1>1 DEF Request
<1>3. /\ queue' \in Seq(Request) /\ Len(queue') = Len(queue) + 1
      /\ \A i \in 1 .. Len(queue) : queue'[i] = queue[i]
      /\ queue'[Len(queue) + 1] = r
  BY <1>1, <1>2, AppendProperties
<1>4. pc' \in [Threads -> Places]
  <2>1. \/ pc' = pc
        \/ \E c \in Consumers : pc' = [pc EXCEPT ![c] = "woken"]
    BY DEF Push, Signalled, Waiting
  <2> QED BY <2>1 DEF Places
<1>5. sent' \in [Producers -> 0 .. MaxPush]
  BY <1>1
<1>6. TypeOK'
  BY <1>1, <1>3, <1>4, <1>5 DEF Places
<1>7. ListInv'
  <2>0. Len(queue) \in Nat /\ DOMAIN queue = 1 .. Len(queue) /\ DOMAIN queue' = 1 .. Len(queue) + 1
    BY <1>3, LenProperties
  <2>1. ASSUME NEW i \in 1 .. Len(queue)
        PROVE  /\ queue'[i] = queue[i] /\ queue[i] \in Request
               /\ queue'[i][2] <= sent[queue'[i][1]]
    BY <1>3, <2>0, <2>1, ElementOfSeq DEF ListInv
  <2>2. ASSUME NEW q \in Request, q[2] <= sent[q[1]]
        PROVE  q # r /\ q[2] <= sent'[q[1]]
    BY <1>1, <2>2 DEF Request
  <2>3. \A i \in 1 .. Len(queue) : queue'[i] # r /\ queue'[i][2] <= sent'[queue'[i][1]]
    BY <2>1, <2>2
  <2>4. r[2] <= sent'[r[1]]
    BY <1>1
  <2>5. \A i \in 1 .. Len(queue) + 1 : i \in 1 .. Len(queue) \/ i = Len(queue) + 1
    BY <2>0
  <2> HIDE DEF r
  <2>6. \A i \in DOMAIN queue' : queue'[i][2] <= sent'[queue'[i][1]]
    BY <1>3, <2>0, <2>3, <2>4, <2>5
  <2>7. \A i, j \in DOMAIN queue' : i # j => queue'[i] # queue'[j]
    BY <1>3, <2>0, <2>3, <2>5 DEF ListInv
  <2> QED BY <2>6, <2>7 DEF ListInv
<1> QED BY <1>6, <1>7

\* A consumer takes the first request, or finds none.
LEMMA PopKeeps ==
    ASSUME IInv, NEW c \in Consumers, PopItem(c)
    PROVE  IInv'
<1> USE ThreadAssumption DEF IInv, TypeOK, ThreadTypeOK
<1>1. UNCHANGED <<mutex, sent, end, missed>> /\ pc' = [pc EXCEPT ![c] = "idle"]
  BY DEF PopItem
<1>2. pc' \in [Threads -> Places]
  BY <1>1 DEF Places
<1>3. CASE IsEmpty
  <2>1. UNCHANGED <<queue, cursor, taken>>
    BY <1>3 DEF PopItem, listVars
  <2> QED BY <1>1, <1>2, <2>1 DEF Places, ListInv
<1>4. CASE ~IsEmpty
  <2>1. /\ taken' = Append(taken, Head(queue)) /\ queue' = Tail(queue)
        /\ cursor' = cursor - 1
    BY <1>4 DEF PopItem, CursorAfterPop
  <2>2. queue # <<>> /\ Len(queue) \in Nat /\ DOMAIN queue = 1 .. Len(queue)
    BY <1>4, EmptySeq, LenProperties DEF IsEmpty
  <2>3. /\ Head(queue) \in Request /\ queue' \in Seq(Request)
        /\ Len(queue') = Len(queue) - 1
        /\ \A i \in 1 .. Len(queue') : queue'[i] = queue[i + 1]
    BY <2>1, <2>2, HeadTailProperties
  <2>4. taken' \in Seq(Request)
    BY <2>1, <2>3, AppendProperties
  <2>5. TypeOK'
    BY <1>1, <1>2, <2>1, <2>2, <2>3, <2>4 DEF Places
  <2>6. DOMAIN queue' = 1 .. Len(queue) - 1
    BY <2>3, LenProperties
  <2>7. \A i \in 1 .. Len(queue) - 1 : i + 1 \in 1 .. Len(queue) /\ queue'[i] = queue[i + 1]
    BY <2>2, <2>3
  <2>8. \A i, j \in 1 .. Len(queue) - 1 : i # j => i + 1 # j + 1
    BY <2>2
  <2>9. ListInv'
    BY <1>1, <2>2, <2>6, <2>7, <2>8 DEF ListInv
  <2> QED BY <2>5, <2>9
<1> QED BY <1>3, <1>4

\* The other steps leave the list alone.
LEMMA OthersKeep ==
    ASSUME IInv, UNCHANGED listVars,
           \/ Stop \/ Destroy
           \/ \E c \in Consumers : Check(c) \/ LoopStep(c)
    PROVE  IInv' /\ UNCHANGED taken
<1> USE ThreadAssumption DEF IInv, TypeOK, ThreadTypeOK, listVars
<1>1. UNCHANGED <<sent, taken>> /\ mutex' \in Consumers \cup {NULL}
  BY DEF Stop, Destroy, SetShutdown, Broadcast, Free, Join, EndGoes, Check, LoopStep, TestFlag,
         Wait, UseFreed
<1>2. /\ end' \in {"open", "stopped", "shutdown", "broadcast", "freed", "misused", "joined"}
      /\ missed' \in BOOLEAN
  BY DEF Stop, Destroy, SetShutdown, Broadcast, Free, Join, EndGoes, Check, LoopStep, TestFlag,
         Wait, UseFreed
<1>3. pc' \in [Threads -> Places]
  <2>1. CASE Stop \/ Destroy
    BY <2>1
    DEF Stop, Destroy, SetShutdown, Broadcast, Free, Join, EndGoes, WakeAll, Places
  <2>2. ASSUME NEW c \in Consumers, Check(c) \/ LoopStep(c) PROVE pc' \in [Threads -> Places]
    BY <2>2 DEF Check, LoopStep, TestFlag, Wait, UseFreed, Places
  <2> QED BY <2>1, <2>2
<1>4. TypeOK'
  BY <1>1, <1>2, <1>3 DEF Places
<1>5. ListInv'
  BY <1>1 DEF ListInv
<1> QED BY <1>1, <1>4, <1>5

\* Each step by its thread, for the invariant and for the channel.
LEMMA StepBy ==
    ASSUME [Next]_vars
    PROVE  \/ \E p \in Producers : Push(p)
           \/ \E c \in Consumers : PopItem(c)
           \/ UNCHANGED listVars /\ \/ Stop \/ Destroy
                                    \/ \E c \in Consumers : Check(c) \/ LoopStep(c)
           \/ UNCHANGED vars
<1>1. ASSUME NEW c \in Consumers, Consumer(c)
      PROVE  PopItem(c) \/ ((Check(c) \/ LoopStep(c)) /\ UNCHANGED listVars)
  BY <1>1 DEF Consumer, Pop, PopResume, PopCheck
<1> QED BY <1>1 DEF Next, Ending

-----------------------------------------------------------------------------
(* The theorems.                                                            *)

\* What the theorems rest on.
LEMMA InvariantHolds == Spec => []IInv
<1>1. Init => IInv
  <2> SUFFICES ASSUME Init PROVE IInv
    OBVIOUS
  <2> USE ThreadAssumption DEF Init, ThreadsInit
  <2>1. queue \in Seq(Request) /\ Len(queue) = 0 /\ taken \in Seq(Request)
    BY EmptySeq
  <2>2. DOMAIN queue = {}
    BY <2>1, LenProperties
  <2>3. /\ sent \in [Producers -> 0 .. MaxPush] /\ mutex \in Consumers \cup {NULL}
        /\ pc \in [Threads -> {"idle", "popping", "checked", "waiting", "woken", "done"}]
    OBVIOUS
  <2>4. TypeOK
    BY <2>1, <2>3 DEF TypeOK, ThreadTypeOK
  <2> QED BY <2>2, <2>4 DEF IInv, ListInv
<1>2. IInv /\ [Next]_vars => IInv'
  <2> SUFFICES ASSUME IInv, [Next]_vars PROVE IInv'
    OBVIOUS
  <2>1. CASE UNCHANGED vars
    BY <2>1 DEF vars, listVars, threadVars, IInv, TypeOK, ThreadTypeOK, ListInv
  <2> QED BY <2>1, StepBy, PushKeeps, PopKeeps, OthersKeep
<1> QED BY <1>1, <1>2, PTL DEF Spec

\* Type correctness: UnblockingQueue's TypeOK, with the count that Pop tests always
\* the length of the list, for any number of threads that push and pop.
THEOREM TypeCorrect == Spec => []TypeOK
<1>1. IInv => TypeOK
  BY DEF IInv
<1> QED BY <1>1, InvariantHolds, PTL

\* Before a push the list is short of all the requests that there are: its own is
\* not in it.
LEMMA RoomForOneMore ==
    ASSUME IInv, NEW p \in Producers, Push(p)
    PROVE  Len(queue) < MaxPush * Cardinality(Producers)
<1> DEFINE r == <<p, sent[p] + 1>>
<1>0. ThreadAssumption
  BY ThreadAssumption
<1>1. /\ queue \in Seq(Request) /\ Len(queue) \in Nat /\ DOMAIN queue = 1 .. Len(queue)
  BY LenProperties DEF IInv, TypeOK
<1>2. r \in Request /\ queue' = Append(queue, r)
  BY <1>0 DEF Push, AddAtEnd, Request, IInv, TypeOK, ThreadTypeOK
<1>3. ListInv'
  BY PushKeeps DEF IInv
<1> HIDE DEF r
<1>4. /\ queue' \in Seq(Request) /\ Len(queue') = Len(queue) + 1
  BY <1>1, <1>2, AppendProperties
<1>5. queue' \in [1 .. Len(queue) + 1 -> Request]
  BY <1>4, LenProperties
<1>6. IsFiniteSet(1 .. Len(queue) + 1) /\ Cardinality(1 .. Len(queue) + 1) = Len(queue) + 1
  BY <1>1, FS_Interval
<1>7. IsFiniteSet(1 .. MaxPush) /\ Cardinality(1 .. MaxPush) = MaxPush
  BY <1>0, FS_Interval DEF ThreadAssumption
<1>8. IsFiniteSet(Request) /\ Cardinality(Request) = Cardinality(Producers) * MaxPush
  BY <1>0, <1>7, FS_Product DEF ThreadAssumption, Request
<1>9. Cardinality(Producers) \in Nat /\ MaxPush \in Nat /\ Cardinality(Request) \in Nat
  BY <1>0, <1>8, FS_CardinalityType DEF ThreadAssumption
<1>10. ~(Cardinality(Request) < Cardinality(1 .. Len(queue) + 1))
  <2>1. SUFFICES ASSUME Cardinality(Request) < Cardinality(1 .. Len(queue) + 1) PROVE FALSE
    OBVIOUS
  <2>2. \E i, j \in 1 .. Len(queue) + 1 : i # j /\ queue'[i] = queue'[j]
    BY <1>5, <1>6, <1>8, <2>1, FS_PigeonHole
  <2> QED BY <1>3, <1>5, <2>2 DEF ListInv
<1>11. Cardinality(Producers) * MaxPush = MaxPush * Cardinality(Producers)
  BY <1>9
<1> QED BY <1>1, <1>6, <1>8, <1>9, <1>10, <1>11

\* UnblockingQueue's ImplementsChannel: first in, first out, nothing lost or
\* repeated whatever threads push; a push is always a Send, since the list never
\* has all the requests before it.
THEOREM ListImplementsChannel == Spec => ImplementsChannel
<1>1. Init => Channel!Init
  BY DEF Init, ThreadsInit, Channel!Init
<1>2. IInv /\ [Next]_vars => [Channel!Next]_<<queue, taken>>
  <2> SUFFICES ASSUME IInv, [Next]_vars
               PROVE  Channel!Next \/ UNCHANGED <<queue, taken>>
    OBVIOUS
  <2>1. ASSUME NEW p \in Producers, Push(p) PROVE Channel!Next
    <3>1. <<p, sent[p] + 1>> \in Request
      BY <2>1, ThreadAssumption DEF Push, Request, IInv, TypeOK, ThreadTypeOK
    <3>2. Channel!Send(<<p, sent[p] + 1>>)
      BY <2>1, RoomForOneMore DEF Push, AddAtEnd, Channel!Send
    <3> QED BY <3>1, <3>2 DEF Channel!Next
  <2>2. ASSUME NEW c \in Consumers, PopItem(c)
        PROVE  Channel!Next \/ UNCHANGED <<queue, taken>>
    <3>1. CASE IsEmpty
      BY <2>2, <3>1 DEF PopItem, listVars
    <3>2. CASE ~IsEmpty
      <4>1. queue # <<>>
        BY <3>2, EmptySeq DEF IsEmpty, IInv, TypeOK
      <4> QED BY <2>2, <3>2, <4>1 DEF PopItem, Channel!Next, Channel!Receive
    <3> QED BY <3>1, <3>2
  <2>3. CASE UNCHANGED listVars /\ \/ Stop \/ Destroy
                                   \/ \E c \in Consumers : Check(c) \/ LoopStep(c)
    BY <2>3, OthersKeep DEF listVars
  <2>4. CASE UNCHANGED vars
    BY <2>4 DEF vars, listVars, threadVars
  <2> QED BY <2>1, <2>2, <2>3, <2>4, StepBy
<1> QED
  BY <1>1, <1>2, InvariantHolds, PTL DEF Spec, ImplementsChannel, Channel!Spec
=============================================================================
