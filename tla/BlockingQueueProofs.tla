-------------------------- MODULE BlockingQueueProofs --------------------------
(***************************************************************************)
(* Proofs about BlockingQueue, for any size of the ring, any consumers and  *)
(* any number of requests of its one producer: no slot is overwritten, no   *)
(* wakeup is lost, and the ring is a channel.                               *)
(***************************************************************************)
EXTENDS BlockingQueue, SequenceTheorems, TLAPS

-----------------------------------------------------------------------------
(* The inductive invariant.                                                 *)

\* Of the ring, the slot i places behind the one that is popped next.
Slot(i) == (popCursor + i) % queueSize

\* The next slot to fill is behind those in use, and these hold requests.
RingInv ==
    /\ pushCursor = Slot(currentSize)
    /\ \A i \in 0 .. currentSize - 1 : queue[Slot(i)] \in Request

\* A producer waits only while the ring is full, and has room when it is woken
\* though it does not look again.
ProducerInv ==
    \A p \in Producers :
        /\ pc[p] \in {"idle", "waiting", "woken"}
        /\ pc[p] = "waiting" => IsFull
        /\ pc[p] = "woken" => ~IsFull
        /\ pc[p] # "idle" => sent[p] < MaxPush

\* A consumer that has seen the ring empty holds the mutex until it waits, so that
\* the ring stays empty.
ConsumerInv == \A c \in Consumers : pc[c] = "checked" => mutex = c /\ IsEmpty

IInv == TypeOK /\ RingInv /\ ProducerInv /\ ConsumerInv /\ WakeupsAreNotLost

-----------------------------------------------------------------------------
(* Cursors.                                                                 *)

\* Within two turns, what % does to a cursor.
LEMMA TurnOnce ==
    ASSUME NEW n \in Nat, n < 2 * queueSize
    PROVE  n % queueSize = IF n < queueSize THEN n ELSE n - queueSize
BY QueueAssumption

\* Where the slots in use lie, and the next one.
LEMMA SlotIsAt ==
    ASSUME popCursor \in 0 .. queueSize - 1, NEW i \in 0 .. queueSize
    PROVE  /\ Slot(i) = IF popCursor + i < queueSize THEN popCursor + i
                                                     ELSE popCursor + i - queueSize
           /\ Slot(i) \in 0 .. queueSize - 1
<1>1. popCursor + i \in Nat /\ popCursor + i < 2 * queueSize
  BY QueueAssumption
<1> QED BY <1>1, TurnOnce, QueueAssumption DEF Slot

\* Slots less than a turn apart are different ones.
LEMMA SlotsDiffer ==
    ASSUME popCursor \in 0 .. queueSize - 1,
           NEW i \in 0 .. queueSize - 1, NEW j \in 0 .. queueSize - 1, i # j
    PROVE  Slot(i) # Slot(j)
BY SlotIsAt, QueueAssumption

\* The cursor behind a slot is the next slot.
LEMMA TurnOfSlot ==
    ASSUME popCursor \in 0 .. queueSize - 1, NEW i \in 0 .. queueSize - 1
    PROVE  Turn(Slot(i)) = Slot(i + 1)
<1>1. Slot(i) \in 0 .. queueSize - 1 /\ i + 1 \in 0 .. queueSize
  BY SlotIsAt, QueueAssumption
<1>2. Turn(Slot(i)) = IF Slot(i) + 1 < queueSize THEN Slot(i) + 1 ELSE 0
  BY <1>1, TurnOnce, QueueAssumption DEF Turn
<1> QED BY <1>1, <1>2, SlotIsAt, QueueAssumption

\* When the first slot is given up, each of the others is one place nearer.
LEMMA TurnMovesSlots ==
    ASSUME NEW cursor \in 0 .. queueSize - 1, NEW i \in 0 .. queueSize - 1
    PROVE  (Turn(cursor) + i) % queueSize = (cursor + (i + 1)) % queueSize
<1>1. Turn(cursor) = IF cursor + 1 < queueSize THEN cursor + 1 ELSE 0
  BY TurnOnce, QueueAssumption DEF Turn
<1>2. CASE cursor + 1 < queueSize
  BY <1>1, <1>2
<1>3. CASE cursor + 1 = queueSize
  <2> DEFINE n == cursor + (i + 1)
  <2>1. n \in Nat /\ n < 2 * queueSize /\ n >= queueSize /\ n = queueSize + i
    BY <1>3, QueueAssumption
  <2> HIDE DEF n
  <2>2. n % queueSize = n - queueSize
    BY <2>1, TurnOnce, QueueAssumption
  <2>3. i % queueSize = i
    BY TurnOnce, QueueAssumption
  <2>4. (Turn(cursor) + i) % queueSize = i
    BY <1>1, <1>3, <2>3, QueueAssumption
  <2> QED BY <2>1, <2>2, <2>4, QueueAssumption DEF n
<1> QED BY <1>2, <1>3, QueueAssumption

-----------------------------------------------------------------------------
(* A push and a pop.                                                        *)

\* The producer may push a request of its own for which there is room.
MayFill(p) == /\ p \in Producers /\ ~IsFull /\ sent[p] < MaxPush
              /\ mutex = NULL /\ pc[p] \in {"idle", "woken"}

\* So may the one that looks and the one that was woken.
LEMMA BothPushesMay ==
    ASSUME IInv, NEW p \in Producers, Push(p) \/ PushResume(p)
    PROVE  MayFill(p) /\ PushItem(p)
BY DEF IInv, ProducerInv, MayFill, Push, PushResume, MayPush, MayLock

\* The filled slot is the one behind those in use; its turn leaves the others as
\* they are.
LEMMA PushKeeps ==
    ASSUME IInv, NEW p \in Producers, MayFill(p), PushItem(p)
    PROVE  IInv'
<1> USE QueueAssumption, ThreadAssumption DEF IInv, MayFill
<1>0. Producers = {p}
  BY OneProducer
<1>1. /\ queue' = [queue EXCEPT ![pushCursor] = <<p, sent[p] + 1>>]
      /\ pushCursor' = Turn(pushCursor)
      /\ currentSize' = currentSize + 1
      /\ sent' = [sent EXCEPT ![p] = @ + 1]
      /\ UNCHANGED <<popCursor, mutex, end, taken, missed>>
  BY DEF PushItem
<1>2. <<p, sent[p] + 1>> \in Request
  BY DEF TypeOK, ThreadTypeOK, Request
<1>3. currentSize \in 0 .. queueSize - 1 /\ currentSize' \in 1 .. queueSize
  BY <1>1 DEF TypeOK, IsFull
<1>4. popCursor \in 0 .. queueSize - 1 /\ pushCursor = Slot(currentSize)
  BY DEF TypeOK, RingInv
<1>5. \/ Waiting(Consumers) = {} /\ pc' = [pc EXCEPT ![p] = "idle"]
      \/ \E c \in Waiting(Consumers) :
            pc' = [[pc EXCEPT ![p] = "idle"] EXCEPT ![c] = "woken"]
  BY DEF PushItem, Signalled
<1>6. /\ pc' \in [Threads -> {"idle", "popping", "checked", "waiting", "woken", "done"}]
      /\ pc'[p] = "idle"
      /\ \A c \in Consumers : pc'[c] = "checked" => pc[c] = "checked"
  BY <1>5 DEF TypeOK, ThreadTypeOK, Threads, Waiting
<1>7. TypeOK'
  <2>1. pushCursor' \in 0 .. queueSize - 1
    BY <1>1, <1>3, <1>4, TurnOfSlot, SlotIsAt
  <2>2. sent' \in [Producers -> 0 .. MaxPush]
    BY <1>1 DEF TypeOK, ThreadTypeOK
  <2>3. queue' \in [0 .. queueSize - 1 -> Request \cup {NULL}]
    BY <1>1, <1>2 DEF TypeOK
  <2> QED BY <1>1, <1>3, <1>6, <2>1, <2>2, <2>3 DEF TypeOK, ThreadTypeOK
<1>8. RingInv'
  <2>1. pushCursor' = Slot(currentSize + 1)
    BY <1>1, <1>3, <1>4, TurnOfSlot
  <2>2. ASSUME NEW i \in 0 .. currentSize
        PROVE  queue'[Slot(i)] \in Request
    <3>0. queue \in [0 .. queueSize - 1 -> Request \cup {NULL}]
      BY DEF TypeOK
    <3>1. Slot(i) \in 0 .. queueSize - 1
      <4>1. i \in 0 .. queueSize
        BY <1>3
      <4> QED BY <1>4, <4>1, SlotIsAt
    <3>2. CASE i = currentSize
      BY <1>1, <1>2, <1>4, <3>0, <3>1, <3>2
    <3>3. CASE i # currentSize
      <4>1. Slot(i) # pushCursor
        BY <1>3, <1>4, <3>3, SlotsDiffer
      <4>2. queue[Slot(i)] \in Request
        BY <1>3, <3>3 DEF RingInv
      <4> QED BY <1>1, <3>0, <3>1, <4>1, <4>2
    <3> QED BY <3>2, <3>3
  <2>3. \A i \in 0 .. currentSize : (popCursor' + i) % queueSize = Slot(i)
    BY <1>1 DEF Slot
  <2>4. pushCursor' = (popCursor' + currentSize') % queueSize
    BY <1>1, <2>1 DEF Slot
  <2> QED BY <1>1, <1>3, <2>2, <2>3, <2>4 DEF RingInv, Slot
<1>9. ProducerInv'
  BY <1>0, <1>6 DEF ProducerInv
<1>10. ConsumerInv'
  BY <1>6 DEF ConsumerInv, TypeOK, ThreadTypeOK
<1>11. WakeupsAreNotLost'
  <2>0. Waiting(Producers)' = {}
    BY <1>0, <1>6 DEF Waiting
  <2>1. CASE Waiting(Consumers) = {} /\ pc' = [pc EXCEPT ![p] = "idle"]
    <3>1. Waiting(Consumers)' = {}
      BY <2>1 DEF Waiting, TypeOK, ThreadTypeOK, Threads
    <3> QED BY <2>0, <3>1 DEF WakeupsAreNotLost
  <2>2. CASE \E c \in Waiting(Consumers) :
                pc' = [[pc EXCEPT ![p] = "idle"] EXCEPT ![c] = "woken"]
    <3>1. PICK c \in Waiting(Consumers) : pc'[c] = "woken"
      BY <2>2 DEF Waiting, TypeOK, ThreadTypeOK, Threads
    <3>2. c \in Consumers /\ c \notin Waiting(Consumers)'
      BY <3>1 DEF Waiting
    <3> QED BY <2>0, <3>2 DEF WakeupsAreNotLost
  <2> QED BY <1>5, <2>1, <2>2
<1> QED BY <1>7, <1>8, <1>9, <1>10, <1>11

\* A consumer may pop, and finds a request or, when others were faster, none.
LEMMA BothPopsMay ==
    ASSUME NEW c \in Consumers, Pop(c) \/ PopResume(c)
    PROVE  mutex = NULL /\ PopItem(c)
BY DEF Pop, PopResume, MayLock

\* A pop gives up the first slot and wakes a producer that waited.
LEMMA PopKeeps ==
    ASSUME IInv, NEW c \in Consumers, mutex = NULL, PopItem(c)
    PROVE  IInv'
<1> USE QueueAssumption, ThreadAssumption DEF IInv
<1>1. /\ popCursor \in 0 .. queueSize - 1 /\ currentSize \in 0 .. queueSize
      /\ queue \in [0 .. queueSize - 1 -> Request \cup {NULL}]
      /\ pushCursor \in 0 .. queueSize - 1
      /\ pushCursor = Slot(currentSize)
      /\ taken \in Seq(Request)
  BY DEF TypeOK, ThreadTypeOK, RingInv
<1>2. /\ UNCHANGED <<queue, pushCursor, mutex, sent, end, missed>>
      /\ IsEmpty => UNCHANGED <<popCursor, currentSize, taken>>
      /\ ~IsEmpty => /\ taken' = Append(taken, queue[popCursor])
                     /\ popCursor' = Turn(popCursor)
                     /\ currentSize' = currentSize - 1
  BY DEF PopItem, ringVars
<1>3. \/ Waiting(Producers) = {} /\ pc' = [pc EXCEPT ![c] = "idle"]
      \/ \E p \in Waiting(Producers) : pc' = [[pc EXCEPT ![c] = "idle"] EXCEPT ![p] = "woken"]
  BY DEF PopItem, Signalled
<1>4. /\ pc' \in [Threads -> {"idle", "popping", "checked", "waiting", "woken", "done"}]
      /\ pc'[c] = "idle"
      /\ \A d \in Consumers : pc'[d] = "checked" => pc[d] = "checked"
  BY <1>3 DEF TypeOK, ThreadTypeOK, Threads, Waiting
<1>5. Slot(0) = popCursor /\ Turn(popCursor) = Slot(1) /\ Slot(1) \in 0 .. queueSize - 1
  BY <1>1, SlotIsAt, TurnOfSlot
<1>6. TypeOK' /\ RingInv'
  <2>1. pc' \in [Threads -> {"idle", "popping", "checked", "waiting", "woken", "done"}]
    BY <1>4
  <2>2. CASE IsEmpty
    BY <1>1, <1>2, <2>1, <2>2 DEF TypeOK, ThreadTypeOK, RingInv, Slot
  <2>3. CASE ~IsEmpty
    <3>1. currentSize \in 1 .. queueSize /\ currentSize' \in 0 .. queueSize - 1
      BY <1>1, <1>2, <2>3 DEF IsEmpty
    <3>2. queue[popCursor] \in Request
      BY <1>5, <3>1 DEF RingInv
    <3>3. TypeOK'
      <4>1. taken' \in Seq(Request)
        <5>1. taken \in Seq(Request) /\ taken' = Append(taken, queue[popCursor])
          BY <1>1, <1>2, <2>3
        <5> QED
          BY ONLY <3>2, <5>1
      <4>2. popCursor' \in 0 .. queueSize - 1
        BY <1>2, <1>5, <2>3
      <4> QED BY <1>1, <1>2, <2>1, <3>1, <4>1, <4>2 DEF TypeOK, ThreadTypeOK
    <3>4. ASSUME NEW i \in 0 .. queueSize - 1
          PROVE  (popCursor' + i) % queueSize = Slot(i + 1)
      BY <1>1, <1>2, <2>3, TurnMovesSlots DEF Slot
    <3>5. pushCursor' = (popCursor' + currentSize') % queueSize
      BY <1>1, <1>2, <2>3, <3>1, <3>4
    <3>6. ASSUME NEW i \in 0 .. currentSize' - 1
          PROVE  queue'[(popCursor' + i) % queueSize] \in Request
      BY <1>2, <2>3, <3>1, <3>4 DEF RingInv
    <3> QED BY <3>3, <3>5, <3>6 DEF RingInv, Slot
  <2> QED BY <2>2, <2>3
<1>7. ProducerInv' /\ WakeupsAreNotLost'
  <2>1. c \notin Producers /\ c \notin Waiting(Consumers)'
    BY <1>4 DEF Waiting
  <2>2. currentSize' <= currentSize /\ (IsFull => ~IsFull')
    BY <1>1, <1>2 DEF IsEmpty, IsFull
  <2>3. ASSUME NEW p \in Producers
        PROVE  /\ pc'[p] \in {"idle", "woken"}
               /\ pc'[p] = "woken" => ~IsFull'
               /\ pc'[p] # "idle" => pc[p] # "idle"
    <3>0. Producers = {p}
      BY OneProducer
    <3>1. CASE Waiting(Producers) = {} /\ pc' = [pc EXCEPT ![c] = "idle"]
      <4>1. pc'[p] = pc[p] /\ pc[p] # "waiting"
        BY <2>1, <3>1 DEF Waiting, TypeOK, ThreadTypeOK, Threads
      <4>2. pc[p] \in {"idle", "woken"} /\ (pc[p] = "woken" => ~IsFull)
        BY <4>1 DEF ProducerInv
      <4>3. ~IsFull => ~IsFull'
        BY <1>1, <1>2 DEF IsFull
      <4> QED BY <4>1, <4>2, <4>3
    <3>2. CASE \E q \in Waiting(Producers) :
                  pc' = [[pc EXCEPT ![c] = "idle"] EXCEPT ![q] = "woken"]
      <4>1. pc'[p] = "woken" /\ pc[p] = "waiting"
        BY <2>1, <3>0, <3>2 DEF Waiting, TypeOK, ThreadTypeOK, Threads
      <4> QED BY <2>2, <4>1 DEF ProducerInv
    <3> QED BY <1>3, <3>1, <3>2
  <2>4. ProducerInv'
    BY <1>2, <2>3 DEF ProducerInv
  <2>5. WakeupsAreNotLost'
    BY <2>1, <2>3 DEF WakeupsAreNotLost, Waiting
  <2> QED BY <2>4, <2>5
<1>8. ConsumerInv'
  BY <1>2, <1>4 DEF ConsumerInv, TypeOK, ThreadTypeOK, IsEmpty
<1> QED BY <1>6, <1>7, <1>8

-----------------------------------------------------------------------------
(* The steps that leave the ring alone.                                     *)

\* A thread that moves on and signals nobody.
LEMMA ThreadMovesOn ==
    ASSUME IInv, UNCHANGED <<ringVars, sent, taken>>, NEW t \in Threads,
           NEW place \in {"idle", "popping", "checked", "waiting", "done"},
           pc' = [pc EXCEPT ![t] = place], mutex' \in Consumers \cup {NULL},
           end' = end, missed' = missed,
           \A c \in Consumers \ {t} : pc[c] = "checked" => mutex' = mutex,
           t \in Producers => place = "waiting" /\ pc[t] = "idle" /\ IsFull /\ sent[t] < MaxPush,
           t \in Consumers /\ place = "checked" => mutex' = t /\ IsEmpty,
           t \in Consumers /\ place = "waiting" => IsEmpty
    PROVE  IInv'
<1> USE QueueAssumption, ThreadAssumption DEF IInv, ringVars
<1>1. \A u \in Threads : pc'[u] = IF u = t THEN place ELSE pc[u]
  BY DEF TypeOK, ThreadTypeOK
<1>2. TypeOK'
  BY DEF TypeOK, ThreadTypeOK
<1>3. RingInv'
  BY DEF RingInv, Slot
<1>4. ProducerInv'
  BY <1>1 DEF ProducerInv, IsFull, Threads
<1>5. ConsumerInv'
  BY <1>1 DEF ConsumerInv, IsEmpty, Threads
<1>6. WakeupsAreNotLost'
  <2>1. CASE t \in Producers
    <3>1. Waiting(Consumers)' = Waiting(Consumers) /\ IsFull'
      BY <1>1, <2>1 DEF Waiting, Threads, IsFull
    <3> QED BY <3>1 DEF WakeupsAreNotLost, IsEmpty
  <2>2. CASE t \in Consumers
    <3>1. \A p \in Producers : pc'[p] = pc[p]
      BY <1>1, <2>2 DEF Threads
    <3>2. ~IsFull' /\ Waiting(Producers)' # {} => \E p \in Producers : pc'[p] = "woken"
      BY <3>1 DEF WakeupsAreNotLost, Waiting, IsFull
    <3>3. place # "waiting" => t \notin Waiting(Consumers)'
      BY <1>1, <2>2 DEF Waiting, Threads
    <3> QED BY <2>2, <3>2, <3>3 DEF WakeupsAreNotLost, IsEmpty
  <2> QED BY <2>1, <2>2 DEF Threads
<1> QED BY <1>2, <1>3, <1>4, <1>5, <1>6

\* A push that waits, and a consumer's loop up to its wait.
LEMMA WaitsKeep ==
    ASSUME IInv,
           \/ \E p \in Producers : PushWait(p)
           \/ \E c \in Consumers : PopCheck(c) \/ ((TestFlag(c) \/ Wait(c)) /\ UNCHANGED ringVars)
    PROVE  IInv'
<1> USE ThreadAssumption DEF Threads
<1>0. mutex \in Consumers \cup {NULL}
  BY DEF IInv, TypeOK, ThreadTypeOK
<1>1. ASSUME NEW p \in Producers, PushWait(p) PROVE IInv'
  BY <1>0, <1>1, ThreadMovesOn DEF PushWait, MayPush, MayLock
<1>2. ASSUME NEW c \in Consumers, PopCheck(c) PROVE IInv'
  <2>1. mutex = NULL /\ mutex' = c /\ IsEmpty /\ pc' = [pc EXCEPT ![c] = "checked"]
    BY <1>2 DEF PopCheck, Check, MayLock
  <2>2. \A d \in Consumers : pc[d] # "checked"
    BY <2>1 DEF IInv, ConsumerInv
  <2> QED BY <1>2, <2>1, <2>2, ThreadMovesOn DEF PopCheck, Check
<1>3. ASSUME NEW c \in Consumers, TestFlag(c), UNCHANGED ringVars PROVE IInv'
  BY <1>0, <1>3, ThreadMovesOn DEF TestFlag
<1>4. ASSUME NEW c \in Consumers, Wait(c), UNCHANGED ringVars PROVE IInv'
  <2>1. mutex = c /\ IsEmpty
    BY <1>4 DEF Wait, IInv, ConsumerInv
  <2>2. \A d \in Consumers \ {c} : pc[d] # "checked"
    BY <2>1 DEF IInv, ConsumerInv
  <2> QED BY <1>4, <2>1, <2>2, ThreadMovesOn DEF Wait
<1> QED BY <1>1, <1>2, <1>3, <1>4

\* The end, and the broadcast that it makes.
LEMMA EndKeeps ==
    ASSUME IInv, UNCHANGED ringVars, Stop \/ Destroy \/ \E c \in Consumers : UseFreed(c)
    PROVE  IInv'
<1> USE QueueAssumption, ThreadAssumption DEF IInv, ringVars
<1>1. UNCHANGED <<mutex, sent, taken>>
  BY DEF Stop, Destroy, SetShutdown, Broadcast, Free, Join, EndGoes, UseFreed
<1>2. /\ end' \in {"open", "stopped", "shutdown", "broadcast", "freed", "misused", "joined"}
      /\ missed' \in BOOLEAN
  BY DEF Stop, Destroy, SetShutdown, Broadcast, Free, Join, EndGoes, UseFreed, TypeOK,
         ThreadTypeOK
<1>3. RingInv'
  BY DEF RingInv, Slot
<1>4. CASE UNCHANGED pc
  BY <1>1, <1>2, <1>3, <1>4
  DEF TypeOK, ThreadTypeOK, ProducerInv, ConsumerInv, WakeupsAreNotLost, Waiting, IsFull,
      IsEmpty
<1>5. CASE Broadcast
  <2>1. pc' = [t \in Threads |-> IF t \in Waiting(Consumers) THEN "woken" ELSE pc[t]]
    BY <1>5 DEF Broadcast, WakeAll
  <2>2. TypeOK'
    BY <1>1, <1>2, <2>1 DEF TypeOK, ThreadTypeOK
  <2>3. /\ \A p \in Producers : pc'[p] = pc[p]
        /\ \A c \in Consumers : pc'[c] # "waiting" /\ (pc'[c] = "checked" => pc[c] = "checked")
    BY <2>1 DEF Waiting, Threads
  <2>4. ProducerInv' /\ ConsumerInv'
    BY <1>1, <2>3 DEF ProducerInv, ConsumerInv, IsFull, IsEmpty
  <2>5. WakeupsAreNotLost'
    BY <2>3 DEF WakeupsAreNotLost, Waiting, IsFull, IsEmpty
  <2> QED BY <1>3, <2>2, <2>4, <2>5
<1> QED BY <1>4, <1>5 DEF Stop, Destroy, SetShutdown, Free, Join, UseFreed

-----------------------------------------------------------------------------
(* The theorems.                                                            *)

\* The inductive invariant: it holds at first, and every step keeps it.
LEMMA InitIInv == Init => IInv
<1> SUFFICES ASSUME Init PROVE IInv
  OBVIOUS
<1> USE QueueAssumption, ThreadAssumption DEF Init, ThreadsInit
<1>1. TypeOK
  <2>1. queue \in [0 .. queueSize - 1 -> Request \cup {NULL}] /\ 0 \in 0 .. queueSize - 1
    OBVIOUS
  <2>2. taken \in Seq(Request)
    BY EmptySeq
  <2>3. /\ sent \in [Producers -> 0 .. MaxPush] /\ mutex \in Consumers \cup {NULL}
        /\ pc \in [Threads -> {"idle", "popping", "checked", "waiting", "woken", "done"}]
    OBVIOUS
  <2>4. ThreadTypeOK
    BY <2>2, <2>3 DEF ThreadTypeOK
  <2> QED BY <2>1, <2>4 DEF TypeOK
<1>2. RingInv
  <2>1. Slot(0) = 0
    BY SlotIsAt
  <2> QED BY <2>1 DEF RingInv
<1>3. ProducerInv /\ ConsumerInv /\ WakeupsAreNotLost
  BY DEF ProducerInv, ConsumerInv, WakeupsAreNotLost, Threads, Waiting, IsEmpty
<1> QED BY <1>1, <1>2, <1>3 DEF IInv

\* Every step of a producer, a consumer or the end keeps the invariant.
LEMMA NextIInv == IInv /\ [Next]_vars => IInv'
<1> SUFFICES ASSUME IInv, [Next]_vars PROVE IInv'
  OBVIOUS
<1>1. ASSUME NEW p \in Producers, Push(p) \/ PushResume(p) PROVE IInv'
  BY <1>1, BothPushesMay, PushKeeps
<1>2. ASSUME NEW c \in Consumers, Pop(c) \/ PopResume(c) PROVE IInv'
  BY <1>2, BothPopsMay, PopKeeps
<1>3. ASSUME NEW p \in Producers, Producer(p) PROVE IInv'
  BY <1>1, <1>3, WaitsKeep DEF Producer
<1>4. ASSUME NEW c \in Consumers, Consumer(c) PROVE IInv'
  <2>1. CASE PopCheck(c) \/ ((TestFlag(c) \/ Wait(c)) /\ UNCHANGED ringVars)
    BY <2>1, WaitsKeep
  <2>2. CASE UseFreed(c) /\ UNCHANGED ringVars
    BY <2>2, EndKeeps
  <2>3. CASE Pop(c) \/ PopResume(c)
    BY <1>2, <2>3
  <2> QED BY <1>4, <2>1, <2>2, <2>3 DEF Consumer, LoopStep
<1>5. CASE UNCHANGED vars
  <2>1. TypeOK' /\ RingInv'
    BY <1>5 DEF vars, ringVars, threadVars, IInv, TypeOK, ThreadTypeOK, RingInv, Slot
  <2>2. ProducerInv' /\ ConsumerInv' /\ WakeupsAreNotLost'
    BY <1>5
    DEF vars, ringVars, threadVars, IInv, ProducerInv, ConsumerInv, WakeupsAreNotLost, Waiting,
        IsFull, IsEmpty
  <2> QED BY <2>1, <2>2 DEF IInv
<1>6. CASE (Stop \/ Destroy) /\ UNCHANGED ringVars
  BY <1>6, EndKeeps
<1> QED BY <1>3, <1>4, <1>5, <1>6 DEF Next, Ending

\* It holds in every behaviour.
LEMMA InvariantHolds == Spec => []IInv
BY InitIInv, NextIInv, PTL DEF Spec

\* Type correctness: BlockingQueue's TypeOK holds for a ring of any size; its count
\* never exceeds its room, although a woken Push does not look again.
THEOREM TypeCorrect == Spec => []TypeOK
<1>1. IInv => TypeOK
  BY DEF IInv
<1> QED BY <1>1, InvariantHolds, PTL

\* BlockingQueue's WakeupsAreNotLost: while requests lie in the ring some consumer
\* is awake, and while there is room so is the producer, for any number of
\* consumers that share the one signal of a push.
THEOREM WakeupsAreNotLostHolds == Spec => []WakeupsAreNotLost
<1>1. IInv => WakeupsAreNotLost
  BY DEF IInv
<1> QED BY <1>1, InvariantHolds, PTL

-----------------------------------------------------------------------------
(* The ring implements the channel.                                         *)

\* The requests in the ring, in the order they will be popped.
Requests(q, cursor, n) == [i \in 1 .. n |-> q[(cursor + i - 1) % queueSize]]

InTransit == Requests(queue, popCursor, currentSize)

\* What the channel's sequence of them is.
LEMMA RequestsAreASequence ==
    ASSUME NEW q \in [0 .. queueSize - 1 -> Request \cup {NULL}],
           NEW cursor \in 0 .. queueSize - 1, NEW n \in 0 .. queueSize
    PROVE  /\ Requests(q, cursor, n) \in Seq(Request \cup {NULL})
           /\ Len(Requests(q, cursor, n)) = n
           /\ \A i \in 1 .. n : Requests(q, cursor, n)[i] = q[(cursor + (i - 1)) % queueSize]
<1>1. ASSUME NEW i \in 1 .. n
      PROVE  /\ cursor + i - 1 = cursor + (i - 1)
             /\ q[(cursor + i - 1) % queueSize] \in Request \cup {NULL}
  <2>1. cursor + i - 1 \in Nat /\ cursor + i - 1 < 2 * queueSize
    BY QueueAssumption
  <2>2. (cursor + i - 1) % queueSize \in 0 .. queueSize - 1
    BY <2>1, TurnOnce, QueueAssumption
  <2> QED BY <2>1, <2>2
<1>2. Requests(q, cursor, n) \in [1 .. n -> Request \cup {NULL}] /\ n \in Nat
  BY <1>1, QueueAssumption DEF Requests
<1>3. Requests(q, cursor, n) \in Seq(Request \cup {NULL})
  BY <1>2, SeqDef
<1>4. Len(Requests(q, cursor, n)) = n
  BY <1>2, <1>3, LenProperties
<1> QED BY <1>1, <1>3, <1>4 DEF Requests

\* A push is a Send.
LEMMA PushSends ==
    ASSUME IInv, NEW p \in Producers, MayFill(p), PushItem(p)
    PROVE  \E r \in Request : Channel!Send(r)
<1> USE QueueAssumption
<1> DEFINE r == <<p, sent[p] + 1>>
           S == Request \cup {NULL}
<1>1. /\ queue' = [queue EXCEPT ![pushCursor] = r]
      /\ currentSize' = currentSize + 1
      /\ UNCHANGED <<popCursor, taken>>
  BY DEF PushItem
<1>2. r \in Request
  BY ThreadAssumption DEF IInv, TypeOK, ThreadTypeOK, Request, MayFill
<1>3. /\ currentSize \in 0 .. queueSize - 1 /\ popCursor \in 0 .. queueSize - 1
      /\ queue \in [0 .. queueSize - 1 -> S]
      /\ pushCursor = Slot(currentSize)
  BY QueueAssumption DEF IInv, TypeOK, RingInv, MayFill, IsFull
<1>4. queue' \in [0 .. queueSize - 1 -> S]
  BY <1>1, <1>2, <1>3
<1> HIDE DEF r, S
<1>5. \A i \in 0 .. currentSize : queue'[Slot(i)] = IF i = currentSize THEN r ELSE queue[Slot(i)]
  <2> TAKE i \in 0 .. currentSize
  <2>1. Slot(i) \in 0 .. queueSize - 1 /\ (i # currentSize => Slot(i) # pushCursor)
    BY <1>3, QueueAssumption, SlotIsAt, SlotsDiffer
  <2> QED BY <1>1, <1>3, <2>1
<1>6. /\ InTransit \in Seq(S) /\ Len(InTransit) = currentSize
      /\ \A i \in 1 .. currentSize : InTransit[i] = queue[Slot(i - 1)]
  <2>1. currentSize \in 0 .. queueSize
    BY <1>3
  <2>2. queue \in [0 .. queueSize - 1 -> Request \cup {NULL}]
    BY <1>3 DEF S
  <2> QED BY <1>3, <2>1, <2>2, RequestsAreASequence DEF InTransit, Slot, S
<1>7. /\ InTransit' \in Seq(S) /\ Len(InTransit') = currentSize + 1
      /\ \A i \in 1 .. currentSize + 1 : InTransit'[i] = queue'[Slot(i - 1)]
  <2>1. currentSize + 1 \in 0 .. queueSize
    BY <1>3
  <2>2. queue' \in [0 .. queueSize - 1 -> Request \cup {NULL}]
    BY <1>4 DEF S
  <2>3. InTransit' = Requests(queue', popCursor, currentSize + 1)
    BY <1>1 DEF InTransit
  <2> QED BY <1>3, <2>1, <2>2, <2>3, RequestsAreASequence DEF Slot, S
<1>8. /\ Append(InTransit, r) \in Seq(S) /\ Len(Append(InTransit, r)) = currentSize + 1
      /\ \A i \in 1 .. currentSize : Append(InTransit, r)[i] = InTransit[i]
      /\ Append(InTransit, r)[currentSize + 1] = r
  <2>1. r \in S
    BY <1>2 DEF S
  <2> QED BY <1>6, <2>1, AppendProperties
<1>9. \A i \in 1 .. currentSize + 1 : InTransit'[i] = Append(InTransit, r)[i]
  <2> TAKE i \in 1 .. currentSize + 1
  <2>1. i - 1 \in 0 .. currentSize /\ InTransit'[i] = queue'[Slot(i - 1)]
    BY <1>3, <1>7
  <2>2. CASE i = currentSize + 1
    <3>1. i - 1 = currentSize
      BY <1>3, <2>2
    <3> QED BY <1>5, <1>8, <2>1, <2>2, <3>1
  <2>3. CASE i # currentSize + 1
    <3>1. i \in 1 .. currentSize /\ i - 1 # currentSize
      BY <1>3, <2>3
    <3> QED BY <1>5, <1>6, <1>8, <2>1, <3>1
  <2> QED BY <2>2, <2>3
<1>10. InTransit' = Append(InTransit, r)
  BY <1>7, <1>8, <1>9, SeqEqual
<1>11. Len(InTransit) < queueSize
  BY <1>3, <1>6
<1> QED BY <1>1, <1>2, <1>10, <1>11 DEF Channel!Send, InTransit, Requests

\* A pop of a request is a Receive, and one of an empty ring none.
LEMMA PopReceives ==
    ASSUME IInv, NEW c \in Consumers, PopItem(c)
    PROVE  Channel!Receive \/ UNCHANGED <<InTransit, taken>>
<1> USE QueueAssumption
<1> DEFINE S == Request \cup {NULL}
<1>1. CASE IsEmpty
  BY <1>1 DEF PopItem, ringVars, InTransit
<1>2. CASE ~IsEmpty
  <2>1. /\ taken' = Append(taken, queue[popCursor]) /\ popCursor' = Turn(popCursor)
        /\ currentSize' = currentSize - 1 /\ UNCHANGED queue
    BY <1>2 DEF PopItem
  <2>2. /\ currentSize \in 1 .. queueSize /\ popCursor \in 0 .. queueSize - 1
        /\ queue \in [0 .. queueSize - 1 -> S]
    BY <1>2, QueueAssumption DEF IInv, TypeOK, IsEmpty
  <2>3. popCursor' \in 0 .. queueSize - 1 /\ Slot(0) = popCursor
    BY <2>1, <2>2, QueueAssumption, TurnOfSlot, SlotIsAt
  <2> HIDE DEF S
  <2>4. /\ InTransit \in Seq(S) /\ Len(InTransit) = currentSize
        /\ \A i \in 1 .. currentSize : InTransit[i] = queue[Slot(i - 1)]
    <3>1. currentSize \in 0 .. queueSize /\ queue \in [0 .. queueSize - 1 -> Request \cup {NULL}]
      BY <2>2 DEF S
    <3> QED BY <2>2, <3>1, RequestsAreASequence DEF InTransit, Slot, S
  <2>5. /\ InTransit' \in Seq(S) /\ Len(InTransit') = currentSize - 1
        /\ \A i \in 1 .. currentSize - 1 :
              InTransit'[i] = queue[(Turn(popCursor) + (i - 1)) % queueSize]
    <3>1. currentSize - 1 \in 0 .. queueSize
      BY <2>2
    <3>2. InTransit' = Requests(queue, Turn(popCursor), currentSize - 1)
      BY <2>1 DEF InTransit
    <3>3. queue \in [0 .. queueSize - 1 -> Request \cup {NULL}]
      BY <2>2 DEF S
    <3>4. Turn(popCursor) \in 0 .. queueSize - 1
      BY <2>1, <2>3
    <3> QED BY <3>1, <3>2, <3>3, <3>4, RequestsAreASequence DEF S
  <2>6. \A i \in 1 .. currentSize - 1 : InTransit'[i] = queue[Slot(i)]
    <3> TAKE i \in 1 .. currentSize - 1
    <3>1. i - 1 \in 0 .. queueSize - 1 /\ (i - 1) + 1 = i
      BY <2>2
    <3>2. (Turn(popCursor) + (i - 1)) % queueSize = Slot(i)
      BY <2>2, <3>1, TurnMovesSlots DEF Slot
    <3> QED BY <2>5, <3>2
  <2>7. InTransit # <<>> /\ Head(InTransit) = queue[popCursor]
    <3>1. 1 \in 1 .. currentSize /\ 1 - 1 = 0
      BY <2>2
    <3>2. InTransit[1] = queue[popCursor]
      BY <2>3, <2>4, <3>1
    <3> QED BY <2>2, <2>4, <3>2, EmptySeq
  <2>8. /\ Tail(InTransit) \in Seq(S) /\ Len(Tail(InTransit)) = currentSize - 1
        /\ \A i \in 1 .. currentSize - 1 : Tail(InTransit)[i] = InTransit[i + 1]
    BY <2>4, <2>7, HeadTailProperties
  <2>9. \A i \in 1 .. currentSize - 1 : InTransit'[i] = Tail(InTransit)[i]
    <3> TAKE i \in 1 .. currentSize - 1
    <3>1. i + 1 \in 1 .. currentSize /\ (i + 1) - 1 = i
      BY <2>2
    <3> QED BY <2>4, <2>6, <2>8, <3>1
  <2>10. InTransit' = Tail(InTransit)
    BY <2>5, <2>8, <2>9, SeqEqual
  <2> QED BY <2>1, <2>7, <2>10 DEF Channel!Receive, InTransit, Requests
<1> QED BY <1>1, <1>2

\* BlockingQueue's ImplementsChannel: first in, first out, nothing lost, repeated or
\* overwritten, and never more than the ring's size under way.
THEOREM RingImplementsChannel == Spec => ImplementsChannel
<1>1. Init => Channel!Init
  <2> SUFFICES ASSUME Init PROVE Channel!Init
    OBVIOUS
  <2>1. InTransit = <<>>
    BY DEF Init, InTransit, Requests
  <2> QED BY <2>1 DEF Init, ThreadsInit, Channel!Init, InTransit, Requests
<1>2. IInv /\ [Next]_vars => [Channel!Next]_<<InTransit, taken>>
  <2> SUFFICES ASSUME IInv, [Next]_vars
               PROVE  Channel!Next \/ UNCHANGED <<InTransit, taken>>
    OBVIOUS
  <2>1. ASSUME NEW p \in Producers, Push(p) \/ PushResume(p) PROVE Channel!Next
    BY <2>1, BothPushesMay, PushSends DEF Channel!Next
  <2>2. ASSUME NEW c \in Consumers, Pop(c) \/ PopResume(c)
        PROVE  Channel!Next \/ UNCHANGED <<InTransit, taken>>
    BY <2>2, BothPopsMay, PopReceives DEF Channel!Next
  <2>3. CASE UNCHANGED <<ringVars, taken>>
    BY <2>3 DEF ringVars, InTransit
  <2>4. ASSUME NEW p \in Producers, PushWait(p) PROVE UNCHANGED <<ringVars, taken>>
    BY <2>4 DEF PushWait
  <2>5. ASSUME NEW c \in Consumers, PopCheck(c) \/ (LoopStep(c) /\ UNCHANGED ringVars)
        PROVE  UNCHANGED <<ringVars, taken>>
    BY <2>5 DEF PopCheck, Check, LoopStep, TestFlag, Wait, UseFreed
  <2>6. CASE ((Stop \/ Destroy) /\ UNCHANGED ringVars) \/ UNCHANGED vars
    <3>1. UNCHANGED <<ringVars, taken>>
      BY <2>6
      DEF Stop, Destroy, SetShutdown, Broadcast, Free, Join, EndGoes, vars, threadVars
    <3> QED BY <2>3, <3>1
  <2>7. ASSUME NEW p \in Producers, Producer(p)
        PROVE  Channel!Next \/ UNCHANGED <<InTransit, taken>>
    BY <2>1, <2>3, <2>4, <2>7 DEF Producer
  <2>8. ASSUME NEW c \in Consumers, Consumer(c)
        PROVE  Channel!Next \/ UNCHANGED <<InTransit, taken>>
    BY <2>2, <2>3, <2>5, <2>8 DEF Consumer
  <2>9. CASE UNCHANGED vars
    BY <2>6, <2>9
  <2> QED BY <2>6, <2>7, <2>8, <2>9 DEF Next, Ending
<1> QED
  BY <1>1, <1>2, InvariantHolds, PTL DEF Spec, ImplementsChannel, Channel!Spec, InTransit, Requests
=============================================================================
