-------------------------------- MODULE LFU --------------------------------
(***************************************************************************)
(* The least-frequently-used queue with ageing (src/utility/lfu.c): a list  *)
(* of frequency nodes, each with the list of the keys that have its         *)
(* frequency, and an index of the keys.  A key's node (pFreqHead) is the    *)
(* node whose list the key is in; a node is known by its place in freqQ.    *)
(***************************************************************************)
EXTENDS Integers, Sequences, FiniteSets, SequencesExt

CONSTANT Key

VARIABLES freqQ,       \* sequence of nodes [freq, items], lists head first
          lfuIndexer,  \* the keys of the index
          age

lfuVars == <<freqQ, lfuIndexer, age>>

\* The node that holds key, and the key's frequency in the queue.
NodeOf(key) == CHOOSE i \in DOMAIN freqQ : key \in ToSet(freqQ[i].items)

Priority(key) == freqQ[NodeOf(key)].freq

\* Faulty: an emptied node stays.
DetachOnly(key) ==
    LET i == NodeOf(key) IN [freqQ EXCEPT ![i].items = RemoveFirst(@, key)]

\* list_del_init of the item, and DeleteFreqNode when it was the node's last.
Detach(key) ==
    LET i    == NodeOf(key)
        rest == RemoveFirst(freqQ[i].items, key)
    IN  IF rest = <<>> THEN RemoveAt(freqQ, i) ELSE [freqQ EXCEPT ![i].items = rest]

\* Faulty: stops only at a higher frequency, and makes a second node for its own.
StopsBeyond(freq, priority) == freq > priority

StopsAt(freq, priority) == freq >= priority

\* The search goes from the node after start (0 for the list head) to the first
\* node of at least that priority, or to the list head.
Search(q, start, priority) ==
    LET stops == {j \in start + 1 .. Len(q) : StopsAt(q[j].freq, priority)}
    IN  IF stops = {} THEN Len(q) + 1 ELSE CHOOSE j \in stops : \A i \in stops : j <= i

\* Faulty: joins the end that is evicted first.
JoinTail(items, key) == Append(items, key)

Join(items, key) == Cons(key, items)

\* key joins the node of its priority, or a new node in front of the next.
Attach(q, start, key, priority) ==
    LET j == Search(q, start, priority)
    IN  IF j <= Len(q) /\ q[j].freq = priority
        THEN [q EXCEPT ![j].items = Join(@, key)]
        ELSE InsertAt(q, j, [freq |-> priority, items |-> <<key>>])

\* Where the search for a known key starts: the node before its own.
Start(key) == NodeOf(key) - 1

PriorityOf(freq) == freq + age

Update(key, freq) ==
    LET priority == PriorityOf(freq)
    IN  IF key \notin lfuIndexer
        THEN /\ lfuIndexer' = lfuIndexer \cup {key}
             /\ freqQ' = Attach(freqQ, 0, key, priority)
             /\ UNCHANGED age
        ELSE /\ freqQ' = IF Priority(key) = priority THEN freqQ
                         ELSE Attach(Detach(key), Start(key), key, priority)
             /\ UNCHANGED <<lfuIndexer, age>>

\* The key that Evict takes, and its asserts.
Victim == Last(freqQ[1].items)

EvictAsserts == freqQ # <<>> /\ freqQ[1].items # <<>>

Evict ==
    /\ age' = freqQ[1].freq
    /\ freqQ' = Detach(Victim)
    /\ lfuIndexer' = lfuIndexer \ {Victim}

DeleteAsserts(key) == freqQ # <<>> /\ key \in lfuIndexer

DeleteKey(key) ==
    /\ lfuIndexer' = lfuIndexer \ {key}
    /\ freqQ' = Detach(key)
    /\ UNCHANGED age

InitLFU == freqQ = <<>> /\ lfuIndexer = {} /\ age = 0

-----------------------------------------------------------------------------

LFUTypeOK ==
    /\ freqQ \in Seq([freq : Nat, items : Seq(Key)])
    /\ lfuIndexer \subseteq Key
    /\ age \in Nat

\* One node per frequency, in ascending order, none without a key and none below
\* the age: the search and the eviction rest on it, and a key that comes in has at
\* least the standing of the last one that went out.
QueueIsSorted ==
    /\ \A i, j \in DOMAIN freqQ : i < j => freqQ[i].freq < freqQ[j].freq
    /\ \A i \in DOMAIN freqQ : freqQ[i].items # <<>> /\ age <= freqQ[i].freq

\* Each key of the index is in one node, once, and no other key is.
KeysAreQueuedOnce ==
    /\ lfuIndexer = UNION {ToSet(freqQ[i].items) : i \in DOMAIN freqQ}
    /\ \A i \in DOMAIN freqQ : IsInjective(freqQ[i].items)
    /\ \A i, j \in DOMAIN freqQ :
          i # j => ToSet(freqQ[i].items) \cap ToSet(freqQ[j].items) = {}
=============================================================================
