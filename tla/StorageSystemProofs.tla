-------------------------- MODULE StorageSystemProofs --------------------------
(***************************************************************************)
(* Proofs about StorageSystem: the two tiers and the tier-down between them *)
(* for any addresses, water level and batch size, whatever the host thread  *)
(* and the tier thread read of each other's globals.                        *)
(***************************************************************************)
EXTENDS StorageSystem, TLAPS, FiniteSetTheorems

-----------------------------------------------------------------------------
(* The inductive invariants.                                                *)

\* Within a write, from the tier's own write up to the delete of the old copies.
Writing == host \in {"wrote", "counted", "allocated", "deleting", "others"}

\* What is left of a tier-down: only while it deletes, addresses that the space
\* index still has and that the LFU queue gave up.
TodoOK ==
    /\ host # "deleting" => todo = {}
    /\ todo \subseteq stored[0] /\ todo \subseteq tieredDown
    /\ todo \cap ranked = {}

\* The page that is written stays where it went until the old copies are deleted,
\* unless the write's own tier-down took it.
WrittenPageIsThere == Writing => lba \in stored[layer] \cup tieredDown

\* During a write, the address that is written may be a double as well.
DoublesAreKnown ==
    stored[0] \cap stored[1] \subseteq late \cup (IF Writing THEN {lba} ELSE {})

\* All of it.
TiersInv == TodoOK /\ RankedAreStored /\ WrittenPageIsThere /\ DoublesAreKnown

-----------------------------------------------------------------------------
(* Counts.                                                                  *)

\* A set of addresses has at most as many members as there are addresses.
LEMMA SubsetCount ==
    ASSUME NEW V \in SUBSET LBA
    PROVE  IsFiniteSet(V) /\ Cardinality(V) \in 0 .. Cardinality(LBA)
<1>1. IsFiniteSet(LBA)
  BY StorageAssumption
<1>2. IsFiniteSet(V) /\ Cardinality(V) <= Cardinality(LBA)
  BY <1>1, FS_Subset
<1>3. Cardinality(V) \in Nat /\ Cardinality(LBA) \in Nat
  BY <1>1, <1>2, FS_CardinalityType
<1> QED BY <1>2, <1>3

\* What a tier-down counts is no more than tier 0 holds, and at least one batch.
LEMMA PageCntBound ==
    ASSUME stored \in [Tiers -> SUBSET LBA], Cardinality(stored[0]) >= tierDownWL
    PROVE  PageCnt \in 1 .. Cardinality(stored[0]) /\ PageCnt \in 0 .. Cardinality(LBA)
<1>1. stored[0] \in SUBSET LBA
  BY DEF Tiers
<1>2. Cardinality(stored[0]) \in 0 .. Cardinality(LBA) /\ Cardinality(LBA) \in Nat
  BY <1>1, SubsetCount, StorageAssumption, FS_CardinalityType
<1> QED BY <1>2, StorageAssumption DEF PageCnt

-----------------------------------------------------------------------------
(* Every step keeps the types.                                              *)

\* The host thread's steps.
LEMMA HostTypes ==
    ASSUME TypeOK, HostStep
    PROVE  TypeOK'
<1> USE DEF TypeOK, HostAt, HostGoes, tierVars, globals, hostVars, threadVars, mainVars
<1>0. 0 \in 0 .. Cardinality(LBA)
  BY StorageAssumption, FS_CardinalityType
<1>1. ASSUME NEW l \in LBA, NEW k \in Tiers, WriteHostIO(l, k) PROVE TypeOK'
  BY <1>1 DEF WriteHostIO, Tiers
<1>2. CASE SkipTierDown
  BY <1>2 DEF SkipTierDown
<1>3. CASE CountPages
  BY <1>3, PageCntBound DEF CountPages
<1>4. CASE AllocatePages
  <2>1. PICK b \in Batches : /\ g_tierDownPages' = b
                            /\ batch' = [Reachable(batch, {tierPages}) EXCEPT ![b] = {}]
    BY <1>4 DEF AllocatePages
  <2>2. batch' \in [Batches -> SUBSET LBA]
    BY <2>1 DEF Reachable
  <2> QED BY <1>4, <2>1, <2>2 DEF AllocatePages
<1>5. CASE FillPages
  <2>1. PICK V \in SUBSET ranked :
          /\ batch' = IF V = {} THEN batch ELSE [batch EXCEPT ![g_tierDownPages] = V]
          /\ ranked' = ranked \ V /\ todo' = V /\ tieredDown' = tieredDown \cup V
    BY <1>5 DEF FillPages
  <2>2. batch' \in [Batches -> SUBSET LBA]
    BY <2>1
  <2>3. todo' \in SUBSET LBA /\ ranked' \in SUBSET LBA /\ tieredDown' \in SUBSET LBA
    BY <2>1
  <2> QED BY <1>5, <2>2, <2>3 DEF FillPages
<1>6. CASE FillCrashes \/ DeleteCrashes \/ DeleteDataCrashes
  <2>1. Crash
    BY <1>6 DEF FillCrashes, DeleteCrashes, DeleteDataCrashes
  <2> QED BY <2>1 DEF Crash
<1>7. CASE DeletePage
  BY <1>7 DEF DeletePage, Tiers
<1>8. CASE EndTierDown
  BY <1>8 DEF EndTierDown
<1>9. CASE DeleteData
  BY <1>9 DEF DeleteData, Forget
<1>10. CASE SeesNoPages \/ Signal
  BY <1>10 DEF SeesNoPages, Signal, Return, Wakeup, Tiers
<1>11. CASE SeesPages
  BY <1>11 DEF SeesPages
<1> QED
  BY <1>1, <1>2, <1>3, <1>4, <1>5, <1>6, <1>7, <1>8, <1>9, <1>10, <1>11
  DEF HostStep, TierDownStep

\* The tier thread's steps.
LEMMA ThreadTypes ==
    ASSUME TypeOK, ThreadStep
    PROVE  TypeOK'
<1> USE DEF TypeOK, ThreadAt, ThreadGoes, tierVars, globals, hostVars, threadVars, mainVars
<1>0. 0 \in 0 .. Cardinality(LBA)
  BY StorageAssumption, FS_CardinalityType
<1>1. CASE TestRunning
  BY <1>1 DEF TestRunning
<1>2. CASE Wait
  BY <1>2 DEF Wait
<1>3. CASE CopyPages
  BY <1>3 DEF CopyPages
<1>4. CASE CopyPageCnt
  BY <1>4 DEF CopyPageCnt
<1>5. CASE ClearPages
  BY <1>5 DEF ClearPages, Reachable
<1>6. CASE ClearPageCnt
  BY <1>0, <1>6 DEF ClearPageCnt
<1>7. CASE SkipBatch \/ EndBatch
  BY <1>0, <1>7 DEF SkipBatch, EndBatch, EndTurn, Reachable
<1>8. CASE TakeBatch
  <2>1. GivenPages \subseteq SUBSET LBA
    BY DEF GivenPages
  <2> QED BY <1>8, <2>1 DEF TakeBatch
<1>9. CASE TakeCrashes
  BY <1>9 DEF TakeCrashes, Crash
<1>10. CASE WriteTierDownIO
  BY <1>10 DEF WriteTierDownIO, Tiers
<1> QED
  BY <1>1, <1>2, <1>3, <1>4, <1>5, <1>6, <1>7, <1>8, <1>9, <1>10 DEF ThreadStep

\* Type correctness: StorageSystem's TypeOK holds for every number of addresses; a
\* count of pages, also one that the tier thread read on the way, is never more
\* than there are.
THEOREM TypeCorrect == Spec => []TypeOK
<1>1. Init => TypeOK
  <2>1. 0 \in 0 .. Cardinality(LBA)
    BY StorageAssumption, FS_CardinalityType
  <2> QED BY <2>1 DEF Init, TypeOK, Tiers
<1>2. TypeOK /\ [Next]_vars => TypeOK'
  <2> SUFFICES ASSUME TypeOK, [Next]_vars PROVE TypeOK'
    OBVIOUS
  <2> USE DEF TypeOK, tierVars, globals, hostVars, threadVars, mainVars
  <2>1. CASE HostStep
    BY <2>1, HostTypes
  <2>2. CASE ThreadStep
    BY <2>2, ThreadTypes
  <2>3. CASE StopHost \/ EndStep
    <3>1. CASE StopHost
      BY <3>1 DEF StopHost, MainGoes
    <3>2. CASE ClearRunning
      BY <3>2 DEF ClearRunning, MainGoes
    <3>3. CASE SignalEnd
      BY <3>3 DEF SignalEnd, MainGoes, Wakeup
    <3>4. CASE JoinTierThread
      BY <3>4 DEF JoinTierThread, MainGoes
    <3> QED BY <2>3, <3>1, <3>2, <3>3, <3>4 DEF EndStep
  <2>4. ASSUME NEW l \in LBA, ReadHostIO(l) PROVE TypeOK'
    BY <2>4 DEF ReadHostIO, Crash
  <2>5. CASE UNCHANGED vars
    BY <2>5 DEF vars
  <2> QED BY <2>1, <2>2, <2>3, <2>4, <2>5 DEF Next
<1> QED BY <1>1, <1>2, PTL DEF Spec

-----------------------------------------------------------------------------
(* What the tiers hold, step by step.                                       *)

\* A step that leaves the tiers alone, that of the host thread within its part of
\* the write.
LEMMA TiersLeftAlone ==
    ASSUME TiersInv, UNCHANGED <<stored, ranked, lba, layer, todo, tieredDown, late>>,
           Writing' = Writing, host' = "deleting" \/ todo = {}
    PROVE  TiersInv'
BY DEF TiersInv, TodoOK, RankedAreStored, WrittenPageIsThere, DoublesAreKnown

\* The host thread's write up to the end of its tier-down.
LEMMA TierDownKeepsTiers ==
    ASSUME TypeOK, TiersInv, TierDownStep
    PROVE  TiersInv'
<1> USE DEF HostAt, HostGoes, tierVars, globals, threadVars, mainVars
<1>1. CASE SkipTierDown \/ CountPages \/ AllocatePages
  <2>1. Writing /\ Writing' /\ todo = {}
    BY <1>1 DEF SkipTierDown, CountPages, AllocatePages, Writing, TiersInv, TodoOK
  <2> QED
    BY <1>1, <2>1, TiersLeftAlone DEF SkipTierDown, CountPages, AllocatePages
<1>2. CASE FillPages
  <2>1. PICK V \in SUBSET ranked : /\ ranked' = ranked \ V /\ todo' = V
                                   /\ tieredDown' = tieredDown \cup V
    BY <1>2 DEF FillPages
  <2>2. Writing /\ Writing' /\ host' = "deleting" /\ UNCHANGED <<stored, lba, layer, late>>
    BY <1>2 DEF FillPages, Writing
  <2> QED
    BY <2>1, <2>2
    DEF TiersInv, TodoOK, RankedAreStored, WrittenPageIsThere, DoublesAreKnown
<1>3. CASE DeletePage
  <2>1. PICK l \in todo : /\ stored' = [stored EXCEPT ![0] = @ \ {l}]
                          /\ todo' = todo \ {l}
    BY <1>3 DEF DeletePage
  <2>2. /\ Writing /\ Writing' /\ host' = "deleting"
        /\ UNCHANGED <<ranked, lba, layer, tieredDown, late>>
    BY <1>3 DEF DeletePage, Writing
  <2>3. stored'[0] = stored[0] \ {l} /\ stored'[1] = stored[1]
    BY <2>1 DEF TypeOK, Tiers
  <2>4. TodoOK' /\ RankedAreStored'
    BY <2>1, <2>2, <2>3 DEF TiersInv, TodoOK, RankedAreStored
  <2>5. WrittenPageIsThere'
    BY <2>1, <2>2, <2>3
    DEF TiersInv, TodoOK, WrittenPageIsThere, TypeOK, Tiers
  <2>6. DoublesAreKnown'
    BY <2>2, <2>3 DEF TiersInv, DoublesAreKnown
  <2> QED BY <2>4, <2>5, <2>6 DEF TiersInv
<1>4. CASE EndTierDown
  <2>1. Writing /\ Writing' /\ todo' = {} /\ host' = "others"
    BY <1>4 DEF EndTierDown, Writing
  <2> QED
    BY <1>4, <2>1
    DEF EndTierDown, TiersInv, TodoOK, RankedAreStored, WrittenPageIsThere, DoublesAreKnown
<1>5. CASE FillCrashes \/ DeleteCrashes
  BY <1>5
  DEF FillCrashes, DeleteCrashes, Crash, hostVars, TiersInv, TodoOK, RankedAreStored,
      WrittenPageIsThere, DoublesAreKnown, Writing
<1> QED BY <1>1, <1>2, <1>3, <1>4, <1>5 DEF TierDownStep

\* The host thread's own write and the delete of the old copies.
LEMMA WriteKeepsTiers ==
    ASSUME TypeOK, TiersInv, NEW l \in LBA, NEW k \in Tiers, WriteHostIO(l, k)
    PROVE  TiersInv'
<1>1. /\ todo = {} /\ todo' = {} /\ Writing' /\ host' = "wrote" /\ ~Writing
      /\ lba' = l /\ layer' = k /\ tieredDown' = tieredDown \ {l} /\ late' = late
  BY DEF WriteHostIO, HostAt, Writing, TiersInv, TodoOK
<1>2. /\ stored' = [stored EXCEPT ![k] = @ \cup {l}]
      /\ ranked' = IF k = 0 THEN ranked \cup {l} ELSE ranked
  BY DEF WriteHostIO
<1>3. /\ stored'[k] = stored[k] \cup {l}
      /\ \A i \in Tiers \ {k} : stored'[i] = stored[i]
  BY <1>2 DEF TypeOK
<1>4. TodoOK' /\ RankedAreStored'
  BY <1>1, <1>2, <1>3 DEF TodoOK, RankedAreStored, TiersInv, Tiers
<1>5. WrittenPageIsThere'
  BY <1>1, <1>3 DEF WrittenPageIsThere
<1>6. DoublesAreKnown'
  BY <1>1, <1>3 DEF DoublesAreKnown, TiersInv, Tiers
<1> QED BY <1>4, <1>5, <1>6 DEF TiersInv

\* The delete of the old copy: the new one is in the tier that was written.
LEMMA DeleteKeepsTiers ==
    ASSUME TypeOK, TiersInv, DeleteData
    PROVE  TiersInv'
<1>1. /\ todo = {} /\ todo' = {} /\ ~Writing' /\ Writing /\ host' = "test"
      /\ UNCHANGED <<lba, layer, tieredDown>> /\ late' = late \ {lba}
  BY DEF DeleteData, HostAt, HostGoes, Writing, TiersInv, TodoOK
<1>2. CASE layer = 0
  <2>1. stored'[0] = stored[0] /\ stored'[1] = stored[1] \ {lba} /\ ranked' = ranked
    BY <1>2 DEF DeleteData, OtherTiers, Forget, Tiers
  <2> QED
    BY <1>1, <2>1
    DEF TiersInv, TodoOK, RankedAreStored, WrittenPageIsThere, DoublesAreKnown
<1>3. CASE layer = 1
  <2>1. /\ stored'[0] = stored[0] \ {lba} /\ stored'[1] = stored[1]
        /\ ranked' = ranked \ {lba}
    BY <1>3 DEF DeleteData, OtherTiers, Forget, Tiers
  <2> QED
    BY <1>1, <2>1
    DEF TiersInv, TodoOK, RankedAreStored, WrittenPageIsThere, DoublesAreKnown
<1> QED BY <1>2, <1>3 DEF TypeOK, Tiers

\* All that the host thread does.
LEMMA HostKeepsTiers ==
    ASSUME TypeOK, TiersInv, HostStep
    PROVE  TiersInv'
<1> USE DEF HostAt, tierVars, globals, threadVars, mainVars
<1>1. CASE DeleteDataCrashes
  BY <1>1
  DEF DeleteDataCrashes, Crash, hostVars, TiersInv, TodoOK, RankedAreStored,
      WrittenPageIsThere, DoublesAreKnown, Writing
<1>2. CASE SeesNoPages \/ SeesPages \/ Signal
  <2>1. /\ ~Writing /\ ~Writing' /\ host' # "deleting" /\ todo = {} /\ todo' = {}
        /\ UNCHANGED <<stored, ranked, tieredDown, late>>
    BY <1>2
    DEF SeesNoPages, SeesPages, Signal, Return, HostGoes, Writing, TiersInv, TodoOK
  <2> QED
    BY <2>1 DEF TiersInv, TodoOK, RankedAreStored, WrittenPageIsThere, DoublesAreKnown
<1> QED
  BY <1>1, <1>2, TierDownKeepsTiers, WriteKeepsTiers, DeleteKeepsTiers DEF HostStep

\* All that the tier thread does: only its writes to tier 1 touch the tiers, and
\* those over an address of tier 0 are late.
LEMMA ThreadKeepsTiers ==
    ASSUME TypeOK, TiersInv, ThreadStep
    PROVE  TiersInv'
<1> USE DEF ThreadAt, ThreadGoes, tierVars, hostVars, mainVars
<1>1. CASE WriteTierDownIO
  <2>1. PICK l \in toWrite : /\ stored' = [stored EXCEPT ![1] = @ \cup {l}]
                             /\ late' = IF l \in stored[0] THEN late \cup {l} ELSE late
    BY <1>1 DEF WriteTierDownIO
  <2>2. stored'[0] = stored[0] /\ stored'[1] = stored[1] \cup {l}
    BY <2>1 DEF TypeOK, Tiers
  <2>3. UNCHANGED <<ranked, host, lba, layer, todo, tieredDown>> /\ Writing' = Writing
    BY <1>1 DEF WriteTierDownIO, Writing
  <2>4. TodoOK' /\ RankedAreStored'
    BY <2>2, <2>3 DEF TiersInv, TodoOK, RankedAreStored
  <2>5. WrittenPageIsThere'
    BY <2>2, <2>3 DEF TiersInv, WrittenPageIsThere, TypeOK, Tiers
  <2>6. DoublesAreKnown'
    BY <2>1, <2>2, <2>3 DEF TiersInv, DoublesAreKnown
  <2> QED BY <2>4, <2>5, <2>6 DEF TiersInv
<1>2. CASE ~WriteTierDownIO
  <2>1. UNCHANGED <<stored, ranked, host, lba, layer, todo, tieredDown, late>>
    BY <1>2
    DEF ThreadStep, TestRunning, Wait, CopyPages, CopyPageCnt, ClearPages, ClearPageCnt,
        SkipBatch, TakeBatch, TakeCrashes, EndBatch, EndTurn, Crash
  <2> QED
    BY <2>1
    DEF TiersInv, TodoOK, RankedAreStored, WrittenPageIsThere, DoublesAreKnown, Writing
<1> QED BY <1>1, <1>2

-----------------------------------------------------------------------------
(* The theorems.                                                            *)

\* The invariant holds in every behaviour.
LEMMA TiersCorrect == Spec => []TiersInv
<1>1. Init => TiersInv
  BY DEF Init, TiersInv, TodoOK, RankedAreStored, WrittenPageIsThere, DoublesAreKnown,
         Writing, Tiers
<1>2. TypeOK /\ TiersInv /\ [Next]_vars => TiersInv'
  <2> SUFFICES ASSUME TypeOK, TiersInv, [Next]_vars PROVE TiersInv'
    OBVIOUS
  <2> USE DEF tierVars, hostVars
  <2>1. CASE HostStep
    BY <2>1, HostKeepsTiers
  <2>2. CASE ThreadStep
    BY <2>2, ThreadKeepsTiers
  <2>3. CASE StopHost \/ EndStep \/ (\E l \in LBA : ReadHostIO(l)) \/ UNCHANGED vars
    <3>1. UNCHANGED <<stored, ranked, host, lba, layer, todo, tieredDown, late>>
      BY <2>3
      DEF StopHost, EndStep, ClearRunning, SignalEnd, JoinTierThread, MainGoes, ReadHostIO,
          Crash, vars
    <3> QED
      BY <3>1
      DEF TiersInv, TodoOK, RankedAreStored, WrittenPageIsThere, DoublesAreKnown, Writing
  <2> QED BY <2>1, <2>2, <2>3 DEF Next
<1> QED BY <1>1, <1>2, TypeCorrect, PTL DEF Spec

\* StorageSystem's RankedAreStored: every page that the LFU queue may give up for
\* tier-down is in the space index that it will be deleted from, however the tier
\* thread cuts the deletes short through the count that it clears.
THEOREM RankedAreStoredHolds == Spec => []RankedAreStored
<1>1. TiersInv => RankedAreStored
  BY DEF TiersInv
<1> QED BY <1>1, TiersCorrect, PTL

\* StorageSystem's DoublesComeFromLateBatches: after a write returns, an address is
\* in both tiers only if the tier thread wrote it down over a copy of tier 0.
THEOREM DoublesComeFromLateBatchesHolds == Spec => []DoublesComeFromLateBatches
<1>1. TiersInv => DoublesComeFromLateBatches
  BY DEF TiersInv, DoublesAreKnown, DoublesComeFromLateBatches, Writing
<1> QED BY <1>1, TiersCorrect, PTL

\* StorageSystem's OnlyTierDownDrops: the delete of old copies that ends a write
\* never takes the last one; an address that no tier has any more went down with a
\* batch.
THEOREM OnlyTierDownDropsHolds == Spec => OnlyTierDownDrops
<1> DEFINE Dropped == (stored[0] \cup stored[1]) \ (stored'[0] \cup stored'[1])
<1>1. TypeOK /\ TiersInv /\ [Next]_vars => [Dropped \subseteq tieredDown]_vars
  <2> SUFFICES ASSUME TypeOK, TiersInv, [Next]_vars PROVE Dropped \subseteq tieredDown
    OBVIOUS
  <2> USE DEF tierVars
  <2>1. CASE DeletePage
    <3>1. PICK l \in todo : stored' = [stored EXCEPT ![0] = @ \ {l}]
      BY <2>1 DEF DeletePage
    <3>2. stored'[0] = stored[0] \ {l} /\ stored'[1] = stored[1]
      BY <3>1 DEF TypeOK, Tiers
    <3> QED BY <3>2 DEF TiersInv, TodoOK
  <2>2. CASE DeleteData
    <3>1. lba \in stored[layer] \cup tieredDown /\ layer \in {0, 1}
      BY <2>2
      DEF DeleteData, HostAt, TiersInv, WrittenPageIsThere, Writing, TypeOK, Tiers
    <3>2. \A k \in {0, 1} : stored'[k] = IF k = layer THEN stored[k] ELSE stored[k] \ {lba}
      BY <2>2 DEF DeleteData, OtherTiers, Tiers
    <3> QED BY <3>1, <3>2
  <2>3. ASSUME NEW l \in LBA, NEW k \in Tiers, WriteHostIO(l, k)
        PROVE  Dropped \subseteq tieredDown
    BY <2>3 DEF WriteHostIO, TypeOK, Tiers
  <2>4. CASE WriteTierDownIO
    BY <2>4 DEF WriteTierDownIO, TypeOK, Tiers
  <2>5. CASE UNCHANGED stored
    BY <2>5
  <2>6. CASE StopHost \/ EndStep \/ (\E l \in LBA : ReadHostIO(l)) \/ UNCHANGED vars
    BY <2>5, <2>6
    DEF StopHost, EndStep, ClearRunning, SignalEnd, JoinTierThread, MainGoes, ReadHostIO,
        Crash, vars
  <2>7. CASE HostStep
    BY <2>1, <2>2, <2>3, <2>5, <2>7
    DEF HostStep, TierDownStep, SkipTierDown, CountPages, AllocatePages, FillPages, FillCrashes,
        DeleteCrashes, EndTierDown, DeleteDataCrashes, SeesNoPages, SeesPages, Signal, Return,
        Crash
  <2>8. CASE ThreadStep
    BY <2>4, <2>5, <2>8
    DEF ThreadStep, TestRunning, Wait, CopyPages, CopyPageCnt, ClearPages, ClearPageCnt,
        SkipBatch, TakeBatch, TakeCrashes, EndBatch, EndTurn, Crash
  <2> QED BY <2>6, <2>7, <2>8 DEF Next
<1> QED BY <1>1, TypeCorrect, TiersCorrect, PTL DEF Spec, OnlyTierDownDrops
=============================================================================
