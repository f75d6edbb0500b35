----------------------------- MODULE TierModule -----------------------------
(***************************************************************************)
(* The access frequencies of the pages of one tier (src/base/tier_module.c) *)
(* over the LFU queue, with the calls that LayerModule makes on them, each  *)
(* in the host's thread: host writes and reads, the delete of an address    *)
(* whose new copy went to the other tier, and the tier-down that ends a     *)
(* write, page by page.  The lower tier takes the pages that come down.     *)
(*                                                                          *)
(* The layer measures a batch, and guards a delete, by the space index of   *)
(* its GC module, of which only the keys matter here.  The thread that      *)
(* takes a batch may clear its count while the layer still deletes the      *)
(* batch from that index: the tier-down is cut short, and pages are left    *)
(* that are stored but no longer ranked.                                    *)
(*                                                                          *)
(* An assert of the LFU queue that fails ends the process (infracture.h has *)
(* its own assert, which exits in every build): "fault".  The ASSERTs of    *)
(* the tier and the layer only print.                                       *)
(***************************************************************************)
EXTENDS LFU

CONSTANTS tierDownWL,     \* pages; at or above it a write may tier down
          tierDownCnt,    \* tierDownBlockCnt * PAGE_NUM_PER_BLOCK
          MaxFreq,        \* bound of the checked counters
          MaxAge          \* bound of the age a tier-down starts from

\* 1% of the blocks go down at a water level of many.
ASSUME TierDownAssumption ==
    tierDownWL \in Nat /\ tierDownCnt \in 1 .. tierDownWL

VARIABLES lower,            \* this is the tier below, which never tiers down
          pageFreqIndexer,  \* partial function: key -> [readFreq, writeFreq]
          pc,               \* idle, written, tierdown, deleted, fault
          pageCnt,          \* pages that the tier-down has still to evict
          pages,            \* those it has evicted
          spaceIndex,       \* the keys of the GC module's index
          left              \* history: pages a tier-down cut short left behind

tierVars == <<pc, pageCnt, pages>>
layerVars == <<spaceIndex, left>>
vars == <<lower, lfuVars, pageFreqIndexer, tierVars, layerVars>>

Stored == DOMAIN pageFreqIndexer

\* 0.7 * reads + 0.3 * writes in binary floating point, truncated.  These are
\* the frequencies up to 11 where the sum comes out just below an integer.
LostToRounding == {<<3, 3>>, <<6, 6>>, <<11, 1>>}

\* Faulty: per access.
FrequencyPerAccess(f) ==
    (7 * f.readFreq + 3 * f.writeFreq) \div (f.readFreq + f.writeFreq)

Frequency(f) ==
    (7 * f.readFreq + 3 * f.writeFreq) \div 10
      - (IF <<f.readFreq, f.writeFreq>> \in LostToRounding THEN 1 ELSE 0)

Count(key, f) == [k \in Stored \cup {key} |-> IF k = key THEN f ELSE pageFreqIndexer[k]]

\* Faulty: the page stays in the frequency index.
ForgetNothing(key) == pageFreqIndexer

Forget(key) == [k \in Stored \ {key} |-> pageFreqIndexer[k]]

\* Faulty: ranks the page by its frequency before the access.
UpdateLFUTooEarly(key, f) ==
    Update(key, IF key \in Stored THEN Frequency(pageFreqIndexer[key]) ELSE 0)

UpdateLFU(key, f) == Update(key, Frequency(f))

\* The layer writes the page: its GC module has it, and it is ranked (again).
Hold(key) == spaceIndex' = spaceIndex \cup {key} /\ left' = left \ {key}

Fault ==
    /\ pc' = "fault"
    /\ UNCHANGED <<lfuVars, pageFreqIndexer, pageCnt, pages, layerVars>>

\* A host write.  The history that the layers are asked for never arrives, so a
\* new page starts from zero.
WriteIO(key) ==
    LET old == IF key \in Stored THEN pageFreqIndexer[key]
                                 ELSE [readFreq |-> 0, writeFreq |-> 0]
        new == [old EXCEPT !.writeFreq = @ + 1]
    IN  /\ pc = "idle"
        /\ old.writeFreq < MaxFreq
        /\ pageFreqIndexer' = Count(key, new)
        /\ UpdateLFU(key, new)
        /\ Hold(key)
        /\ pc' = "written"
        /\ UNCHANGED <<pageCnt, pages>>

\* A page of a tier-down batch comes with its counters, which is no access.  A
\* page that is here already keeps its own.
WriteTierDownIO(key, f) ==
    LET new == IF key \in Stored THEN pageFreqIndexer[key] ELSE f
    IN  /\ pc = "idle" /\ lower
        /\ pageFreqIndexer' = Count(key, new)
        /\ UpdateLFU(key, new)
        /\ Hold(key)
        /\ UNCHANGED tierVars

\* For a page that is not ranked the tier answers with an error and changes
\* nothing; the layer's space index ended the process for one it does not hold.
ReadHostIO(key) ==
    /\ pc = "idle"
    /\ key \in Stored
    /\ pageFreqIndexer[key].readFreq < MaxFreq
    /\ LET new == [pageFreqIndexer[key] EXCEPT !.readFreq = @ + 1]
       IN  pageFreqIndexer' = Count(key, new) /\ UpdateLFU(key, new)
    /\ UNCHANGED <<tierVars, layerVars>>

\* The layer deletes what its space index holds, ranked or not: from that index
\* first, then from the tier.
DeleteData(key) ==
    /\ pc = "idle"
    /\ key \in spaceIndex
    /\ IF DeleteAsserts(key)
       THEN /\ DeleteKey(key)
            /\ pageFreqIndexer' = Forget(key)
            /\ spaceIndex' = spaceIndex \ {key}
            /\ UNCHANGED <<tierVars, left>>
       ELSE Fault

\* Faulty: always a full batch more than there is above the water level.
PageCntUnbounded == Cardinality(spaceIndex) + tierDownCnt

\* Faulty: the difference the wrong way round.
PageCntSwapped == tierDownWL - Cardinality(spaceIndex)

\* HandleTierDown's batch, from getLogicalSizeOccupied.
PageCnt == Cardinality(spaceIndex) - tierDownWL + tierDownCnt

\* TierDownCondition; the tier queue of the disk, which it also asks, is
\* outside this module.  The water level of the lower tier is never reached.
StartTierDown ==
    /\ pc = "written" /\ ~lower
    /\ Cardinality(spaceIndex) >= tierDownWL
    /\ age <= MaxAge
    /\ pc' = "tierdown"
    /\ pageCnt' = PageCnt
    /\ UNCHANGED <<lfuVars, pageFreqIndexer, pages, layerVars>>

\* No tier-down, or one whose count was cleared before the queue was asked: it
\* evicts and deletes nothing.
EndWrite ==
    /\ pc = "written"
    /\ pc' = "idle"
    /\ UNCHANGED <<lfuVars, pageFreqIndexer, pageCnt, pages, layerVars>>

\* One turn of TierDown's loop, with its asserts.
EvictPage ==
    /\ pc = "tierdown" /\ pageCnt > 0
    /\ IF EvictAsserts /\ Victim \in Stored
       THEN /\ Evict
            /\ pages' = Append(pages, [lba |-> Victim, freq |-> pageFreqIndexer[Victim]])
            /\ pageFreqIndexer' = Forget(Victim)
            /\ pageCnt' = pageCnt - 1
            /\ UNCHANGED <<pc, layerVars>>
       ELSE Fault

Lbas(I) == {pages[i].lba : i \in I}

\* The layer deletes the batch from its space index.
DeletePages ==
    /\ pc = "tierdown" /\ pageCnt = 0
    /\ pc' = "deleted"
    /\ spaceIndex' = spaceIndex \ Lbas(DOMAIN pages)
    /\ UNCHANGED <<lfuVars, pageFreqIndexer, pageCnt, pages, left>>

\* The loop's bound is *pageCnt, read in each turn: TierDownThread has cleared it
\* after n pages.  (StorageSystem has the crash on a cleared *pages.)
CutTierDownShort ==
    /\ pc = "tierdown" /\ pageCnt = 0
    /\ \E n \in 0 .. Len(pages) - 1 :
          /\ spaceIndex' = spaceIndex \ Lbas(1 .. n)
          /\ left' = left \cup Lbas(n + 1 .. Len(pages))
    /\ pc' = "idle" /\ pages' = <<>>
    /\ UNCHANGED <<lfuVars, pageFreqIndexer, pageCnt>>

\* The whole batch is deleted: its last ASSERT, and the return.
EndTierDown ==
    /\ pc = "deleted"
    /\ pc' = "idle" /\ pages' = <<>>
    /\ UNCHANGED <<lfuVars, pageFreqIndexer, pageCnt, layerVars>>

Init ==
    /\ lower \in BOOLEAN
    /\ InitLFU
    /\ pageFreqIndexer = <<>>
    /\ pc = "idle" /\ pageCnt = 0 /\ pages = <<>>
    /\ spaceIndex = {} /\ left = {}

\* Of a page that the host wrote at least once.
PageFreq == [readFreq : 0 .. MaxFreq, writeFreq : 1 .. MaxFreq]

Next ==
    /\ \/ \E key \in Key : WriteIO(key) \/ ReadHostIO(key) \/ DeleteData(key)
       \/ \E key \in Key, f \in PageFreq : WriteTierDownIO(key, f)
       \/ StartTierDown \/ EndWrite \/ EvictPage
       \/ DeletePages \/ CutTierDownShort \/ EndTierDown
    /\ UNCHANGED lower

Spec == Init /\ [][Next]_vars

-----------------------------------------------------------------------------

\* Every variable stays within its values.
TypeOK ==
    /\ LFUTypeOK /\ lower \in BOOLEAN
    /\ Stored \subseteq Key
    /\ \A key \in Stored : pageFreqIndexer[key] \in [readFreq : Nat, writeFreq : Nat]
    /\ pc \in {"idle", "written", "tierdown", "deleted", "fault"}
    /\ pageCnt \in Nat
    /\ pages \in Seq([lba : Key, freq : [readFreq : Nat, writeFreq : Nat]])
    /\ spaceIndex \subseteq Key /\ left \subseteq Key

\* The pages that the batch of tier_module.c:85-102 holds and nothing else ranks.
InTransit == IF pc \in {"tierdown", "fault"} THEN Lbas(DOMAIN pages) ELSE {}

\* Queue and frequency index have the same pages, each of them once in the list; and
\* the space index has these and, besides them, only what a tier-down has evicted
\* and not yet deleted, or was kept from deleting.
IndexesAgree ==
    /\ lfuIndexer = Stored /\ KeysAreQueuedOnce
    /\ spaceIndex = Stored \cup left \cup InTransit
    /\ Stored \cap (left \cup InTransit) = {}

\* A page's place in the queue is its frequency plus an age of the queue, one
\* between zero and now: no page is ranked by more than its use and the ageing.
RankIsUsePlusAge ==
    \A key \in Stored :
        /\ Priority(key) >= Frequency(pageFreqIndexer[key])
        /\ Priority(key) <= Frequency(pageFreqIndexer[key]) + age

\* A page that stays in the tier is never ranked lower than before: the search
\* for its new place, which only looks ahead, can find it.
RankNeverFalls ==
    [][\A key \in lfuIndexer \cap lfuIndexer' : Priority(key)' >= Priority(key)]_vars

\* As long as no page is left behind by a tier-down that was cut short, no assert of
\* the LFU queue fails: there is always a page to evict, and one to delete where the
\* layer deletes.  And the ASSERT at layer_module.c:234 holds of every tier-down that
\* is not itself cut short, whatever others left: the layer ends at its water level
\* or below, without the pages of the batch, which are as many as were asked for.
TierDownMakesRoom ==
    /\ pc = "fault" => left # {}
    /\ pc = "deleted" =>
         /\ Cardinality(spaceIndex) <= tierDownWL
         /\ \A i, j \in DOMAIN pages : i # j => pages[i].lba # pages[j].lba
         /\ \A i \in DOMAIN pages : pages[i].lba \notin spaceIndex

-----------------------------------------------------------------------------
(* What the queue promises the tier: EvictionOrder.                         *)

\* The keys of a node's list that are evicted before key: those behind it.
Behind(items, key) ==
    {k \in ToSet(items) :
        \E m, n \in DOMAIN items : m < n /\ items[m] = key /\ items[n] = k}

Ahead(key) == Behind(freqQ[NodeOf(key)].items, key)

Priorities == [key \in lfuIndexer |-> Priority(key)]
Order == [key \in lfuIndexer |-> Ahead(key)]

Ranking == INSTANCE EvictionOrder WITH standing <- Priorities, ahead <- Order

\* Whatever is read, written, deleted and tiered down, the victims come in
\* EvictionOrder's order, and a step of the tier is one step of it or none.
ImplementsEvictionOrder == Ranking!Spec
=============================================================================
