------------------------------ MODULE GCModule ------------------------------
(***************************************************************************)
(* The flash translation layer of one tier (src/base/gc_module.c): blocks   *)
(* of pages, the free queue, the open host and GC blocks, the garbage       *)
(* buckets and the space index, with the calls that LayerModule makes on    *)
(* them.  WriteIO and Delete run to completion in the caller's thread and   *)
(* are one action each.  GarbageCollection also runs in that thread, but    *)
(* its list_for_each_safe loop changes the lists it walks, so it is         *)
(* modelled page by page and block by block.                                *)
(***************************************************************************)
EXTENDS Integers, Sequences, FiniteSets, SequencesExt

CONSTANTS LBA,                \* page-aligned logical addresses
          totalBlockCnt,      \* physical blocks of the tier
          PAGE_NUM_PER_BLOCK,
          GC_BUCKET_NUM,
          gcWL,               \* GC starts below this many free blocks
          gcStallWL,          \* at or below it a writer waits for the GC queue
          gcBlockCnt,         \* blocks that one GC recycles
          maxOccupied,        \* most addresses the tier holds at once
          NULL, WRITEABLE, INVALID

ASSUME GeometryAssumption ==
    /\ totalBlockCnt \in Nat \ {0}
    /\ GC_BUCKET_NUM \in Nat /\ GC_BUCKET_NUM > 1
    /\ PAGE_NUM_PER_BLOCK \in Nat \ {0}
    \* the divisor in GetCurBucketIdx
    /\ PAGE_NUM_PER_BLOCK \div (GC_BUCKET_NUM - 1) \in Nat \ {0}

ASSUME WaterLevelAssumption ==
    gcWL \in Nat /\ gcStallWL \in Nat /\ gcBlockCnt \in Nat \ {0} /\ maxOccupied \in Nat

ASSUME ValueAssumption ==
    /\ WRITEABLE \notin LBA /\ INVALID \notin LBA /\ WRITEABLE # INVALID
    /\ NULL \notin Int /\ NULL \notin Int \X Int

Blocks  == 0 .. totalBlockCnt - 1
Pages   == 0 .. PAGE_NUM_PER_BLOCK - 1
Buckets == 0 .. GC_BUCKET_NUM - 1
Locs    == Blocks \X Pages

VARIABLES
    \* the fields of each Block
    pages, blockStatus, pageCursor, garbageCnt, garbageWL,
    \* GCModuleData; a list is a sequence, its head first
    freeQ, buckets, blockCnt, hostBlock, gcBlock, spaceIndex,
    \* where the thread is, and the locals of GarbageCollection
    pc, recyleCnt, gcBucketIdx, cur, next, pageIdx,
    \* its output arrays, in the order they are filled
    eraseBlockId, readPageLoc, writePageLoc,
    \* history: the free blocks when the GC under way began
    freeBefore

blockVars == <<pages, blockStatus, pageCursor, garbageCnt, garbageWL>>
listVars  == <<freeQ, buckets, blockCnt>>
openVars  == <<hostBlock, gcBlock>>
walkVars  == <<recyleCnt, gcBucketIdx, cur, next, pageIdx>>
outVars   == <<eraseBlockId, readPageLoc, writePageLoc>>
histVars  == <<freeBefore>>
vars == <<blockVars, listVars, openVars, spaceIndex, pc, walkVars, outVars, histVars>>

-----------------------------------------------------------------------------
(* Operators on the lists and the index.                                   *)

Position(s, x) == CHOOSE i \in 1 .. Len(s) : s[i] = x

\* Faulty: takes the first element out, whichever was meant.
UnlinkFirst(s, x) == Tail(s)

\* list_del_init: s without its element x.
Unlink(s, x) == RemoveAt(s, Position(s, x))

\* The element after x, NULL when x is the last one (the list head is next).
After(s, x) == IF Position(s, x) = Len(s) THEN NULL ELSE s[Position(s, x) + 1]

\* spaceIndexer->query: the entries of key l.
Query(l) == {e[2] : e \in {f \in spaceIndex : f[1] = l}}

IsExist(l) == Query(l) # {}

\* Faulty: the old entry of the key stays beside the new one.
WithoutNothing(l) == spaceIndex

\* spaceIndexer->delete removes every entry of the key.
Without(l) == {e \in spaceIndex : e[1] # l}

GetLogicalSizeOccupied == Cardinality(spaceIndex)

\* Faulty: counts a block too many.
FreeBlockNumOneOff == Len(freeQ) + 1

GetFreeBlockNum == Len(freeQ)

\* Faulty: no limit to the last bucket.
BucketIdxUncapped(cnt) == cnt \div (PAGE_NUM_PER_BLOCK \div (GC_BUCKET_NUM - 1))

GetCurBucketIdx(cnt) ==
    LET waterLevel == cnt \div (PAGE_NUM_PER_BLOCK \div (GC_BUCKET_NUM - 1))
    IN  IF waterLevel >= GC_BUCKET_NUM THEN GC_BUCKET_NUM - 1 ELSE waterLevel

\* MarkPageInvalid on the page at loc; NULL when the address was not stored.
InvalidatePage(pgs, loc) ==
    IF loc = NULL THEN pgs ELSE [pgs EXCEPT ![loc[1]][loc[2]] = INVALID]

CountGarbage(loc) ==
    IF loc = NULL THEN garbageCnt ELSE [garbageCnt EXCEPT ![loc[1]] = @ + 1]

\* The page of l that a write or a delete invalidates.
OldLoc(l) == IF IsExist(l) THEN Query(l) ELSE {NULL}

\* What the two operations on the garbage buckets read and write.
Garbage == [status |-> blockStatus, wl |-> garbageWL, list |-> buckets, cnt |-> blockCnt]

\* Insert2GarbageBuckets: b becomes FULL and goes to the tail of its bucket.
Insert2GarbageBuckets(g, b, garbage) ==
    LET wl == GetCurBucketIdx(garbage)
    IN  [status |-> [g.status EXCEPT ![b] = "FULL"],
         wl     |-> [g.wl EXCEPT ![b] = wl],
         list   |-> [g.list EXCEPT ![wl] = Append(@, b)],
         cnt    |-> [g.cnt EXCEPT ![wl] = @ + 1]]

\* Faulty: the count of the bucket that the block leaves is not taken down.
AdjustOneCount(g, b, garbage) ==
    LET wl  == GetCurBucketIdx(garbage)
        old == g.wl[b]
    IN  IF g.status[b] # "FULL" \/ wl = old
        THEN g
        ELSE [g EXCEPT !.wl[b] = wl, !.cnt[wl] = @ + 1,
                       !.list = [@ EXCEPT ![old] = Unlink(@, b), ![wl] = Append(@, b)]]

\* AdjustGarbageBuckets: a FULL block whose garbage level changed moves to the
\* tail of its new bucket.
AdjustGarbageBuckets(g, b, garbage) ==
    LET wl  == GetCurBucketIdx(garbage)
        old == g.wl[b]
    IN  IF g.status[b] # "FULL" \/ wl = old
        THEN g
        ELSE [status |-> g.status,
              wl     |-> [g.wl EXCEPT ![b] = wl],
              list   |-> [g.list EXCEPT ![old] = Unlink(@, b), ![wl] = Append(@, b)],
              cnt    |-> [g.cnt EXCEPT ![old] = @ - 1, ![wl] = @ + 1]]

SetGarbage(g) ==
    /\ blockStatus' = g.status
    /\ garbageWL' = g.wl
    /\ buckets' = g.list
    /\ blockCnt' = g.cnt

\* TryAllocBlockFromFreeQ takes the tail of the queue.  With an empty queue it
\* takes the list head itself for a Block: from there on memory is corrupt.
Exhausted(open) == open = NULL /\ freeQ = <<>>

\* Faulty: returns the head of the queue and removes the tail.
TargetHead(open) == IF open = NULL THEN Head(freeQ) ELSE open

Target(open) == IF open = NULL THEN Last(freeQ) ELSE open

TakeTarget(open) ==
    /\ ~Exhausted(open)
    /\ freeQ' = IF open = NULL THEN Front(freeQ) ELSE freeQ

Opened(b) == [Garbage EXCEPT !.status[b] = "WRITING"]

Corrupt ==
    /\ pc' = "corrupt"
    /\ UNCHANGED <<blockVars, listVars, openVars, spaceIndex, walkVars, outVars, histVars>>

-----------------------------------------------------------------------------
(* WriteIO: write host block, update space index, attach garbage list.      *)

WriteIOTo(l, b, old) ==
    LET i       == pageCursor[b]
        full    == i + 1 = PAGE_NUM_PER_BLOCK
        garbage == CountGarbage(old)
        filled  == IF full THEN Insert2GarbageBuckets(Opened(b), b, garbage[b])
                           ELSE Opened(b)
    IN  /\ pages' = InvalidatePage([pages EXCEPT ![b][i] = l], old)
        /\ pageCursor' = [pageCursor EXCEPT ![b] = i + 1]
        /\ garbageCnt' = garbage
        /\ spaceIndex' = Without(l) \cup {<<l, <<b, i>>>>}
        /\ hostBlock' = IF full THEN NULL ELSE b
        /\ SetGarbage(IF old = NULL THEN filled
                      ELSE AdjustGarbageBuckets(filled, old[1], garbage[old[1]]))

\* Assumed of the callers: tier 0 tiers down at its water level and tier 1 is
\* large enough, so that a tier never holds more than maxOccupied addresses.
MayWrite(l) == pc = "idle" /\ (IsExist(l) \/ GetLogicalSizeOccupied < maxOccupied)

WriteIO(l) ==
    /\ MayWrite(l)
    /\ TakeTarget(hostBlock)
    /\ \E old \in OldLoc(l) : WriteIOTo(l, Target(hostBlock), old)
    /\ pc' = "written"
    /\ UNCHANGED <<gcBlock, walkVars, outVars, histVars>>

\* Delete, which the layer calls for an address the tier holds: one that tiers
\* down, or whose new copy was written to the other tier.
Delete(l) ==
    /\ pc = "idle"
    /\ \E loc \in Query(l) :
          LET garbage == CountGarbage(loc) IN
          /\ pages' = InvalidatePage(pages, loc)
          /\ garbageCnt' = garbage
          /\ SetGarbage(AdjustGarbageBuckets(Garbage, loc[1], garbage[loc[1]]))
    /\ spaceIndex' = Without(l)
    /\ UNCHANGED <<pageCursor, freeQ, openVars, pc, walkVars, outVars, histVars>>

-----------------------------------------------------------------------------
(* The end of LayerModule's WriteHostIO: GC runs when free blocks are short  *)
(* and the GC queue of the disk is empty.  That queue is outside this        *)
(* module; the writer has waited for it to drain when free blocks were at    *)
(* the stall level or below.  So it is in tier 0, which has one writer and   *)
(* tests after each page.  WriteTierDownIO writes all pages of its batch     *)
(* before its stall and its one test (layer_module.c:368-403), and in tier 1 *)
(* the host may write between them: there free blocks may fall further than  *)
(* here, and what the properties say of them is not said of tier 1.          *)

\* GCCondition holds after a page of tier 0.
StartGC ==
    /\ pc = "written"
    /\ GetFreeBlockNum < gcWL
    /\ pc' = "scan"
    /\ recyleCnt' = gcBlockCnt
    /\ gcBucketIdx' = GC_BUCKET_NUM - 1
    /\ freeBefore' = GetFreeBlockNum
    /\ UNCHANGED <<blockVars, listVars, openVars, spaceIndex, cur, next, pageIdx, outVars>>

\* Blocks are not short, or the GC queue is busy: then they are above the stall level,
\* or the writer had waited.
EndWrite ==
    /\ pc = "written"
    /\ GetFreeBlockNum >= gcWL \/ GetFreeBlockNum > gcStallWL
    /\ pc' = "idle"
    /\ UNCHANGED <<blockVars, listVars, openVars, spaceIndex, walkVars, outVars, histVars>>

-----------------------------------------------------------------------------
(* GarbageCollection.                                                       *)

\* The outer loop: an empty bucket is skipped.  Below bucket 0 the unsigned
\* index wraps and blockCnt is read far out of its bounds.
NextBucket ==
    /\ pc = "scan" /\ recyleCnt > 0
    /\ gcBucketIdx \in Buckets
    /\ blockCnt[gcBucketIdx] = 0
    /\ gcBucketIdx' = gcBucketIdx - 1
    /\ UNCHANGED <<blockVars, listVars, openVars, spaceIndex, pc, recyleCnt, cur, next, pageIdx, outVars, histVars>>

BucketIdxWraps ==
    /\ pc = "scan" /\ recyleCnt > 0
    /\ gcBucketIdx \notin Buckets
    /\ Corrupt

\* Entering a bucket: cur is its first block and next is saved already.
EnterBucket ==
    /\ pc = "scan" /\ recyleCnt > 0
    /\ gcBucketIdx \in Buckets
    /\ blockCnt[gcBucketIdx] # 0
    /\ buckets[gcBucketIdx] # <<>>
    /\ pc' = "copy"
    /\ cur' = buckets[gcBucketIdx][1]
    /\ next' = After(buckets[gcBucketIdx], buckets[gcBucketIdx][1])
    /\ pageIdx' = 0
    /\ UNCHANGED <<blockVars, listVars, openVars, spaceIndex, recyleCnt, gcBucketIdx, outVars, histVars>>

\* WriteGCBlock: page lba of the victim moves to the open GC block b.
WriteGCBlock(lba, b) ==
    LET i    == pageCursor[b]
        full == i + 1 = PAGE_NUM_PER_BLOCK
    IN  /\ pages' = [pages EXCEPT ![b][i] = lba]
        /\ pageCursor' = [pageCursor EXCEPT ![b] = i + 1]
        /\ spaceIndex' = Without(lba) \cup {<<lba, <<b, i>>>>}
        /\ SetGarbage(IF full THEN Insert2GarbageBuckets(Opened(b), b, garbageCnt[b])
                              ELSE Opened(b))
        /\ gcBlock' = IF full THEN NULL ELSE b
        /\ writePageLoc' = Append(writePageLoc, <<b, i>>)

\* The walk stands at a VALID page of its victim.
MayCopy == pc = "copy" /\ pageIdx < pageCursor[cur] /\ pages[cur][pageIdx] \in LBA

CopyPage ==
    /\ MayCopy
    /\ TakeTarget(gcBlock)
    /\ WriteGCBlock(pages[cur][pageIdx], Target(gcBlock))
    /\ readPageLoc' = Append(readPageLoc, <<cur, pageIdx>>)
    /\ pageIdx' = pageIdx + 1
    /\ UNCHANGED <<garbageCnt, hostBlock, pc, recyleCnt, gcBucketIdx, cur, next, eraseBlockId, histVars>>

\* The open blocks that the next step would write to.
Demanded ==
    (IF \E l \in LBA : MayWrite(l) THEN {hostBlock} ELSE {})
      \cup (IF MayCopy THEN {gcBlock} ELSE {})

\* A block is wanted and none is free.
AllocationFails == (\E open \in Demanded : Exhausted(open)) /\ Corrupt

\* Faulty: skips without going on.
SkipPageForever ==
    /\ pc = "copy" /\ pageIdx < pageCursor[cur]
    /\ pages[cur][pageIdx] \notin LBA
    /\ UNCHANGED vars

SkipPage ==
    /\ pc = "copy" /\ pageIdx < pageCursor[cur]
    /\ pages[cur][pageIdx] \notin LBA
    /\ pageIdx' = pageIdx + 1
    /\ UNCHANGED <<blockVars, listVars, openVars, spaceIndex, pc, recyleCnt, gcBucketIdx, cur, next, outVars, histVars>>

\* Faulty: a cleared block goes to the end that blocks are taken from.
ReturnedToTail(b) == Append(freeQ, b)

\* Faulty: a cleared block goes nowhere.
ReturnedNowhere(b) == freeQ

\* The free queue with block b back at its head.
Returned(b) == Cons(b, freeQ)

\* ReturnBlock2FreeQ: unlink, clear the whole Block, back to the queue.
ReturnBlock2FreeQ(b) ==
    LET wl == garbageWL[b] IN
    /\ buckets'     = [k \in Buckets |-> IF b \in ToSet(buckets[k])
                                        THEN Unlink(buckets[k], b) ELSE buckets[k]]
    /\ blockCnt'    = [blockCnt EXCEPT ![wl] = @ - 1]
    /\ pages'       = [pages EXCEPT ![b] = [i \in Pages |-> WRITEABLE]]
    /\ blockStatus' = [blockStatus EXCEPT ![b] = "FREE"]
    /\ pageCursor'  = [pageCursor EXCEPT ![b] = 0]
    /\ garbageCnt'  = [garbageCnt EXCEPT ![b] = 0]
    /\ garbageWL'   = [garbageWL EXCEPT ![b] = 0]
    /\ freeQ'       = Returned(b)

\* The end of a victim, and the loop's step: to the saved next block, or to
\* the next bucket at the end of the list or when enough is recycled.
RecycleBlock ==
    /\ pc = "copy" /\ pageIdx = pageCursor[cur]
    /\ ReturnBlock2FreeQ(cur)
    /\ recyleCnt' = recyleCnt - 1
    /\ eraseBlockId' = Append(eraseBlockId, cur)
    /\ IF recyleCnt = 1 \/ next = NULL
       THEN /\ pc' = "scan"
            /\ gcBucketIdx' = gcBucketIdx - 1
            /\ UNCHANGED <<cur, next, pageIdx>>
       ELSE /\ cur' = next
            /\ next' = After(buckets[gcBucketIdx], next)
            /\ pageIdx' = 0
            /\ UNCHANGED <<pc, gcBucketIdx>>
    /\ UNCHANGED <<openVars, spaceIndex, readPageLoc, writePageLoc, histVars>>

\* HandleGC hands the copies to the disk and frees the arrays.
EndGC ==
    /\ pc = "scan" /\ recyleCnt = 0
    /\ pc' = "idle"
    /\ gcBucketIdx' = 0 /\ cur' = NULL /\ next' = NULL /\ pageIdx' = 0
    /\ eraseBlockId' = <<>> /\ readPageLoc' = <<>> /\ writePageLoc' = <<>>
    /\ freeBefore' = 0
    /\ UNCHANGED <<blockVars, listVars, openVars, spaceIndex, recyleCnt>>

GCStep == NextBucket \/ EnterBucket \/ CopyPage \/ SkipPage \/ RecycleBlock \/ EndGC

\* The undefined behaviours, each the end of what can be said.
Fault == AllocationFails \/ BucketIdxWraps

GCFault == pc \in {"scan", "copy"} /\ Fault

Init ==
    /\ pages = [b \in Blocks |-> [i \in Pages |-> WRITEABLE]]
    /\ blockStatus = [b \in Blocks |-> "FREE"]
    /\ pageCursor = [b \in Blocks |-> 0]
    /\ garbageCnt = [b \in Blocks |-> 0]
    /\ garbageWL = [b \in Blocks |-> 0]
    /\ freeQ = [i \in 1 .. totalBlockCnt |-> totalBlockCnt - i]
    /\ buckets = [k \in Buckets |-> <<>>]
    /\ blockCnt = [k \in Buckets |-> 0]
    /\ hostBlock = NULL /\ gcBlock = NULL
    /\ spaceIndex = {}
    /\ pc = "idle"
    /\ recyleCnt = 0 /\ gcBucketIdx = 0 /\ cur = NULL /\ next = NULL /\ pageIdx = 0
    /\ eraseBlockId = <<>> /\ readPageLoc = <<>> /\ writePageLoc = <<>>
    /\ freeBefore = 0

HostStep == (\E l \in LBA : WriteIO(l) \/ Delete(l)) \/ EndWrite \/ StartGC

Next == HostStep \/ GCStep \/ Fault

\* One thread: once a write or a GC has begun it runs on.
Spec == Init /\ [][Next]_vars /\ WF_vars(EndWrite \/ StartGC) /\ WF_vars(GCStep \/ GCFault)

-----------------------------------------------------------------------------
(* Invariants.                                                              *)

\* Every variable stays within the values its C type and use allow.
TypeOK ==
    /\ pages \in [Blocks -> [Pages -> LBA \cup {WRITEABLE, INVALID}]]
    /\ blockStatus \in [Blocks -> {"FREE", "WRITING", "FULL"}]
    /\ pageCursor \in [Blocks -> 0 .. PAGE_NUM_PER_BLOCK]
    /\ garbageCnt \in [Blocks -> Nat]
    /\ garbageWL \in [Blocks -> Buckets]
    /\ freeQ \in Seq(Blocks)
    /\ buckets \in [Buckets -> Seq(Blocks)]
    /\ blockCnt \in [Buckets -> Int]
    /\ hostBlock \in Blocks \cup {NULL} /\ gcBlock \in Blocks \cup {NULL}
    /\ spaceIndex \subseteq LBA \X Locs
    /\ pc \in {"idle", "written", "scan", "copy", "corrupt"}
    /\ recyleCnt \in Nat /\ gcBucketIdx \in Buckets \cup {-1}
    /\ cur \in Blocks \cup {NULL} /\ next \in Blocks \cup {NULL}
    /\ pageIdx \in 0 .. PAGE_NUM_PER_BLOCK
    /\ eraseBlockId \in Seq(Blocks)
    /\ readPageLoc \in Seq(Locs) /\ writePageLoc \in Seq(Locs)
    /\ freeBefore \in Nat

ValidLocs == {loc \in Locs : pages[loc[1]][loc[2]] \in LBA}

\* Pages of the victim that GC has copied already: they stay VALID there until
\* the block is cleared.
CopiedLocs == IF pc = "copy" THEN {cur} \X (0 .. pageIdx - 1) ELSE {}

\* The space index and the VALID pages say the same: each stored address has
\* one entry, the entry leads to the VALID page that holds the address and not
\* to a page that GC has just copied away, and every other VALID page has one.
IndexMatchesPages ==
    /\ \A e \in spaceIndex : pages[e[2][1]][e[2][2]] = e[1] /\ e[2] \notin CopiedLocs
    /\ \A e, f \in spaceIndex : e[1] = f[1] => e = f
    /\ pc # "corrupt" =>
         \A loc \in ValidLocs \ CopiedLocs : <<pages[loc[1]][loc[2]], loc>> \in spaceIndex

\* garbageCnt is the number of INVALID pages of the block.
GarbageIsCounted ==
    \A b \in Blocks :
        garbageCnt[b] = Cardinality({i \in Pages : pages[b][i] = INVALID})

\* The garbage buckets sort the FULL blocks by garbage, which is counted right, and
\* the blockCnt that GC tests before it walks a bucket is that bucket's length.
BucketsMatchGarbage ==
    /\ GarbageIsCounted
    /\ \A k \in Buckets : blockCnt[k] = Len(buckets[k])
    /\ \A b \in Blocks : blockStatus[b] = "FULL" => garbageWL[b] = GetCurBucketIdx(garbageCnt[b])

\* Blocks that are handed out for writing are clean.
FreeBlocksAreClean ==
    \A b \in ToSet(freeQ) :
        /\ blockStatus[b] = "FREE" /\ pageCursor[b] = 0
        /\ \A i \in Pages : pages[b][i] = WRITEABLE

\* Every block is in the one place its status names, once: the free queue, where
\* it is clean, the host's or GC's open block, or the bucket of its garbage level.
BlocksArePartitioned ==
    /\ FreeBlocksAreClean
    /\ IsInjective(freeQ) /\ ToSet(freeQ) = {b \in Blocks : blockStatus[b] = "FREE"}
    /\ {hostBlock, gcBlock} \ {NULL} = {b \in Blocks : blockStatus[b] = "WRITING"}
    /\ hostBlock = gcBlock => hostBlock = NULL
    /\ \A k \in Buckets :
          /\ IsInjective(buckets[k])
          /\ ToSet(buckets[k]) = {b \in Blocks : blockStatus[b] = "FULL" /\ garbageWL[b] = k}

\* GC never empties the free queue under itself or runs out of buckets, where each
\* page written is followed by the stall and the test for GC, as in tier 0.
NeverCorrupt == pc # "corrupt"

\* One GC recycles no block twice, and reuses none that it has recycled: HandleGC
\* queues the reads and the writes of a GC together, and the disk threads may do
\* them in any order.  It rests on the writer's stall after each page: tier 0.
CopiesAvoidVictims ==
    IsInjective(eraseBlockId) /\ ToSet(eraseBlockId) \subseteq ToSet(freeQ)

\* A finished GC leaves at least the free blocks it began with: it never fills
\* more blocks than it clears.
GCKeepsFreeBlocks ==
    pc = "scan" /\ recyleCnt = 0 => GetFreeBlockNum >= freeBefore

\* A GC that began ends: the walk does not go round a list that grows under it.
GCTerminates == pc = "scan" ~> pc \in {"idle", "corrupt"}

-----------------------------------------------------------------------------
(* What the index promises its readers: PageMap.                            *)

\* ReadIO's answer for l.
ReadIO(l) == IF IsExist(l) THEN CHOOSE loc \in Query(l) : TRUE ELSE NULL

Store == INSTANCE PageMap WITH map <- [l \in LBA |-> ReadIO(l)]

\* To its callers the module is a map from addresses to pages of their own,
\* which changes at a write, a delete and a copy by GC and at no other step.
ImplementsPageMap == Store!Spec
=============================================================================
