---------------------------- MODULE LayerModule ----------------------------
(***************************************************************************)
(* One tier over its disk (src/base/layer_module.c): the writes of the host *)
(* thread and, in the lower tier, of the tier thread, with the loops that   *)
(* wait for the disk's queues and the garbage collection and tier-down that *)
(* the water levels call for.  Of GCModule the free blocks are kept, and of *)
(* tier 0's pages the number: the conditions ask for no more.  Each call to *)
(* it is one step.  A sleep that only delays is left out.                   *)
(***************************************************************************)
EXTENDS DiskOperator

CONSTANTS totalBlockCnt,
          gcWL, gcStallWL,              \* free blocks
          gcBlockCnt,
          tierDownWL, tierDownStallWL,  \* pages of tier 0
          tierDownCnt,                  \* tierDownBlockCnt * PAGE_NUM_PER_BLOCK
          addressCnt,                   \* addresses that the host writes to
          MaxRequests,  \* bound of the requests of one GC, and of one batch
          MaxTierQueue  \* bound of the tier queue that a batch is added to

\* The limits that the water levels stall at lie beyond them.
ASSUME LevelAssumption ==
    /\ totalBlockCnt \in Nat /\ gcBlockCnt \in Nat /\ MaxRequests \in Nat \ {0}
    /\ MaxTierQueue \in Nat /\ addressCnt \in Nat
    /\ gcWL \in Nat /\ gcStallWL \in Nat /\ gcStallWL < gcWL
    /\ tierDownWL \in Nat /\ tierDownStallWL \in Nat /\ tierDownWL <= tierDownStallWL
    /\ tierDownCnt \in 1 .. tierDownWL

Writers == {"host", "tier"}

VARIABLES lower,     \* this is tier 1
          free,      \* getFreeBlockNum
          occupied,  \* getLogicalSizeOccupied of tier 0
          pc,        \* what each writer does next
          todo,      \* requests that it has still to push
          cutShort   \* history: the tier thread ended a tier-down of the host early

layerVars == <<lower, free, occupied, cutShort>>
vars == <<diskVars, layerVars, pc, todo>>

Goes(w, place) == pc' = [pc EXCEPT ![w] = place]

-----------------------------------------------------------------------------
(* The conditions.                                                          *)

\* Faulty: asks for at most the water level.
GCConditionLate == free <= gcWL /\ queueSize["BACK_GC"] = 0

GCCondition == free < gcWL /\ queueSize["BACK_GC"] = 0

\* Faulty: nothing stalls.
NeverStalls == FALSE

GCStallCondition == free <= gcStallWL /\ queueSize["BACK_GC"] # 0

\* Tier 0 is below the levels of tier 1.  Both disks that the conditions ask
\* are tier 0's.
TierDownCondition ==
    ~lower /\ occupied >= tierDownWL /\ queueSize["BACK_TIER"] = 0

TierDownStallCondition ==
    ~lower /\ occupied >= tierDownStallWL /\ queueSize["BACK_TIER"] # 0

-----------------------------------------------------------------------------
(* WriteHostIO and WriteTierDownIO.                                         *)

\* writeIO of GCModule and TierModule: a page is new or not, and a block may be
\* opened for it.
WriteIO(pageCnt) ==
    /\ occupied' \in {occupied} \cup {n \in {occupied + 1} : ~lower /\ n <= addressCnt}
    /\ free' \in {free - n : n \in 0 .. pageCnt} \cap Nat
    /\ UNCHANGED <<diskVars, lower, cutShort, todo>>

WriteHostIO ==
    /\ pc["host"] = "idle"
    /\ WriteIO(1) /\ Goes("host", "gcStall")

\* A batch of pages.  Nothing waits for the requests of the batches before.
WriteTierDownIO ==
    /\ pc["tier"] = "idle" /\ lower
    /\ queueSize["BACK_TIER"] <= MaxTierQueue
    /\ WriteIO(MaxRequests) /\ Goes("tier", "gcStall")

LeaveGCStall(w) ==
    /\ pc[w] = "gcStall" /\ ~GCStallCondition
    /\ IF w = "host"
       THEN Goes(w, "tierStall") /\ UNCHANGED todo
       ELSE Goes(w, "pushBatch") /\ todo' \in {[todo EXCEPT ![w] = n] : n \in 1 .. MaxRequests}
    /\ UNCHANGED <<diskVars, layerVars>>

LeaveTierStall ==
    /\ pc["host"] = "tierStall" /\ ~TierDownStallCondition
    /\ Goes("host", "push")
    /\ UNCHANGED <<diskVars, layerVars, todo>>

DiskWrite ==
    /\ pc["host"] = "push"
    /\ HandleDiskIO("HOST")
    /\ Goes("host", "gcTest")
    /\ UNCHANGED <<layerVars, todo>>

\* The next of w's requests to a queue, or on to the next place.
PushAll(w, from, io, to) ==
    /\ pc[w] = from
    /\ IF todo[w] > 0
       THEN /\ HandleDiskIO(io)
            /\ todo' = [todo EXCEPT ![w] = @ - 1] /\ UNCHANGED pc
       ELSE Goes(w, to) /\ UNCHANGED <<diskVars, todo>>
    /\ UNCHANGED layerVars

PushBatch == PushAll("tier", "pushBatch", "BACK_TIER", "gcTest")

-----------------------------------------------------------------------------
(* HandleGC.                                                                *)

StartGC(w) ==
    /\ pc[w] = "gcTest" /\ GCCondition
    /\ Goes(w, "hostWait")
    /\ UNCHANGED <<diskVars, layerVars, todo>>

SkipGC(w) ==
    /\ pc[w] = "gcTest" /\ ~GCCondition
    /\ Goes(w, "tierTest")
    /\ UNCHANGED <<diskVars, layerVars, todo>>

\* Faulty: the queue only has room.
HostQueueHasRoom == queueSize["HOST"] < requestQueueSize

\* The wait for the host queue ends.
HostQueueIsEmpty == queueSize["HOST"] = 0

\* GCModule collects: it gives back what it took.
Collect(w) ==
    /\ pc[w] = "hostWait" /\ HostQueueIsEmpty
    /\ free' \in {n \in free .. free + gcBlockCnt : n <= totalBlockCnt}
    /\ todo' \in {[todo EXCEPT ![w] = n] : n \in 0 .. MaxRequests}
    /\ Goes(w, "pushGC")
    /\ UNCHANGED <<diskVars, lower, occupied, cutShort>>

PushGC(w) == PushAll(w, "pushGC", "BACK_GC", "tierTest")

-----------------------------------------------------------------------------
(* HandleTierDown.                                                          *)

PageCnt == occupied - tierDownWL + tierDownCnt

\* The delete of the pages, then a read of each.  Either loop ends early when the
\* tier thread clears the count (StorageSystem).
TierDown ==
    /\ pc["host"] = "tierTest" /\ TierDownCondition
    /\ \E deleted \in 0 .. PageCnt :
          /\ occupied' = occupied - deleted
          /\ IF deleted < PageCnt THEN cutShort' = TRUE ELSE UNCHANGED cutShort
          /\ \E n \in IF deleted = PageCnt THEN 0 .. PageCnt ELSE {0} :
                todo' = [todo EXCEPT !["host"] = n]
    /\ Goes("host", "pushPages")
    /\ UNCHANGED <<diskVars, lower, free>>

SkipTierDown(w) ==
    /\ pc[w] = "tierTest" /\ (w = "tier" \/ ~TierDownCondition)
    /\ Goes(w, "idle")
    /\ UNCHANGED <<diskVars, layerVars, todo>>

PushPages == PushAll("host", "pushPages", "BACK_TIER", "idle")

-----------------------------------------------------------------------------

ReadHostIO ==
    /\ pc["host"] = "idle"
    /\ HandleDiskIO("HOST")
    /\ UNCHANGED <<layerVars, pc, todo>>

\* The new copy of a page of tier 0 was written to tier 1.
DeleteData ==
    /\ pc["host"] = "idle" /\ occupied > 0
    /\ occupied' = occupied - 1
    /\ UNCHANGED <<diskVars, lower, free, cutShort, pc, todo>>

Init ==
    /\ DiskInit
    /\ lower \in BOOLEAN
    /\ free = totalBlockCnt /\ occupied = 0 /\ cutShort = FALSE
    /\ pc = [w \in Writers |-> "idle"]
    /\ todo = [w \in Writers |-> 0]

\* What a writer does once it has begun.
WriteStep(w) ==
    \/ LeaveGCStall(w) \/ StartGC(w) \/ SkipGC(w) \/ Collect(w) \/ PushGC(w)
    \/ SkipTierDown(w)
    \/ w = "host" /\ (LeaveTierStall \/ DiskWrite \/ TierDown \/ PushPages)
    \/ w = "tier" /\ PushBatch

DiskStep(io) == (Pop(io) \/ Serve(io)) /\ UNCHANGED <<layerVars, pc, todo>>

Next ==
    \/ WriteHostIO \/ WriteTierDownIO \/ ReadHostIO \/ DeleteData
    \/ \E w \in Writers : WriteStep(w)
    \/ \E io \in IOType : DiskStep(io)

\* A write that began goes on when it can, and so does the disk.
Spec ==
    /\ Init /\ [][Next]_vars
    /\ \A w \in Writers : WF_vars(WriteStep(w))
    /\ \A io \in IOType : WF_vars(DiskStep(io))

-----------------------------------------------------------------------------

\* Every variable stays within its values.
TypeOK ==
    /\ DiskTypeOK
    /\ lower \in BOOLEAN /\ cutShort \in BOOLEAN
    /\ free \in 0 .. totalBlockCnt /\ occupied \in 0 .. addressCnt
    /\ pc \in [Writers -> {"idle", "gcStall", "tierStall", "push", "pushBatch", "gcTest",
                           "hostWait", "pushGC", "tierTest", "pushPages"}]
    /\ todo \in [Writers -> Nat]

\* A tier-down is put off while the disk reads the pages of the last one, but the
\* stall sees to it that no write of tier 0 returns with the limit reached, as
\* long as no tier-down is cut short: GCModule's maxOccupied.
OccupancyIsBounded ==
    ~lower /\ ~cutShort /\ pc["host"] = "idle" => occupied < tierDownStallWL

\* At the stall level or below, a write of tier 0 never goes without a garbage
\* collection: the stall has waited until the condition can hold.
ScarceBlocksAreCollected ==
    [][~lower /\ free <= gcStallWL /\ pc["host"] = "gcTest" /\ pc'["host"] # "gcTest"
         => pc'["host"] = "hostWait"]_vars

\* The buffers of a garbage collection of tier 0, which take the blocks below the
\* water level and those that it recycles, have room for all that it recycles:
\* the wait for the host queue does not make the condition stale.
GCBuffersSuffice == ~lower /\ pc["host"] = "hostWait" => free < gcWL

\* The requests of a garbage collection of tier 0 overtake no request of the host
\* that still waits: what it moves, the host's threads have at least taken.
GCFollowsHostRequests == ~lower /\ pc["host"] = "pushGC" => queueSize["HOST"] = 0

\* However the queues fill, a write to tier 0 returns.
WritesReturn == ~lower /\ pc["host"] # "idle" ~> pc["host"] = "idle"

=============================================================================
