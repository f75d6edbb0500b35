------------------------- MODULE LayerModuleProofs -------------------------
(***************************************************************************)
(* Theorems about LayerModule, for every size of the tier, its queues and   *)
(* its water levels.  Tier 0 has one writer: what a condition found about   *)
(* the queues stays true until the writer pushes to them again, since the   *)
(* disk only takes requests out.                                            *)
(***************************************************************************)
EXTENDS LayerModule, Integers, TLAPS

\* The tier thread writes to the lower tier alone.
OneWriter ==
    ~lower => /\ pc["tier"] = "idle"
              /\ pc["host"] # "pushBatch"

\* From the tier-down stall on, tier 0 is below the limit or its tier queue is
\* empty, so that the tier-down will not be put off.
RoomOrNoTierDown ==
    ~lower /\ ~cutShort =>
        /\ pc["host"] \in {"idle", "pushPages"} => occupied < tierDownStallWL
        /\ occupied <= tierDownStallWL
        /\ pc["host"] \in {"push", "gcTest", "hostWait", "pushGC", "tierTest"} =>
              occupied < tierDownStallWL \/ queueSize["BACK_TIER"] = 0

\* From the GC stall on, there are blocks or the GC queue is empty.
BlocksOrNoGC ==
    ~lower =>
        /\ pc["host"] \in {"tierStall", "push", "gcTest"} =>
              free > gcStallWL \/ queueSize["BACK_GC"] = 0
        /\ pc["host"] = "hostWait" => free < gcWL
        /\ pc["host"] = "pushGC" => queueSize["HOST"] = 0

IInv == TypeOK /\ OneWriter /\ RoomOrNoTierDown /\ BlocksOrNoGC

-----------------------------------------------------------------------------

\* A layer that was just created satisfies the invariant.
LEMMA InitInv == Init => IInv
<1> SUFFICES ASSUME Init PROVE IInv
  OBVIOUS
<1> USE DiskAssumption, LevelAssumption DEF Init
<1>1. DiskTypeOK
  BY DEF DiskInit, DiskTypeOK, IOType, Concurrency
<1>2. TypeOK
  <2>1. pc \in [Writers -> {"idle"}] /\ todo \in [Writers -> {0}]
    OBVIOUS
  <2>2. lower \in BOOLEAN /\ cutShort \in BOOLEAN
    OBVIOUS
  <2> QED BY <1>1, <2>1, <2>2 DEF TypeOK, Writers
<1>3. OneWriter /\ BlocksOrNoGC
  BY DEF OneWriter, BlocksOrNoGC, Writers
<1>4. RoomOrNoTierDown
  BY DEF RoomOrNoTierDown, Writers
<1> QED BY <1>2, <1>3, <1>4 DEF IInv

\* The disk's own steps.
LEMMA DiskInv == ASSUME IInv, NEW io \in IOType, DiskStep(io) PROVE IInv'
<1> USE DiskAssumption, LevelAssumption DEF IInv, DiskStep, layerVars
<1>1. CASE Pop(io)
  <2>1. /\ queueSize' = [queueSize EXCEPT ![io] = @ - 1]
        /\ queueSize[io] \in Nat /\ queueSize[io] > 0
        /\ busy' = [busy EXCEPT ![io] = @ + 1] /\ busy[io] < Concurrency[io]
    BY <1>1 DEF Pop, SizeAfterPop, TypeOK, DiskTypeOK
  <2>2. DiskTypeOK'
    BY <2>1 DEF TypeOK, DiskTypeOK, IOType, Concurrency
  <2>3. TypeOK'
    BY <2>2 DEF TypeOK
  <2>4. OneWriter' /\ RoomOrNoTierDown' /\ BlocksOrNoGC'
    BY <2>1 DEF TypeOK, DiskTypeOK, OneWriter, RoomOrNoTierDown, BlocksOrNoGC, IOType
  <2> QED BY <2>3, <2>4
<1>2. CASE Serve(io)
  <2>1. DiskTypeOK'
    BY <1>2 DEF Serve, TypeOK, DiskTypeOK, IOType, Concurrency
  <2> QED BY <1>2, <2>1 DEF Serve, TypeOK, OneWriter, RoomOrNoTierDown, BlocksOrNoGC
<1> QED BY <1>1, <1>2

\* A push, or the end of a loop of pushes.
LEMMA PushType ==
    ASSUME IInv, NEW w \in Writers, NEW io \in IOType \ {"HOST"}, NEW from, NEW to,
           to \in {"idle", "gcTest", "tierTest"},
           PushAll(w, from, io, to)
    PROVE  TypeOK' /\ (pc' = pc \/ pc' = [pc EXCEPT ![w] = to])
<1> USE DiskAssumption DEF IInv, PushAll, HandleDiskIO, Goes, layerVars, diskVars
<1>1. CASE todo[w] > 0
  BY <1>1 DEF TypeOK, DiskTypeOK, IOType, Writers, Concurrency
<1>2. CASE ~(todo[w] > 0)
  BY <1>2 DEF TypeOK, DiskTypeOK, IOType, Writers, Concurrency
<1> QED BY <1>1, <1>2

-----------------------------------------------------------------------------

\* One step per action.
LEMMA StepInv == IInv /\ [Next]_vars => IInv'
<1> SUFFICES ASSUME IInv, [Next]_vars PROVE IInv'
  OBVIOUS
<1> USE DiskAssumption, LevelAssumption DEF IInv, Goes, layerVars, diskVars, Writers
<1>1. CASE WriteHostIO
  <2>1. TypeOK'
    BY <1>1 DEF WriteHostIO, WriteIO, TypeOK, DiskTypeOK
  <2> QED BY <1>1, <2>1 DEF WriteHostIO, WriteIO, TypeOK, OneWriter, RoomOrNoTierDown, BlocksOrNoGC
<1>2. CASE WriteTierDownIO
  <2>1. TypeOK'
    BY <1>2 DEF WriteTierDownIO, WriteIO, TypeOK, DiskTypeOK
  <2> QED BY <1>2, <2>1 DEF WriteTierDownIO, WriteIO, TypeOK, OneWriter, RoomOrNoTierDown, BlocksOrNoGC
<1>3. CASE ReadHostIO
  <2>1. TypeOK'
    BY <1>3 DEF ReadHostIO, HandleDiskIO, TypeOK, DiskTypeOK, IOType
  <2> QED BY <1>3, <2>1
    DEF ReadHostIO, HandleDiskIO, TypeOK, DiskTypeOK, IOType, OneWriter, RoomOrNoTierDown, BlocksOrNoGC
<1>4. CASE DeleteData
  BY <1>4 DEF DeleteData, TypeOK, DiskTypeOK, OneWriter, RoomOrNoTierDown, BlocksOrNoGC
<1>5. ASSUME NEW w \in Writers, LeaveGCStall(w) PROVE IInv'
  <2>1. TypeOK'
    BY <1>5 DEF LeaveGCStall, TypeOK, DiskTypeOK
  <2> QED BY <1>5, <2>1
    DEF LeaveGCStall, GCStallCondition, TypeOK, DiskTypeOK, IOType, OneWriter, RoomOrNoTierDown, BlocksOrNoGC
<1>6. ASSUME NEW w \in Writers, StartGC(w) PROVE IInv'
  BY <1>6 DEF StartGC, GCCondition, TypeOK, DiskTypeOK, OneWriter, RoomOrNoTierDown, BlocksOrNoGC
<1>7. ASSUME NEW w \in Writers, SkipGC(w) PROVE IInv'
  BY <1>7 DEF SkipGC, TypeOK, DiskTypeOK, OneWriter, RoomOrNoTierDown, BlocksOrNoGC
<1>8. ASSUME NEW w \in Writers, Collect(w) PROVE IInv'
  <2>1. TypeOK'
    BY <1>8 DEF Collect, TypeOK, DiskTypeOK
  <2> QED BY <1>8, <2>1 DEF Collect, HostQueueIsEmpty, TypeOK, OneWriter, RoomOrNoTierDown, BlocksOrNoGC
<1>9. ASSUME NEW w \in Writers, PushGC(w) PROVE IInv'
  <2>1. TypeOK' /\ (pc' = pc \/ pc' = [pc EXCEPT ![w] = "tierTest"])
    BY <1>9, PushType DEF PushGC, IOType
  <2>2. /\ UNCHANGED layerVars /\ pc[w] = "pushGC"
        /\ queueSize'["BACK_TIER"] = queueSize["BACK_TIER"] /\ queueSize'["HOST"] = queueSize["HOST"]
    BY <1>9 DEF PushGC, PushAll, HandleDiskIO, TypeOK, DiskTypeOK, IOType
  <2> QED BY <2>1, <2>2 DEF TypeOK, OneWriter, RoomOrNoTierDown, BlocksOrNoGC
<1>10. ASSUME NEW w \in Writers, SkipTierDown(w) PROVE IInv'
  BY <1>10
  DEF SkipTierDown, TierDownCondition, TypeOK, DiskTypeOK, IOType, OneWriter, RoomOrNoTierDown, BlocksOrNoGC
<1>11. CASE LeaveTierStall
  BY <1>11
  DEF LeaveTierStall, TierDownStallCondition, TypeOK, DiskTypeOK, IOType, OneWriter, RoomOrNoTierDown,
      BlocksOrNoGC
<1>12. CASE DiskWrite
  <2>1. TypeOK'
    BY <1>12 DEF DiskWrite, HandleDiskIO, TypeOK, DiskTypeOK, IOType
  <2> QED BY <1>12, <2>1
    DEF DiskWrite, HandleDiskIO, TypeOK, DiskTypeOK, IOType, OneWriter, RoomOrNoTierDown, BlocksOrNoGC
<1>13. CASE TierDown
  <2>1. PICK deleted \in 0 .. PageCnt :
          /\ occupied' = occupied - deleted
          /\ IF deleted < PageCnt THEN cutShort' = TRUE ELSE UNCHANGED cutShort
          /\ \E n \in IF deleted = PageCnt THEN 0 .. PageCnt ELSE {0} :
                todo' = [todo EXCEPT !["host"] = n]
    BY <1>13 DEF TierDown
  <2>2. /\ occupied \in Nat /\ PageCnt \in Nat /\ PageCnt <= occupied
        /\ occupied - PageCnt < tierDownStallWL
    BY <1>13 DEF TierDown, TierDownCondition, PageCnt, TypeOK
  <2>3. TypeOK'
    <3>1. todo' \in [Writers -> Nat]
      BY <2>1, <2>2 DEF TypeOK
    <3>2. occupied' \in 0 .. addressCnt
      BY <2>1, <2>2 DEF TypeOK
    <3>3. cutShort' = TRUE \/ cutShort' = cutShort
      BY <2>1
    <3>4. cutShort' \in BOOLEAN
      BY <3>3 DEF TypeOK
    <3> QED BY <1>13, <3>1, <3>2, <3>4 DEF TierDown, TypeOK, DiskTypeOK
  <2>4. RoomOrNoTierDown'
    <3> SUFFICES ASSUME ~cutShort' PROVE occupied' < tierDownStallWL /\ pc'["host"] = "pushPages"
      BY <2>2, <2>3 DEF RoomOrNoTierDown, TypeOK
    <3>1. deleted = PageCnt
      BY <2>1, <2>2
    <3> QED BY <1>13, <2>1, <2>2, <3>1 DEF TierDown, TypeOK
  <2> QED BY <1>13, <2>3, <2>4 DEF TierDown, TypeOK, OneWriter, BlocksOrNoGC
<1>14. CASE PushPages
  <2>1. TypeOK' /\ (pc' = pc \/ pc' = [pc EXCEPT !["host"] = "idle"])
    BY <1>14, PushType DEF PushPages, IOType
  <2>2. UNCHANGED layerVars /\ pc["host"] = "pushPages"
    BY <1>14 DEF PushPages, PushAll
  <2> QED BY <2>1, <2>2 DEF TypeOK, OneWriter, RoomOrNoTierDown, BlocksOrNoGC
<1>15. CASE PushBatch
  <2>1. TypeOK' /\ lower'
    BY <1>15, PushType DEF PushBatch, PushAll, IOType, OneWriter
  <2> QED BY <2>1 DEF OneWriter, RoomOrNoTierDown, BlocksOrNoGC
<1>16. ASSUME NEW io \in IOType, DiskStep(io) PROVE IInv'
  BY <1>16, DiskInv
<1>17. CASE UNCHANGED vars
  BY <1>17 DEF vars, TypeOK, DiskTypeOK, OneWriter, RoomOrNoTierDown, BlocksOrNoGC
<1> QED
  BY <1>1, <1>2, <1>3, <1>4, <1>5, <1>6, <1>7, <1>8, <1>9, <1>10, <1>11, <1>12, <1>13, <1>14,
     <1>15, <1>16, <1>17
  DEF Next, WriteStep

\* It holds in every behaviour.
LEMMA IInvAlways == Spec => []IInv
BY InitInv, StepInv, PTL DEF Spec

-----------------------------------------------------------------------------

\* The host queue never holds more than it has room for, and no count falls
\* below zero.
THEOREM TypeCorrect == Spec => []TypeOK
<1>1. IInv => TypeOK
  BY DEF IInv
<1> QED BY <1>1, IInvAlways, PTL

\* HandleTierDown and the stall before it keep tier 0 below its limit.
THEOREM OccupancyCorrect == Spec => []OccupancyIsBounded
<1>1. IInv => OccupancyIsBounded
  BY DEF IInv, RoomOrNoTierDown, OccupancyIsBounded
<1> QED BY <1>1, IInvAlways, PTL

\* In the middle of a write too, tier 0 never exceeds its limit: what GCModule's
\* maxOccupied bounds, in every state.
WritesAddOnePage == ~lower /\ ~cutShort => occupied <= tierDownStallWL

\* HandleTierDown never lets writeHostIO take tier 0 above its limit.
THEOREM OccupancyDuringWrites == Spec => []WritesAddOnePage
<1>1. IInv => WritesAddOnePage
  BY DEF IInv, RoomOrNoTierDown, WritesAddOnePage
<1> QED BY <1>1, IInvAlways, PTL

\* HandleGC's buffers take what GarbageCollection recycles.
THEOREM BuffersCorrect == Spec => []GCBuffersSuffice
<1>1. IInv => GCBuffersSuffice
  BY DEF IInv, BlocksOrNoGC, GCBuffersSuffice
<1> QED BY <1>1, IInvAlways, PTL

\* HandleGC's wait for the host queue holds for all that it pushes.
THEOREM GCOrderCorrect == Spec => []GCFollowsHostRequests
<1>1. IInv => GCFollowsHostRequests
  BY DEF IInv, BlocksOrNoGC, GCFollowsHostRequests
<1> QED BY <1>1, IInvAlways, PTL

\* A write that finds the blocks scarce collects.
THEOREM ScarceCorrect == Spec => ScarceBlocksAreCollected
<1>1. IInv /\ [Next]_vars =>
        [~lower /\ free <= gcStallWL /\ pc["host"] = "gcTest" /\ pc'["host"] # "gcTest"
           => pc'["host"] = "hostWait"]_vars
  <2> SUFFICES ASSUME IInv, Next, ~lower, free <= gcStallWL,
                      pc["host"] = "gcTest", pc'["host"] # "gcTest"
               PROVE  pc'["host"] = "hostWait"
    OBVIOUS
  <2>1. GCCondition
    BY LevelAssumption DEF IInv, BlocksOrNoGC, GCCondition, TypeOK
  <2>2. DOMAIN pc = Writers /\ pc["tier"] = "idle"
    BY DEF IInv, TypeOK, OneWriter
  <2>3. \E w \in Writers : StartGC(w) \/ SkipGC(w)
    BY <2>2
    DEF Next, WriteHostIO, WriteTierDownIO, ReadHostIO, DeleteData, WriteStep, LeaveGCStall, Collect, PushGC,
        SkipTierDown, LeaveTierStall, DiskWrite, TierDown, PushPages, PushBatch, PushAll, DiskStep, Goes,
        Writers
  <2> QED BY <2>1, <2>2, <2>3 DEF StartGC, SkipGC, Goes, Writers
<1> QED BY <1>1, IInvAlways, PTL DEF Spec, ScarceBlocksAreCollected
=============================================================================
