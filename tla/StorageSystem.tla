--------------------------- MODULE StorageSystem ---------------------------
(***************************************************************************)
(* The two tiers together (src/base/storage_system.c) and the tier-down     *)
(* that LayerModule does within a host write (HandleTierDown).  The host    *)
(* thread writes and reads; the tier thread takes batches of pages over     *)
(* through two globals that no lock protects on the host's side: each       *)
(* access to them is a step of its own, read anew as the source has it.     *)
(* The tiers are the sets of addresses that they hold; GCModule and         *)
(* TierModule say how.                                                      *)
(*                                                                          *)
(* ASSERT prints and goes on, so a failed one changes no state here.  What  *)
(* ends the process is a null pointer that is followed, and an assert of    *)
(* the LFU queue, which exits in every build (infracture.h:124).            *)
(***************************************************************************)
EXTENDS Integers, FiniteSets

CONSTANTS LBA,
          tierDownWL,   \* pages of tier 0 at which a write tiers down
          tierDownCnt,  \* tierDownBlockCnt * PAGE_NUM_PER_BLOCK
          bypass,       \* the scheduler may send a write to tier 1
          NULL

ASSUME StorageAssumption ==
    /\ IsFiniteSet(LBA)
    /\ tierDownWL \in Nat /\ tierDownCnt \in 1 .. tierDownWL
    /\ bypass \in BOOLEAN /\ NULL \notin LBA \cup Int

Tiers == {0, 1}

\* Two batches at most can still be pointed to: the global's, and the tier
\* thread's copy.
Batches == {1, 2}

VARIABLES stored,     \* tier -> the addresses in its space index
          ranked,     \* those of tier 0 in its LFU queue
          g_tierDownPages, g_tierDownPageCnt,
          batch,      \* the pages filled into each batch
          crashed,    \* the process has ended
          \* the host thread
          host, lba, layer, todo,
          \* the tier thread
          thread, tierPages, tierPageCnt, toWrite,
          main,       \* what the thread that ends the system is at
          running,    \* the flag that the tier thread's loop tests
          tieredDown, \* history: addresses evicted and not written since
          late,       \* those the tier thread wrote over a copy of tier 0 since
          missed      \* the end's signal came just before the tier thread waited

globals    == <<g_tierDownPages, g_tierDownPageCnt>>
hostVars   == <<host, lba, layer, todo>>
threadVars == <<thread, tierPages, tierPageCnt, toWrite>>
tierVars   == <<stored, ranked>>
mainVars   == <<main, running, missed>>
vars == <<tierVars, globals, batch, crashed, hostVars, threadVars, mainVars, tieredDown, late>>

Crash ==
    /\ crashed' = TRUE
    /\ UNCHANGED <<tierVars, globals, batch, hostVars, threadVars, mainVars, tieredDown, late>>

HostAt(place) == ~crashed /\ host = place

ThreadAt(place) == ~crashed /\ thread = place

\* The host thread moves on and touches nothing else but what the action says.
HostGoes(place) ==
    /\ host' = place
    /\ UNCHANGED <<crashed, lba, layer, threadVars, mainVars>>

\* The batches, without those that nobody points to any more.
Reachable(b, pointers) == [i \in Batches |-> IF i \in pointers THEN b[i] ELSE {}]

-----------------------------------------------------------------------------
(* WriteHostIO of the system, up to the tier's own write.                   *)

\* ScheduleLayer's outcomes: the size of a write and the load of tier 0 can
\* send any write to tier 1, full or not.
ScheduleLayer == IF bypass THEN {0, 1} ELSE {0}

\* The workload queue is empty and its generator has ended before the host
\* thread is stopped.
WriteHostIO(l, k) ==
    /\ HostAt("idle") /\ main = "working"
    /\ k \in ScheduleLayer
    /\ stored' = [stored EXCEPT ![k] = @ \cup {l}]
    /\ ranked' = IF k = 0 THEN ranked \cup {l} ELSE ranked
    /\ host' = "wrote" /\ lba' = l /\ layer' = k
    /\ tieredDown' = tieredDown \ {l}
    /\ UNCHANGED <<globals, batch, crashed, todo, threadVars, mainVars, late>>

\* Below the water level, or with a tier queue of the disk still busy.
SkipTierDown ==
    /\ HostAt("wrote")
    /\ HostGoes("others")
    /\ UNCHANGED <<tierVars, globals, batch, todo, tieredDown, late>>

-----------------------------------------------------------------------------
(* HandleTierDown, on the globals.                                          *)

\* Faulty: the difference the wrong way round.
PageCntSwapped == tierDownWL - Cardinality(stored[0])

PageCnt == Cardinality(stored[0]) - tierDownWL + tierDownCnt

\* TierDownCondition; tier 0 never reaches the water level of tier 1, which is
\* a share of its larger capacity.
CountPages ==
    /\ HostAt("wrote") /\ layer = 0
    /\ Cardinality(stored[0]) >= tierDownWL
    /\ g_tierDownPageCnt' = PageCnt
    /\ HostGoes("counted")
    /\ UNCHANGED <<tierVars, g_tierDownPages, batch, todo, tieredDown, late>>

\* malloc into the global; what it pointed to before is lost.
AllocatePages ==
    /\ HostAt("counted")
    /\ \E b \in Batches \ {tierPages} :
          /\ tierPages = NULL => b = 1
          /\ g_tierDownPages' = b
          /\ batch' = [Reachable(batch, {tierPages}) EXCEPT ![b] = {}]
    /\ HostGoes("allocated")
    /\ UNCHANGED <<tierVars, g_tierDownPageCnt, todo, tieredDown, late>>

\* The tier module's TierDown: the pages that the LFU queue gives, none when
\* the count was cleared meanwhile.
FillPages ==
    /\ HostAt("allocated")
    /\ g_tierDownPageCnt \in 0 .. Cardinality(ranked)
    /\ g_tierDownPages # NULL \/ g_tierDownPageCnt = 0
    /\ \E V \in SUBSET ranked :
          /\ Cardinality(V) = g_tierDownPageCnt
          /\ batch' = IF V = {} THEN batch ELSE [batch EXCEPT ![g_tierDownPages] = V]
          /\ ranked' = ranked \ V
          /\ todo' = V
          /\ tieredDown' = tieredDown \cup V
    /\ HostGoes("deleting")
    /\ UNCHANGED <<stored, globals, late>>

\* A null pointer is filled, or an empty LFU queue is asked for more.
FillCrashes ==
    /\ HostAt("allocated")
    /\ g_tierDownPageCnt > 0
    /\ g_tierDownPages = NULL \/ g_tierDownPageCnt > Cardinality(ranked)
    /\ Crash

\* One turn of the loop over the batch: its end is *pageCnt and its pages are
\* *pages, read each time.
DeletePage ==
    /\ HostAt("deleting") /\ todo # {} /\ g_tierDownPageCnt > 0
    /\ g_tierDownPages # NULL
    /\ \E l \in todo : /\ stored' = [stored EXCEPT ![0] = @ \ {l}]
                       /\ todo' = todo \ {l}
    /\ HostGoes("deleting")
    /\ UNCHANGED <<ranked, globals, batch, tieredDown, late>>

DeleteCrashes ==
    /\ HostAt("deleting") /\ todo # {} /\ g_tierDownPageCnt > 0
    /\ g_tierDownPages = NULL
    /\ Crash

EndTierDown ==
    /\ HostAt("deleting") /\ (todo = {} \/ g_tierDownPageCnt = 0)
    /\ todo' = {}
    /\ HostGoes("others")
    /\ UNCHANGED <<tierVars, globals, batch, tieredDown, late>>

-----------------------------------------------------------------------------
(* The rest of WriteIOAux.                                                  *)

\* Faulty: the loop does not pass over the tier that was written.
AllTiers(k) == Tiers

\* Faulty: the loop ends at the tier that was written.
TiersAbove(k) == {i \in Tiers : i < k}

OtherTiers(k) == Tiers \ {k}

\* Faulty: only the space index forgets the address.
RankedStill(T) == ranked

Forget(T) == IF 0 \in T THEN ranked \ {lba} ELSE ranked

\* An address of tier 0 whose tier-down was cut short is not in the LFU queue.
MayDelete(T) == 0 \in T /\ lba \in stored[0] => lba \in ranked

DeleteData ==
    /\ HostAt("others")
    /\ MayDelete(OtherTiers(layer))
    /\ stored' = [k \in Tiers |-> stored[k] \ IF k \in OtherTiers(layer) THEN {lba} ELSE {}]
    /\ ranked' = Forget(OtherTiers(layer))
    /\ late' = late \ {lba}
    /\ HostGoes("test")
    /\ UNCHANGED <<globals, batch, todo, tieredDown>>

DeleteDataCrashes ==
    /\ HostAt("others")
    /\ ~MayDelete(OtherTiers(layer))
    /\ Crash

\* The write returns: its locals are gone.
Return ==
    /\ host' = "idle" /\ lba' = NULL /\ layer' = 0
    /\ UNCHANGED <<tierVars, globals, batch, crashed, todo, tierPages, tierPageCnt, toWrite, mainVars,
                   tieredDown, late>>

SeesNoPages ==
    /\ HostAt("test") /\ g_tierDownPages = NULL
    /\ Return /\ UNCHANGED thread

SeesPages ==
    /\ HostAt("test") /\ g_tierDownPages # NULL
    /\ HostGoes("signal")
    /\ UNCHANGED <<tierVars, globals, batch, todo, tieredDown, late>>

\* Faulty: no signal.
NoWakeup == thread

\* pthread_cond_signal, without the mutex: lost when the thread is elsewhere.
Wakeup == IF thread = "waiting" THEN "woken" ELSE thread

Signal ==
    /\ HostAt("signal")
    /\ Return /\ thread' = Wakeup

\* ReadHostIO of the system: from tier 0 down to the tier that answers.  A
\* tier's space index follows a null pointer for an address it does not have,
\* and the answer is its tier module's.
ReadCrashes(l) == l \notin stored[0] \/ (l \notin ranked /\ l \notin stored[1])

ReadHostIO(l) ==
    /\ HostAt("idle") /\ main = "working"
    /\ l \in stored[0] \cup stored[1]
    /\ ReadCrashes(l)
    /\ Crash

-----------------------------------------------------------------------------
(* TierDownThread.  Nobody else takes its mutex.                            *)

ThreadGoes(place) ==
    /\ thread' = place
    /\ UNCHANGED <<crashed, ranked, hostVars, mainVars, tieredDown>>

TestRunning ==
    /\ ThreadAt("start")
    /\ ThreadGoes(IF running THEN "ready" ELSE "ended")
    /\ UNCHANGED <<stored, globals, batch, tierPages, tierPageCnt, toWrite, late>>

Wait ==
    /\ ThreadAt("ready")
    /\ ThreadGoes("waiting")
    /\ UNCHANGED <<stored, globals, batch, tierPages, tierPageCnt, toWrite, late>>

CopyPages ==
    /\ ThreadAt("woken")
    /\ tierPages' = g_tierDownPages
    /\ ThreadGoes("copied")
    /\ UNCHANGED <<stored, globals, batch, tierPageCnt, toWrite, late>>

CopyPageCnt ==
    /\ ThreadAt("copied")
    /\ tierPageCnt' = g_tierDownPageCnt
    /\ ThreadGoes("counted")
    /\ UNCHANGED <<stored, globals, batch, tierPages, toWrite, late>>

ClearPages ==
    /\ ThreadAt("counted")
    /\ g_tierDownPages' = NULL
    /\ batch' = Reachable(batch, {tierPages})
    /\ ThreadGoes("cleared")
    /\ UNCHANGED <<stored, g_tierDownPageCnt, tierPages, tierPageCnt, toWrite, late>>

ClearPageCnt ==
    /\ ThreadAt("cleared")
    /\ g_tierDownPageCnt' = 0
    /\ ThreadGoes("testing")
    /\ UNCHANGED <<stored, g_tierDownPages, batch, tierPages, tierPageCnt, toWrite, late>>

\* The thread's copy is out of scope, its pages freed or lost.
EndTurn ==
    /\ batch' = Reachable(batch, {g_tierDownPages})
    /\ tierPages' = NULL /\ tierPageCnt' = 0
    /\ ThreadGoes("start")
    /\ UNCHANGED <<stored, globals, toWrite, late>>

\* The test is of the global that was just cleared.
SkipBatch ==
    /\ ThreadAt("testing") /\ g_tierDownPages = NULL
    /\ EndTurn

\* The addresses of the first tierPageCnt entries: some of the batch's pages,
\* or all of them and what lies in the entries that were never filled.
GivenPages ==
    LET V == IF tierPages = NULL THEN {} ELSE batch[tierPages]
    IN  IF Cardinality(V) >= tierPageCnt
        THEN {W \in SUBSET V : Cardinality(W) = tierPageCnt}
        ELSE {W \in SUBSET LBA : V \subseteq W /\ Cardinality(W) <= tierPageCnt}

TakeBatch ==
    /\ ThreadAt("testing") /\ g_tierDownPages # NULL
    /\ tierPages # NULL \/ tierPageCnt = 0
    /\ toWrite' \in GivenPages
    /\ ThreadGoes("writing")
    /\ UNCHANGED <<stored, globals, batch, tierPages, tierPageCnt, late>>

TakeCrashes ==
    /\ ThreadAt("testing") /\ g_tierDownPages # NULL
    /\ tierPages = NULL /\ tierPageCnt > 0
    /\ Crash

WriteTierDownIO ==
    /\ ThreadAt("writing") /\ toWrite # {}
    /\ \E l \in toWrite : /\ stored' = [stored EXCEPT ![1] = @ \cup {l}]
                          /\ toWrite' = toWrite \ {l}
                          /\ late' = IF l \in stored[0] THEN late \cup {l} ELSE late
    /\ ThreadGoes("writing")
    /\ UNCHANGED <<globals, batch, tierPages, tierPageCnt>>

EndBatch ==
    /\ ThreadAt("writing") /\ toWrite = {}
    /\ EndTurn

-----------------------------------------------------------------------------
(* The end of the system: WaitForStorageSystemInstance and, from it,        *)
(* DestroyStorageSystem.                                                    *)

MainGoes(from, to) ==
    /\ ~crashed /\ main = from /\ main' = to
    /\ UNCHANGED <<tierVars, globals, batch, crashed, hostVars, tierPages, tierPageCnt, toWrite,
                   tieredDown, late>>

\* FLAGS_sysShutdown, and the host thread's queue is destroyed (BlockingQueue).
StopHost == MainGoes("working", "joinHost") /\ UNCHANGED <<running, missed, thread>>

\* The host thread has done its last request.
ClearRunning ==
    /\ host = "idle"
    /\ MainGoes("joinHost", "signal")
    /\ running' = FALSE
    /\ UNCHANGED <<missed, thread>>

SignalEnd ==
    /\ MainGoes("signal", "joinTierThread")
    /\ thread' = Wakeup
    /\ missed' = (thread = "ready")
    /\ UNCHANGED running

\* With the join, all that the system has is freed.
JoinTierThread ==
    /\ thread = "ended"
    /\ MainGoes("joinTierThread", "done")
    /\ UNCHANGED <<running, missed, thread>>

-----------------------------------------------------------------------------

Init ==
    /\ stored = [k \in Tiers |-> {}] /\ ranked = {}
    /\ g_tierDownPages = NULL /\ g_tierDownPageCnt = 0
    /\ batch = [b \in Batches |-> {}]
    /\ crashed = FALSE
    /\ host = "idle" /\ lba = NULL /\ layer = 0 /\ todo = {}
    /\ thread = "start" /\ tierPages = NULL /\ tierPageCnt = 0 /\ toWrite = {}
    /\ main = "working" /\ running = TRUE
    /\ tieredDown = {} /\ late = {} /\ missed = FALSE

TierDownStep ==
    \/ SkipTierDown \/ CountPages \/ AllocatePages \/ FillPages \/ FillCrashes
    \/ DeletePage \/ DeleteCrashes \/ EndTierDown

HostStep ==
    \/ \E l \in LBA, k \in Tiers : WriteHostIO(l, k)
    \/ TierDownStep
    \/ DeleteData \/ DeleteDataCrashes \/ SeesNoPages \/ SeesPages \/ Signal

ThreadStep ==
    \/ TestRunning \/ Wait \/ CopyPages \/ CopyPageCnt \/ ClearPages \/ ClearPageCnt
    \/ SkipBatch \/ TakeBatch \/ TakeCrashes \/ WriteTierDownIO \/ EndBatch

EndStep == ClearRunning \/ SignalEnd \/ JoinTierThread

Next == HostStep \/ ThreadStep \/ StopHost \/ EndStep \/ \E l \in LBA : ReadHostIO(l)

\* The threads run on, and writes keep coming until the system is ended, if it is.
Spec == Init /\ [][Next]_vars /\ WF_vars(HostStep) /\ WF_vars(ThreadStep) /\ WF_vars(EndStep)

-----------------------------------------------------------------------------

\* Every variable stays within its values; a count never exceeds what tier 0
\* holds.
TypeOK ==
    /\ stored \in [Tiers -> SUBSET LBA]
    /\ g_tierDownPages \in Batches \cup {NULL} /\ g_tierDownPageCnt \in 0 .. Cardinality(LBA)
    /\ batch \in [Batches -> SUBSET LBA]
    /\ crashed \in BOOLEAN
    /\ host \in {"idle", "wrote", "counted", "allocated", "deleting", "others",
                 "test", "signal"}
    /\ lba \in LBA \cup {NULL} /\ layer \in Tiers /\ todo \in SUBSET LBA
    /\ thread \in {"start", "ready", "ended", "waiting", "woken", "copied", "counted", "cleared",
                   "testing", "writing"}
    /\ tierPages \in Batches \cup {NULL} /\ tierPageCnt \in 0 .. Cardinality(LBA)
    /\ toWrite \in SUBSET LBA /\ ranked \in SUBSET LBA
    /\ main \in {"working", "joinHost", "signal", "joinTierThread", "done"}
    /\ running \in BOOLEAN /\ missed \in BOOLEAN
    /\ tieredDown \in SUBSET LBA /\ late \in SUBSET LBA

\* The LFU queue of tier 0 ranks nothing that its space index has lost, even
\* while the tier thread cuts a tier-down short: a victim is always there to be
\* deleted.
RankedAreStored == ranked \subseteq stored[0]

\* The last copy of an address goes only after the LFU queue gave the address up
\* for tier-down: the deletes of old copies never take the newest one.
OnlyTierDownDrops ==
    [][(stored[0] \cup stored[1]) \ (stored'[0] \cup stored'[1]) \subseteq tieredDown]_vars

\* Both tiers hold an address between two writes only if the tier thread wrote the
\* page of an old batch over an address that tier 0 had: what a write deletes in
\* the other tier leaves no other double.
DoublesComeFromLateBatches == host = "idle" => stored[0] \cap stored[1] \subseteq late

\* A batch that is left in the global is taken over while writes keep coming,
\* although a signal can be lost, unless the process ends.
PendingBatchIsTaken ==
    g_tierDownPages # NULL ~> g_tierDownPages = NULL \/ crashed \/ main # "working"

\* DestroyStorageSystem joins the tier thread, whatever that is doing, except when
\* its one signal falls between the thread's test of the flag and its wait.
DestroyReturns == main = "joinTierThread" /\ ~missed ~> main = "done" \/ crashed

-----------------------------------------------------------------------------
(* What the sources say and the code does not do.                           *)

\* storage_system.c:29: the tier thread handles the tier-down.  A batch that it
\* took over from the global is written to tier 1 before the thread waits again.
TakenBatchIsWritten ==
    [][thread = "testing" /\ thread' = "start" => tierPages = NULL]_vars

\* ASSERT at layer_module.c:219: the batch that was just allocated is there.
AllocatedPagesAreThere == host = "allocated" => g_tierDownPages # NULL

\* storage_system.c:98: a read goes down the tiers until it finds the address.
ReadFindsIt == host = "idle" => \A l \in stored[0] \cup stored[1] : ~ReadCrashes(l)
=============================================================================
