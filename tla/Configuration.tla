--------------------------- MODULE Configuration ---------------------------
(***************************************************************************)
(* How CreateStorageSystemInstance (src/proc/instance.c) derives the sizes  *)
(* and levels of the two tiers from the flags of the command line.  Most    *)
(* are percentages, rounded down.  The products do not overflow: those with *)
(* PAGE_NUM_PER_BLOCK have 64 bits, and the others are blocks by hundreds.  *)
(***************************************************************************)
EXTENDS Integers

CONSTANTS FLAGS_t0BlockCount, FLAGS_t1BlockCount,   \* blocks of the tiers
          FLAGS_gcWaterLevel, FLAGS_gcBlockRatio,   \* percentages
          FLAGS_tierdownWaterLevel, FLGAS_tierdownLimitOffset, FLAGS_tierdownBlockRatio,
          PageNum                                   \* PAGE_NUM_PER_BLOCK

\* What the program needs of its flags, and does not test: a level of less than
\* one block is none, and no more is taken down than lies below the level.
ASSUME FlagAssumption ==
    /\ FLAGS_t0BlockCount \in Nat \ {0} /\ FLAGS_t1BlockCount \in Nat \ {0}
    /\ PageNum \in Nat \ {0}
    /\ FLAGS_gcWaterLevel \in Nat /\ FLAGS_gcBlockRatio \in Nat
    /\ FLAGS_tierdownWaterLevel \in Nat /\ FLGAS_tierdownLimitOffset \in Nat
    /\ FLAGS_tierdownBlockRatio \in 0 .. FLAGS_tierdownWaterLevel
    /\ FLAGS_t0BlockCount * FLAGS_gcWaterLevel >= 100
    /\ FLAGS_t0BlockCount * FLAGS_tierdownWaterLevel >= 100

Percent(n, p) == (n * p) \div 100

\* fmax(1, n)
AtLeastOne(n) == IF n < 1 THEN 1 ELSE n

gcWL0       == Percent(FLAGS_t0BlockCount, FLAGS_gcWaterLevel)
gcBlockCnt0 == AtLeastOne(Percent(FLAGS_t0BlockCount, FLAGS_gcBlockRatio))
gcStallWL0  == Percent(FLAGS_t0BlockCount, FLAGS_gcWaterLevel \div 2)
tierDownWL0 == Percent(FLAGS_t0BlockCount * PageNum, FLAGS_tierdownWaterLevel)
tierDownStallWL0 ==
    Percent(FLAGS_t0BlockCount * PageNum, FLAGS_tierdownWaterLevel + FLGAS_tierdownLimitOffset)

\* The pages of tierDownBlockCnt blocks.
tierDownCnt0 == AtLeastOne(Percent(FLAGS_t0BlockCount, FLAGS_tierdownBlockRatio)) * PageNum

\* Rounded up.
reservedSpaceRatio ==
    (FLGAS_tierdownLimitOffset * FLAGS_t0BlockCount + FLAGS_t1BlockCount - 1)
        \div FLAGS_t1BlockCount

gcWL1      == Percent(FLAGS_t1BlockCount, FLAGS_gcWaterLevel + reservedSpaceRatio)
gcStallWL1 == Percent(FLAGS_t1BlockCount, (FLAGS_gcWaterLevel \div 2) + reservedSpaceRatio)

\* The garbage of one level: PAGE_NUM_PER_BLOCK / (GC_BUCKET_NUM - 1), with the 50
\* buckets of gc_module.h.
GarbageUnit == PageNum \div 49
=============================================================================
