----------------------------- MODULE Histogram -----------------------------
(***************************************************************************)
(* The latencies of the host's requests (src/utility/histogram.c): each     *)
(* host IO thread of the disks adds to a histogram of its own, and whoever  *)
(* asks for a report merges them into the system's and clears them          *)
(* (PrintWriteHistgram), with no lock.  An addition to a count is a load    *)
(* and a store.  sum_squares, which goes with sum, and the text are left    *)
(* out.                                                                     *)
(***************************************************************************)
EXTENDS Integers, FiniteSets, FiniteSetsExt, Functions

CONSTANTS hostConcurrency,  \* host IO threads, of both disks
          Latency,          \* latencies that a request can have
          kNumBuckets,
          limitCnt,         \* entries that the source gives kBucketLimit
          Infinity,         \* the last of them
          MaxCount          \* bound of the counts that the threads' histograms hold

ASSUME HistogramAssumption ==
    /\ hostConcurrency \in Nat \ {0} /\ MaxCount \in Nat
    /\ IsFiniteSet(Latency) /\ kNumBuckets \in Nat /\ limitCnt \in 1 .. kNumBuckets
    /\ Latency \subseteq Nat /\ Infinity \in Nat /\ \A v \in Latency : v < Infinity

Hosts == 1 .. hostConcurrency
Buckets == 0 .. kNumBuckets - 1

VARIABLES hists,      \* writeHists of the disks
          writeHist,  \* the system's
          \* each host IO thread
          pc, latency,
          read,       \* the count that it has loaded
          \* the thread that asks for reports
          main, turn,
          \* history
          tally,      \* how often each thread added each latency since its clear
          merged,     \* the tallies that this report has taken in
          tainted,    \* an Add overlapped the last clear of the thread's histogram
          dirty       \* an Add overlapped what this report did to its histogram

hostVars == <<pc, latency, read>>
pastVars == <<tally, merged, tainted, dirty>>
vars == <<hists, writeHist, hostVars, main, turn, pastVars>>

-----------------------------------------------------------------------------
(* A histogram.                                                             *)

decade[n \in Nat] == IF n = 0 THEN 1 ELSE 10 * decade[n - 1]

\* 1 to 9, then sixteen steps in each decade, then the last; what the source does
\* not give is zero.
kBucketLimit[b \in Buckets] ==
    LET step == <<10, 12, 14, 16, 18, 20, 25, 30, 35, 40, 45, 50, 60, 70, 80, 90>>
    IN  IF b >= limitCnt THEN 0
        ELSE IF b = limitCnt - 1 THEN Infinity
        ELSE IF b < 9 THEN b + 1
        ELSE step[((b - 9) % 16) + 1] * decade[(b - 9) \div 16]

Bucket(v) == Min({b \in Buckets : b = kNumBuckets - 1 \/ v < kBucketLimit[b]})

\* CreateHistogram.
Created == [min |-> 0, max |-> 0, num |-> 0, sum |-> 0, buckets |-> [b \in Buckets |-> 0]]

\* Faulty: the sum is kept.
CountsClearedLess(h) == [h EXCEPT !.min = kBucketLimit[kNumBuckets - 1], !.max = 0, !.num = 0]

\* Clear and Merge, in their two parts.
CountsCleared(h) ==
    [h EXCEPT !.min = kBucketLimit[kNumBuckets - 1], !.max = 0, !.num = 0, !.sum = 0]

BucketsCleared(h) == [h EXCEPT !.buckets = Created.buckets]

CountsMerged(h, other) ==
    [h EXCEPT !.min = Min({@, other.min}), !.max = Max({@, other.max}),
              !.num = @ + other.num, !.sum = @ + other.sum]

BucketsMerged(h, other) ==
    [h EXCEPT !.buckets = [b \in Buckets |-> @[b] + other.buckets[b]]]

CountUpTo(h, b) == SumFunctionOnSet(h.buckets, 0 .. b)

\* Faulty: the bucket behind the one that is reached.
MedianBehind(h) == Min({b \in Buckets : b = kNumBuckets - 1 \/ 2 * CountUpTo(h, b) > h.num})

\* The bucket that Percentile finds for a half.
MedianBucket(h) == Min({b \in Buckets : b = kNumBuckets - 1 \/ 2 * CountUpTo(h, b) >= h.num})

-----------------------------------------------------------------------------
(* HostIOThread, when it has written to the disk.                           *)

HostGoes(i, from, to) == pc[i] = from /\ pc' = [pc EXCEPT ![i] = to]

\* The report is between its first look at i's histogram and its clear.
ReportIsAt(i) == turn = i /\ main \in {"mergeBuckets", "clearCounts", "clearBuckets"}

\* The counts of all the threads' histograms.
Held == MapThenSumSet(LAMBDA i : Max({hists[i].num, CountUpTo(hists[i], kNumBuckets - 1)}), Hosts)

StartAdd(i, v) ==
    /\ HostGoes(i, "idle", "bucket")
    /\ Held < MaxCount
    /\ latency' = [latency EXCEPT ![i] = v]
    /\ read' = [read EXCEPT ![i] = hists[i].buckets[Bucket(v)]]
    /\ dirty' = (dirty \/ ReportIsAt(i))
    /\ tainted' = [tainted EXCEPT ![i] = @ \/ (turn = i /\ main = "clearBuckets")]
    /\ UNCHANGED <<hists, writeHist, main, turn, tally, merged>>

\* The bucket is stored, min and max follow, and num is loaded.
AddToBucket(i) ==
    /\ HostGoes(i, "bucket", "num")
    /\ hists' = [hists EXCEPT ![i].buckets[Bucket(latency[i])] = read[i] + 1,
                              ![i].min = Min({@, latency[i]}),
                              ![i].max = Max({@, latency[i]})]
    /\ read' = [read EXCEPT ![i] = hists[i].num]
    /\ UNCHANGED <<writeHist, latency, main, turn, pastVars>>

AddToNum(i) ==
    /\ HostGoes(i, "num", "idle")
    /\ hists' = [hists EXCEPT ![i].num = read[i] + 1, ![i].sum = @ + latency[i]]
    /\ latency' = [latency EXCEPT ![i] = 0] /\ read' = [read EXCEPT ![i] = 0]
    /\ tally' = [tally EXCEPT ![i][latency[i]] = @ + 1]
    /\ UNCHANGED <<writeHist, main, turn, merged, tainted, dirty>>

-----------------------------------------------------------------------------
(* PrintWriteHistgram.                                                      *)

NoTally == [v \in Latency |-> 0]

MainGoes(from, to) == main = from /\ main' = to /\ UNCHANGED hostVars

StartReport ==
    /\ MainGoes("idle", "mergeCounts")
    /\ turn' = 1
    /\ UNCHANGED <<hists, writeHist, pastVars>>

MergeCounts ==
    /\ MainGoes("mergeCounts", "mergeBuckets")
    /\ writeHist' = CountsMerged(writeHist, hists[turn])
    /\ merged' = [v \in Latency |-> merged[v] + tally[turn][v]]
    /\ dirty' = (dirty \/ tainted[turn] \/ pc[turn] # "idle")
    /\ UNCHANGED <<hists, turn, tally, tainted>>

MergeBuckets ==
    /\ MainGoes("mergeBuckets", "clearCounts")
    /\ writeHist' = BucketsMerged(writeHist, hists[turn])
    /\ UNCHANGED <<hists, turn, pastVars>>

ClearCounts ==
    /\ MainGoes("clearCounts", "clearBuckets")
    /\ hists' = [hists EXCEPT ![turn] = CountsCleared(@)]
    /\ tainted' = [tainted EXCEPT ![turn] = pc[turn] # "idle"]
    /\ UNCHANGED <<writeHist, turn, tally, merged, dirty>>

\* Faulty: goes past the last thread.
HostBehind == turn + 1

NextHost == IF turn < hostConcurrency THEN turn + 1 ELSE 0

ClearBuckets ==
    /\ MainGoes("clearBuckets", IF turn < hostConcurrency THEN "mergeCounts" ELSE "print")
    /\ hists' = [hists EXCEPT ![turn] = BucketsCleared(@)]
    /\ turn' = NextHost
    /\ tainted' = [tainted EXCEPT ![turn] = @ \/ pc[turn] # "idle"]
    /\ tally' = [tally EXCEPT ![turn] = NoTally]
    /\ UNCHANGED <<writeHist, merged, dirty>>

\* The system's histogram is printed, and cleared.
PrintText ==
    /\ MainGoes("print", "idle")
    /\ writeHist' = BucketsCleared(CountsCleared(writeHist))
    /\ merged' = NoTally /\ dirty' = FALSE
    /\ UNCHANGED <<hists, turn, tally, tainted>>

Init ==
    /\ hists = [i \in Hosts |-> Created] /\ writeHist = Created
    /\ pc = [i \in Hosts |-> "idle"]
    /\ latency = [i \in Hosts |-> 0] /\ read = [i \in Hosts |-> 0]
    /\ main = "idle" /\ turn = 0
    /\ tally = [i \in Hosts |-> NoTally] /\ merged = NoTally
    /\ tainted = [i \in Hosts |-> FALSE] /\ dirty = FALSE

Report == StartReport \/ MergeCounts \/ MergeBuckets \/ ClearCounts \/ ClearBuckets \/ PrintText

Next ==
    \/ \E i \in Hosts :
          \/ \E v \in Latency : StartAdd(i, v)
          \/ AddToBucket(i) \/ AddToNum(i)
    \/ Report

Spec == Init /\ [][Next]_vars

-----------------------------------------------------------------------------

HistogramType ==
    [min : Nat, max : Nat, num : Nat, sum : Nat, buckets : [Buckets -> Nat]]

\* Every variable stays within its values.
TypeOK ==
    /\ hists \in [Hosts -> HistogramType] /\ writeHist \in HistogramType
    /\ pc \in [Hosts -> {"idle", "bucket", "num"}]
    /\ latency \in [Hosts -> Latency \cup {0}] /\ read \in [Hosts -> Nat]
    /\ main \in {"idle", "mergeCounts", "mergeBuckets", "clearCounts", "clearBuckets", "print"}
    /\ turn \in {0} \cup Hosts /\ (main \in {"idle", "print"} <=> turn = 0)
    /\ tally \in [Hosts -> [Latency -> Nat]] /\ merged \in [Latency -> Nat]
    /\ tainted \in [Hosts -> BOOLEAN] /\ dirty \in BOOLEAN

Total(t) == SumFunctionOnSet(t, Latency)
Weighted(t) == SumFunctionOnSet([v \in Latency |-> t[v] * v], Latency)
Seen(t) == {v \in Latency : t[v] > 0}

\* The latencies that lie in bucket b: from the limit below it, which belongs to it,
\* up to its own.
LatenciesIn(b) == {v \in Latency : v < kBucketLimit[b] /\ (b > 0 => kBucketLimit[b - 1] <= v)}

\* The latencies below the limit of bucket b.
LatenciesBelow(b) == {v \in Latency : v < kBucketLimit[b]}

\* The histogram of the latencies of t, but for the least of them.
IsHistogramOf(h, t) ==
    /\ h.num = Total(t)
    /\ h.sum = Weighted(t)
    /\ h.max = Max({0} \cup Seen(t))
    /\ \A b \in Buckets : h.buckets[b] = SumFunctionOnSet(t, LatenciesIn(b))

\* A thread's histogram holds what the thread has added since the report cleared
\* it, unless an Add was under way at that clear.
ThreadsAreExact ==
    \A i \in Hosts :
        ~tainted[i] /\ pc[i] = "idle" /\ ~(turn = i /\ main = "clearBuckets")
            => IsHistogramOf(hists[i], tally[i])

\* A report that no Add overlapped tells of each latency since the last report
\* once, whichever thread had it, and of nothing else: the reports need no other
\* care, and one that goes wrong spoils no more than the time to the next.
ReportsAreExact ==
    /\ ThreadsAreExact
    /\ main = "print" /\ ~dirty => IsHistogramOf(writeHist, merged)

\* The bucket in which such a report has the median parts its latencies in halves.
MedianParts ==
    LET b == MedianBucket(writeHist)
        below(c) == SumFunctionOnSet(merged, LatenciesBelow(c))
    IN  main = "print" /\ ~dirty /\ writeHist.num > 0 =>
            /\ 2 * below(b) >= writeHist.num
            /\ b > 0 => 2 * below(b - 1) < writeHist.num

-----------------------------------------------------------------------------
(* What the sources say and the code does not do.                           *)

\* histogram.c:255: a report prints the least of its latencies as Min.  (The table
\* that Clear takes the first min from has fewer entries than kNumBuckets.)
MinIsTheLeast ==
    main = "print" /\ ~dirty /\ writeHist.num > 0 => writeHist.min = Min(Seen(merged))
=============================================================================
