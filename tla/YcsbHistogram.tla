---------------------------- MODULE YcsbHistogram ----------------------------
(***************************************************************************)
(* The latency histogram of the YCSB client (bench_tools/YCSB-C/core/      *)
(* histogram.cc), with exact arithmetic instead of doubles. The buckets    *)
(* are ten of width one and then sixteen for every power of ten; the code  *)
(* has nine such decades, the model Decades of them. A latency is a number *)
(* of 1/Scale microseconds.                                                *)
(***************************************************************************)
EXTENDS Integers, FiniteSets, FiniteSetsExt, Functions

CONSTANTS
  Decades, Scale,
  Latency,           \* the latencies added, in units of 1/Scale
  MaxAdded           \* at most that many are added to a histogram

VARIABLES
  hists,             \* two histograms: min, max, num, sum and buckets
  latencies          \* by histogram, how often each latency was added

hist_vars == <<hists, latencies>>

kNumBuckets == 10 + 16 * Decades
Bucket == 0..(kNumBuckets - 1)

\* kBucketLimit; the last one, 1e200, is a number above all latencies
InDecade == <<12, 14, 16, 18, 20, 25, 30, 35, 40, 45, 50, 60, 70, 80, 90, 100>>
NoLimit == 10^(Decades + 2)
kBucketLimit(b) ==
  IF b < 10 THEN b + 1
  ELSE IF b = kNumBuckets - 1 THEN NoLimit
  ELSE InDecade[((b - 10) % 16) + 1] * 10^((b - 10) \div 16)

\* Clear
Cleared == [min |-> NoLimit * Scale, max |-> 0, num |-> 0, sum |-> 0,
            buckets |-> [b \in Bucket |-> 0]]

AddedTo(h, pos, v) ==
  [min |-> IF h.min > v THEN v ELSE h.min, max |-> IF h.max < v THEN v ELSE h.max,
   num |-> h.num + 1, sum |-> h.sum + v, buckets |-> [h.buckets EXCEPT ![pos] = @ + 1]]

\* Add: the search stops at the first bucket whose limit is above the value
Position(v) == Min({b \in Bucket : b = kNumBuckets - 1 \/ kBucketLimit(b) * Scale > v})

\* Add_Fast: after k divisions by ten the value is below 100
DecadeBucketsLess(k) == 15 * k
DecadeBuckets(k) == 16 * k
Divisions(v) == Min({k \in 0..(Decades + 2) : v < 100 * Scale * 10^k})
FastPosition(v) ==
  LET k == Divisions(v)
      one == Scale * 10^k
      pos == IF v < 10 * Scale THEN v \div Scale
             ELSE DecadeBuckets(k) +
                  (CASE v < 20 * one -> 10 + (v - 10 * one) \div (2 * one)
                     [] v >= 20 * one /\ v < 50 * one -> 15 + (v - 20 * one) \div (5 * one)
                     [] OTHER -> 21 + (v - 50 * one) \div (10 * one))
  IN IF pos >= kNumBuckets THEN kNumBuckets - 1 ELSE pos

Merged(h, o) ==
  [min |-> IF o.min < h.min THEN o.min ELSE h.min,
   max |-> IF o.max > h.max THEN o.max ELSE h.max,
   num |-> h.num + o.num, sum |-> h.sum + o.sum,
   buckets |-> [b \in Bucket |-> h.buckets[b] + o.buckets[b]]]

\* Percentile, of p ten-thousandths: a fraction [n, d]
SumTo(h, b) == MapThenSumSet(LAMBDA i : h.buckets[i], {i \in 0..b : h.buckets[i] > 0})
Percentile(h, p) ==
  LET b == Min({i \in Bucket : SumTo(h, i) * 10000 >= h.num * p})
      left == IF b = 0 THEN 0 ELSE kBucketLimit(b - 1) * Scale
      d == 10000 * h.buckets[b]
      n == left * d + (kBucketLimit(b) * Scale - left)
                        * (h.num * p - 10000 * (SumTo(h, b) - h.buckets[b]))
  IN CASE b = kNumBuckets - 1 \/ n > h.max * d -> [n |-> h.max, d |-> 1]
       [] n < h.min * d -> [n |-> h.min, d |-> 1]
       [] OTHER -> [n |-> n, d |-> d]
----------------------------------------------------------------------------
Init == /\ hists = [i \in {1, 2} |-> Cleared]
        /\ latencies = [i \in {1, 2} |-> [v \in Latency |-> 0]]

Adds(i, v, pos) ==
  /\ hists[i].num < MaxAdded
  /\ hists' = [hists EXCEPT ![i] = AddedTo(@, pos, v)]
  /\ latencies' = [latencies EXCEPT ![i][v] = @ + 1]
Add(i, v) == Adds(i, v, Position(v))
Add_Fast(i, v) == Adds(i, v, FastPosition(v))

Merge ==
  /\ hists[1].num + hists[2].num <= MaxAdded
  /\ hists' = [hists EXCEPT ![1] = Merged(@, hists[2])]
  /\ latencies' = [latencies EXCEPT ![1] = [v \in Latency |-> @[v] + latencies[2][v]]]

Clear(i) ==
  /\ hists' = [hists EXCEPT ![i] = Cleared]
  /\ latencies' = [latencies EXCEPT ![i] = [v \in Latency |-> 0]]

Next ==
  \/ \E i \in {1, 2}, v \in Latency : Add(i, v) \/ Add_Fast(i, v)
  \/ Merge
  \/ \E i \in {1, 2} : Clear(i)

Spec == Init /\ [][Next]_hist_vars
----------------------------------------------------------------------------
AtMost(x, y) == x.n * y.d <= y.n * x.d
Whole(x) == [n |-> x, d |-> 1]

\* A histogram tells of the latencies given to it, by whichever of Add, Add_Fast
\* and Merge they came: every bucket counts those between the limit before it and
\* its own, and the percentiles printed are in order, between the least and the
\* greatest latency.
HistogramRight ==
  \A i \in {1, 2} :
    LET h == hists[i] IN
    /\ \A b \in Bucket :
         h.buckets[b] = MapThenSumSet(LAMBDA v : latencies[i][v],
           {v \in Latency : /\ b = 0 \/ kBucketLimit(b - 1) * Scale <= v
                            /\ v < kBucketLimit(b) * Scale})
    /\ h.num > 0 =>
         /\ h.min = Min({v \in Latency : latencies[i][v] > 0})
         /\ h.max = Max({v \in Latency : latencies[i][v] > 0})
         /\ AtMost(Whole(h.min), Percentile(h, 5000))
         /\ AtMost(Percentile(h, 5000), Percentile(h, 9900))
         /\ AtMost(Percentile(h, 9900), Percentile(h, 9999))
         /\ AtMost(Percentile(h, 9999), Whole(h.max))
=============================================================================
