-------------------------- MODULE LatencyHistogram --------------------------
(***************************************************************************)
(* The latency histogram (latency_histogram.hpp, latency_histogram.cpp),   *)
(* with the samples it stands for.  The mean and the arithmetic that turns *)
(* a percentage into a rank are in floating point and left out.            *)
(***************************************************************************)
EXTENDS Bits, Sequences, FiniteSets

CONSTANTS
    ValueBits,    \* 64
    sub_bits_,    \* the precision, 1..14 after clamping
    MaxSamples    \* bound: samples recorded

ASSUME HistogramAssumption ==
    /\ sub_bits_ \in Nat \ {0}
    /\ ValueBits \in Nat /\ ValueBits >= sub_bits_
    /\ MaxSamples \in Nat

VARIABLES
    counts_, total_, min_, max_,
    samples   \* what was recorded since the last reset, in order of time

histogram == <<counts_, total_, min_, max_, samples>>

Value == 0..(Pow2[ValueBits] - 1)

sub_count_ == Pow2[sub_bits_]
sub_half_  == sub_count_ \div 2

LastBucket == (ValueBits - sub_bits_ + 2) * sub_half_
Buckets    == 0..LastBucket

NoCounts == [i \in Buckets |-> 0]

HistogramInit ==
    /\ counts_ = NoCounts /\ total_ = 0
    /\ min_ = Pow2[ValueBits] - 1 /\ max_ = 0
    /\ samples = << >>

bit_length(v) == CHOOSE n \in 0..ValueBits : v < Pow2[n] /\ (n > 0 => v >= Pow2[n - 1])

(* The bits beyond the precision.  value | (sub_count_ - 1) is as long as  *)
(* the larger of the two.                                                  *)
Bucket(value) ==
    bit_length(IF value < sub_count_ THEN sub_count_ - 1 ELSE value) - sub_bits_

index_for(value) ==
    (Bucket(value) + 1) * sub_half_ + (value \div Pow2[Bucket(value)] - sub_half_)

(* Variant: the shift of the bucket above.                                 *)
ValueOneUp(index) ==
    IF index < sub_count_ THEN index
    ELSE ((index % sub_half_) + sub_half_) * Pow2[index \div sub_half_]

value_from_index(index) ==
    IF index < sub_count_ THEN index
    ELSE ((index % sub_half_) + sub_half_) * Pow2[index \div sub_half_ - 1]

record(value) ==
    LET index == IF index_for(value) \in Buckets THEN index_for(value) ELSE LastBucket
    IN  /\ total_ < MaxSamples
        /\ counts_' = [counts_ EXCEPT ![index] = @ + 1]
        /\ total_' = total_ + 1
        /\ min_' = (IF value < min_ THEN value ELSE min_)
        /\ max_' = (IF value > max_ THEN value ELSE max_)
        /\ samples' = Append(samples, value)

reset ==
    /\ total_ > 0
    /\ counts_' = NoCounts /\ total_' = 0
    /\ min_' = Pow2[ValueBits] - 1 /\ max_' = 0
    /\ samples' = << >>

HistogramNext == (\E value \in Value : record(value)) \/ reset

HistogramSpec == HistogramInit /\ [][HistogramNext]_histogram

(* percentile, for the rank it has found.                                  *)
percentile(target) ==
    LET Cum[i \in Buckets] == IF i = 0 THEN counts_[0] ELSE Cum[i - 1] + counts_[i]
        reached == {i \in Buckets : Cum[i] >= target}
    IN  IF total_ = 0 THEN 0
        ELSE IF reached = {} THEN max_
        ELSE value_from_index(CHOOSE i \in reached : \A j \in reached : i <= j)

-----------------------------------------------------------------------------
(* The ranks of a sample among all, in order of size: one when no other is *)
(* equal to it.                                                            *)
Ranks(sample) ==
    {rank \in 1..total_ :
        /\ Cardinality({k \in DOMAIN samples : samples[k] < sample}) < rank
        /\ rank <= Cardinality({k \in DOMAIN samples : samples[k] <= sample})}

(* "percentiles keep a constant relative error": at every rank percentile  *)
(* returns the sample of that rank, or less by under 1/sub_half_ of it;    *)
(* no sample of the full width falls outside the buckets, and min() and    *)
(* max() bound them all.                                                   *)
PercentilesAreClose ==
    \A k \in DOMAIN samples :
        LET sample == samples[k]
        IN  /\ \A rank \in Ranks(sample) :
                 /\ percentile(rank) <= sample
                 /\ (sample - percentile(rank)) * sub_half_ <= sample
            /\ sample \in min_..max_

=============================================================================
