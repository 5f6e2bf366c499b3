------------------------- MODULE DisjointSequences -------------------------
(***************************************************************************)
(* The index of the heights of complete blocks                             *)
(* (node/src/components/storage/disjoint_sequences.rs): a list of closed   *)
(* intervals of heights, from high to low.  Heights stay below u64::MAX,   *)
(* so `high + 1` never overflows.                                          *)
(***************************************************************************)
EXTENDS Integers, Sequences, FiniteSets

Sequence(low, high) == [low |-> low, high |-> high]

\* Sequence::try_insert, the outcome.
TryInsert(s, value) ==
    IF value = s.high + 1 THEN "ExtendedHigh"
    ELSE IF value \in s.low .. s.high THEN "AlreadyInSequence"
    ELSE IF value + 1 = s.low THEN "ExtendedLow"
    ELSE IF value > s.high THEN "TooHigh"
    ELSE "TooLow"

\* Vec::insert and Vec::remove.
InsertSequence(ds, i, s) == SubSeq(ds, 1, i - 1) \o <<s>> \o SubSeq(ds, i, Len(ds))
RemoveSequence(ds, i)    == SubSeq(ds, 1, i - 1) \o SubSeq(ds, i + 1, Len(ds))

\* Where the loop of `insert` stops: at the first sequence that the value is not
\* too low for.
StopsAt(ds, value, i) ==
    /\ TryInsert(ds[i], value) # "TooLow"
    /\ \A j \in 1 .. i - 1 : TryInsert(ds[j], value) = "TooLow"

\* Mutant of Merge: the sequence below is not looked at.
ExtendLow(ds, i, value) == [ds EXCEPT ![i].low = value]

\* The sequence has grown at its low end and may now touch the next one.
Merge(ds, i, value) ==
    IF i < Len(ds) /\ ds[i + 1].high + 1 = value
    THEN RemoveSequence([ds EXCEPT ![i].low = ds[i + 1].low], i + 1)
    ELSE [ds EXCEPT ![i].low = value]

InsertInto(ds, i, value) ==
    LET outcome == TryInsert(ds[i], value)
    IN  CASE outcome = "ExtendedHigh" -> [ds EXCEPT ![i].high = value]
          [] outcome = "AlreadyInSequence" -> ds
          [] outcome = "TooHigh" -> InsertSequence(ds, i, Sequence(value, value))
          [] outcome = "ExtendedLow" -> Merge(ds, i, value)

Insert(ds, value) ==
    LET stops == {i \in 1 .. Len(ds) : StopsAt(ds, value, i)}
    IN  IF stops = {} THEN Append(ds, Sequence(value, value))
        ELSE InsertInto(ds, CHOOSE i \in stops : TRUE, value)

\* Vec::retain_mut, what it retains: the sequences at these places, in their order.
Retain(ds, places) ==
    LET order == CHOOSE f \in [1 .. Cardinality(places) -> places] :
            \A i, j \in 1 .. Cardinality(places) : i < j => f[i] < f[j]
    IN  [i \in 1 .. Cardinality(places) |-> ds[order[i]]]

\* Mutant of Truncate: a sequence that reaches above the maximum is dropped.
TruncateWhole(ds, max_value) == Retain(ds, {i \in 1 .. Len(ds) : ds[i].high <= max_value})

Truncate(ds, max_value) ==
    LET kept == Retain(ds, {i \in 1 .. Len(ds) : ds[i].low <= max_value})
    IN  [i \in 1 .. Len(kept) |->
            IF kept[i].high <= max_value THEN kept[i]
            ELSE [kept[i] EXCEPT !.high = max_value]]

-----------------------------------------------------------------------------
(* What the list stands for                                                 *)

Heights(ds) == UNION {ds[i].low .. ds[i].high : i \in 1 .. Len(ds)}

\* From high to low, none empty, with a gap between any two.
Disjoint(ds) ==
    /\ \A i \in 1 .. Len(ds) : ds[i].low <= ds[i].high
    /\ \A i, j \in 1 .. Len(ds) : i < j => ds[j].high + 1 < ds[i].low
=============================================================================
