----------------------- MODULE CompletedBlocksProofs -----------------------
(***************************************************************************)
(* Proofs about the index of complete blocks: what `insert` and `truncate` *)
(* do to a list of sequences of any length, and from that, for every       *)
(* number of heights and restarts, that the index is well formed, calls no *)
(* missing block complete, survives restarts, implements a set of heights  *)
(* and serves every recent block.                                          *)
(***************************************************************************)
EXTENDS CompletedBlocks, BoundedSets, SequenceTheorems, FiniteSetTheorems, TLAPS

-----------------------------------------------------------------------------
(* Lists of sequences                                                       *)

Index == Seq([low : Nat, high : Nat])

LEMMA IndexElement ==
    ASSUME NEW ds \in Index
    PROVE  /\ Len(ds) \in Nat
           /\ \A i \in 1 .. Len(ds) :
                  ds[i] \in [low : Nat, high : Nat] /\ ds[i].low \in Nat /\ ds[i].high \in Nat
<1>1. Len(ds) \in Nat
  BY LenProperties DEF Index
<1>2. \A i \in 1 .. Len(ds) : ds[i] \in [low : Nat, high : Nat]
  BY ElementOfSeq DEF Index
<1> QED BY <1>1, <1>2

\* A height is in the index when it lies within one of the sequences.
LEMMA InHeights ==
    ASSUME NEW ds \in Index, NEW x
    PROVE  x \in Heights(ds) <=>
               x \in Nat /\ \E i \in 1 .. Len(ds) : ds[i].low <= x /\ x <= ds[i].high
BY IndexElement DEF Heights

\* `try_insert`: what each outcome says of the value.
LEMMA TryInsertOutcome ==
    ASSUME NEW s \in [low : Nat, high : Nat], s.low <= s.high, NEW value \in Nat
    PROVE  \/ TryInsert(s, value) = "ExtendedHigh" /\ value = s.high + 1
           \/ TryInsert(s, value) = "AlreadyInSequence" /\ s.low <= value /\ value <= s.high
           \/ TryInsert(s, value) = "ExtendedLow" /\ value + 1 = s.low
           \/ TryInsert(s, value) = "TooHigh" /\ value > s.high + 1
           \/ TryInsert(s, value) = "TooLow" /\ value + 1 < s.low
BY DEF TryInsert

\* The loop of `insert` stops unless the value is too low for all sequences.
LEMMA StopsOrTooLow ==
    ASSUME NEW ds \in Index, NEW value \in Nat,
           {i \in 1 .. Len(ds) : StopsAt(ds, value, i)} = {}
    PROVE  \A i \in 1 .. Len(ds) : TryInsert(ds[i], value) = "TooLow"
<1> DEFINE T == {i \in 1 .. Len(ds) : TryInsert(ds[i], value) # "TooLow"}
<1> SUFFICES ASSUME T # {} PROVE FALSE
  OBVIOUS
<1>1. Len(ds) \in Nat
  BY IndexElement
<1>2. PICK i \in T : \A j \in T : i <= j
  <2>1. T \in SUBSET Nat
    BY <1>1
  <2> HIDE DEF T
  <2> QED BY <2>1, Least
<1>3. \A j \in 1 .. i - 1 : TryInsert(ds[j], value) = "TooLow"
  BY <1>1, <1>2
<1> QED BY <1>2, <1>3 DEF StopsAt

\* Replacing a sequence keeps a list a list.
LEMMA ReplaceSequence ==
    ASSUME NEW ds \in Index, NEW i \in 1 .. Len(ds), NEW s \in [low : Nat, high : Nat]
    PROVE  /\ [ds EXCEPT ![i] = s] \in Index
           /\ Len([ds EXCEPT ![i] = s]) = Len(ds)
           /\ \A j \in 1 .. Len(ds) :
                  [ds EXCEPT ![i] = s][j] = IF j = i THEN s ELSE ds[j]
BY ExceptSeq DEF Index

\* Vec::insert.
LEMMA InsertSequenceElements ==
    ASSUME NEW ds \in Index, NEW i \in 1 .. Len(ds), NEW s \in [low : Nat, high : Nat]
    PROVE  LET r == InsertSequence(ds, i, s)
           IN  /\ r \in Index
               /\ Len(r) = Len(ds) + 1
               /\ \A j \in 1 .. Len(ds) + 1 :
                      r[j] = IF j < i THEN ds[j] ELSE IF j = i THEN s ELSE ds[j - 1]
<1> DEFINE D == [low : Nat, high : Nat]
           a == SubSeq(ds, 1, i - 1)
           b == SubSeq(ds, i, Len(ds))
<1>0. Len(ds) \in Nat /\ ds \in Seq(D) /\ \A j \in 1 .. Len(ds) : ds[j] \in D
  BY IndexElement DEF Index
<1> HIDE DEF D
<1>1. a \in Seq(D) /\ Len(a) = i - 1 /\ \A j \in 1 .. i - 1 : a[j] = ds[j]
  BY <1>0, SubSeqProperties
<1>2. b \in Seq(D) /\ Len(b) = Len(ds) - i + 1 /\ \A j \in 1 .. Len(ds) - i + 1 : b[j] = ds[i + j - 1]
  BY <1>0, SubSeqProperties
<1>3. <<s>> \in Seq(D) /\ Len(<<s>>) = 1 /\ <<s>>[1] = s
  BY DEF D
<1> DEFINE c == a \o <<s>>
<1> HIDE DEF a, b
<1>4. c \in Seq(D) /\ Len(c) = i /\ \A j \in 1 .. i : c[j] = IF j < i THEN ds[j] ELSE s
  <2>1. c \in Seq(D) /\ Len(c) = Len(a) + Len(<<s>>)
        /\ \A j \in 1 .. Len(a) + Len(<<s>>) : c[j] = IF j <= Len(a) THEN a[j] ELSE <<s>>[j - Len(a)]
    BY <1>1, <1>3, ConcatProperties
  <2> QED BY <1>0, <1>1, <1>3, <2>1
<1> HIDE DEF c
<1>5. c \o b \in Seq(D) /\ Len(c \o b) = Len(c) + Len(b)
      /\ \A j \in 1 .. Len(c) + Len(b) : (c \o b)[j] = IF j <= Len(c) THEN c[j] ELSE b[j - Len(c)]
  BY <1>2, <1>4, ConcatProperties
<1>6. \A j \in 1 .. Len(ds) + 1 :
          (c \o b)[j] = IF j < i THEN ds[j] ELSE IF j = i THEN s ELSE ds[j - 1]
  BY <1>0, <1>2, <1>4, <1>5
<1>7. InsertSequence(ds, i, s) = c \o b
  BY DEF InsertSequence, a, b, c
<1>8. c \o b \in Index /\ Len(c \o b) = Len(ds) + 1
  BY <1>0, <1>2, <1>4, <1>5 DEF Index, D
<1> QED BY <1>6, <1>7, <1>8, Zenon

\* Vec::remove.
LEMMA RemoveSequenceElements ==
    ASSUME NEW ds \in Index, NEW i \in 1 .. Len(ds)
    PROVE  LET r == RemoveSequence(ds, i)
           IN  /\ r \in Index
               /\ Len(r) = Len(ds) - 1
               /\ \A j \in 1 .. Len(ds) - 1 : r[j] = IF j < i THEN ds[j] ELSE ds[j + 1]
<1> DEFINE D == [low : Nat, high : Nat]
           a == SubSeq(ds, 1, i - 1)
           b == SubSeq(ds, i + 1, Len(ds))
<1>0. Len(ds) \in Nat /\ ds \in Seq(D) /\ \A j \in 1 .. Len(ds) : ds[j] \in D
  BY IndexElement DEF Index
<1> HIDE DEF D
<1>1. a \in Seq(D) /\ Len(a) = i - 1 /\ \A j \in 1 .. i - 1 : a[j] = ds[j]
  BY <1>0, SubSeqProperties
<1>2. b \in Seq(D) /\ Len(b) = Len(ds) - i /\ \A j \in 1 .. Len(ds) - i : b[j] = ds[i + j]
  BY <1>0, SubSeqProperties
<1> HIDE DEF a, b
<1>3. a \o b \in Seq(D) /\ Len(a \o b) = Len(a) + Len(b)
      /\ \A j \in 1 .. Len(a) + Len(b) : (a \o b)[j] = IF j <= Len(a) THEN a[j] ELSE b[j - Len(a)]
  BY <1>1, <1>2, ConcatProperties
<1>4. \A j \in 1 .. Len(ds) - 1 : (a \o b)[j] = IF j < i THEN ds[j] ELSE ds[j + 1]
  <2> SUFFICES ASSUME NEW j \in 1 .. Len(ds) - 1
               PROVE  (a \o b)[j] = IF j < i THEN ds[j] ELSE ds[j + 1]
    OBVIOUS
  <2>1. CASE j < i
    BY <1>0, <1>1, <1>2, <1>3, <2>1
  <2>2. CASE j >= i
    <3>1. (a \o b)[j] = b[j - (i - 1)] /\ j - (i - 1) \in 1 .. Len(ds) - i
      BY <1>0, <1>1, <1>2, <1>3, <2>2
    <3>2. b[j - (i - 1)] = ds[i + (j - (i - 1))]
      BY <1>2, <3>1
    <3>3. i + (j - (i - 1)) = j + 1
      BY <1>0
    <3> QED BY <2>2, <3>1, <3>2, <3>3
  <2>3. j < i \/ j >= i
    BY <1>0
  <2> QED BY <2>1, <2>2, <2>3
<1>5. RemoveSequence(ds, i) = a \o b
  BY DEF RemoveSequence, a, b
<1>6. a \o b \in Index /\ Len(a \o b) = Len(ds) - 1
  BY <1>0, <1>1, <1>2, <1>3 DEF Index, D
<1> QED BY <1>4, <1>5, <1>6, Zenon

\* What a list says when it is an index: no sequence is empty, and a later one lies
\* below an earlier one, with a gap between them.
Ordered(ds) ==
    /\ ds \in Index
    /\ \A i \in 1 .. Len(ds) : ds[i].low <= ds[i].high
    /\ \A i, j \in 1 .. Len(ds) : i < j => ds[j].high + 1 < ds[i].low

LEMMA OrderedIsDisjoint ==
    ASSUME NEW ds PROVE Ordered(ds) <=> ds \in Index /\ Disjoint(ds)
BY DEF Ordered, Disjoint

\* A value that no sequence stops becomes a sequence of its own at the end.
LEMMA AppendSingle ==
    ASSUME NEW ds, Ordered(ds), NEW value \in Nat,
           \A i \in 1 .. Len(ds) : value + 1 < ds[i].low
    PROVE  LET r == Append(ds, Sequence(value, value))
           IN  Ordered(r) /\ Heights(r) = Heights(ds) \cup {value}
<1> DEFINE s == Sequence(value, value)
           r == Append(ds, s)
<1>0. ds \in Index /\ Len(ds) \in Nat /\ \A i \in 1 .. Len(ds) : ds[i].low \in Nat /\ ds[i].high \in Nat
  BY IndexElement DEF Ordered
<1>1. s \in [low : Nat, high : Nat] /\ s.low = value /\ s.high = value
  BY DEF Sequence
<1> HIDE DEF s
<1>2. r \in Index /\ Len(r) = Len(ds) + 1 /\ r[Len(ds) + 1] = s
      /\ \A i \in 1 .. Len(ds) : r[i] = ds[i]
  BY <1>0, <1>1, AppendProperties DEF Index
<1> HIDE DEF r
<1>3. /\ \A x : x \in Heights(ds) <=>
                    x \in Nat /\ \E j \in 1 .. Len(ds) : ds[j].low <= x /\ x <= ds[j].high
      /\ \A x : x \in Heights(r) <=>
                    x \in Nat /\ \E j \in 1 .. Len(ds) + 1 : r[j].low <= x /\ x <= r[j].high
  BY <1>0, <1>2, InHeights
<1>4. Ordered(r)
  <2>1. ASSUME NEW j \in 1 .. Len(ds) + 1 PROVE r[j].low <= r[j].high
    <3>1. CASE j \in 1 .. Len(ds)
      BY <1>2, <3>1 DEF Ordered
    <3>2. CASE j = Len(ds) + 1
      BY <1>1, <1>2, <3>2
    <3> QED BY <1>0, <3>1, <3>2
  <2>2. ASSUME NEW j \in 1 .. Len(ds) + 1, NEW k \in 1 .. Len(ds) + 1, j < k
        PROVE  r[k].high + 1 < r[j].low
    <3>1. j \in 1 .. Len(ds) /\ r[j] = ds[j]
      BY <1>0, <1>2, <2>2
    <3>2. CASE k \in 1 .. Len(ds)
      BY <1>2, <2>2, <3>1, <3>2 DEF Ordered
    <3>3. CASE k = Len(ds) + 1
      BY <1>1, <1>2, <3>1, <3>3
    <3> QED BY <1>0, <3>2, <3>3
  <2> QED BY <1>2, <2>1, <2>2 DEF Ordered
<1>5. ASSUME NEW x, x \in Heights(r) PROVE x \in Heights(ds) \cup {value}
  <2>1. PICK j \in 1 .. Len(ds) + 1 : x \in Nat /\ r[j].low <= x /\ x <= r[j].high
    BY <1>3, <1>5
  <2>2. CASE j \in 1 .. Len(ds)
    BY <1>2, <1>3, <2>1, <2>2
  <2>3. CASE j = Len(ds) + 1
    BY <1>1, <1>2, <2>1, <2>3
  <2> QED BY <1>0, <2>2, <2>3
<1>6. value \in Heights(r)
  <2>1. Len(ds) + 1 \in 1 .. Len(ds) + 1
    BY <1>0
  <2> QED BY <1>1, <1>2, <1>3, <2>1
<1>7. ASSUME NEW x, x \in Heights(ds) PROVE x \in Heights(r)
  <2>1. PICK j \in 1 .. Len(ds) : x \in Nat /\ ds[j].low <= x /\ x <= ds[j].high
    BY <1>3, <1>7
  <2>2. j \in 1 .. Len(ds) + 1 /\ r[j] = ds[j]
    BY <1>0, <1>2
  <2> QED BY <1>3, <2>1, <2>2
<1> QED BY <1>4, <1>5, <1>6, <1>7 DEF r, s

\* A value that lies above a sequence and below the ones before it, with gaps,
\* becomes a sequence of its own there.
LEMMA InsertSingle ==
    ASSUME NEW ds, Ordered(ds), NEW value \in Nat, NEW i \in 1 .. Len(ds),
           \A j \in 1 .. i - 1 : value + 1 < ds[j].low, value > ds[i].high + 1
    PROVE  LET r == InsertSequence(ds, i, Sequence(value, value))
           IN  Ordered(r) /\ Heights(r) = Heights(ds) \cup {value}
<1> DEFINE s == Sequence(value, value)
           r == InsertSequence(ds, i, s)
           n == Len(ds)
<1>0. ds \in Index /\ n \in Nat /\ \A j \in 1 .. n : ds[j].low \in Nat /\ ds[j].high \in Nat
  BY IndexElement DEF Ordered
<1>1. s \in [low : Nat, high : Nat] /\ s.low = value /\ s.high = value
  BY DEF Sequence
<1> HIDE DEF s
<1>2. r \in Index /\ Len(r) = n + 1
      /\ \A j \in 1 .. n + 1 : r[j] = IF j < i THEN ds[j] ELSE IF j = i THEN s ELSE ds[j - 1]
  BY <1>0, <1>1, InsertSequenceElements
<1> HIDE DEF r
<1>3. /\ \A j \in 1 .. i - 1 : j \in 1 .. n /\ j \in 1 .. n + 1 /\ r[j] = ds[j]
      /\ i \in 1 .. n + 1 /\ r[i] = s
      /\ \A j \in i + 1 .. n + 1 : j - 1 \in 1 .. n /\ r[j] = ds[j - 1]
  BY <1>0, <1>2
<1>4. /\ \A x : x \in Heights(ds) <=>
                    x \in Nat /\ \E j \in 1 .. n : ds[j].low <= x /\ x <= ds[j].high
      /\ \A x : x \in Heights(r) <=>
                    x \in Nat /\ \E j \in 1 .. n + 1 : r[j].low <= x /\ x <= r[j].high
  BY <1>0, <1>2, InHeights
<1>5. \A j \in 1 .. n + 1 : j \in 1 .. i - 1 \/ j = i \/ j \in i + 1 .. n + 1
  BY <1>0
<1>6. Ordered(r)
  <2>1. ASSUME NEW j \in 1 .. n + 1 PROVE r[j].low <= r[j].high
    <3>1. CASE j = i
      BY <1>1, <1>3, <3>1
    <3>2. CASE j \in 1 .. i - 1
      BY <1>3, <3>2 DEF Ordered
    <3>3. CASE j \in i + 1 .. n + 1
      BY <1>3, <3>3 DEF Ordered
    <3> QED BY <1>5, <3>1, <3>2, <3>3
  <2>2. ASSUME NEW j \in 1 .. n + 1, NEW k \in 1 .. n + 1, j < k
        PROVE  r[k].high + 1 < r[j].low
    <3>1. CASE j \in 1 .. i - 1 /\ k \in 1 .. i - 1
      BY <1>3, <2>2, <3>1 DEF Ordered
    <3>2. CASE j \in 1 .. i - 1 /\ k = i
      BY <1>1, <1>3, <3>2
    <3>3. CASE j \in 1 .. i - 1 /\ k \in i + 1 .. n + 1
      <4>1. j < k - 1 /\ j \in 1 .. n /\ k - 1 \in 1 .. n
        BY <1>3, <3>3
      <4> QED BY <1>3, <3>3, <4>1 DEF Ordered
    <3>4. CASE j = i
      <4>1. k \in i + 1 .. n + 1
        BY <1>0, <2>2, <3>4
      <4>2. ds[k - 1].high <= ds[i].high
        <5>1. CASE k - 1 = i
          BY <1>0, <5>1
        <5>2. CASE k - 1 # i
          <6>1. i < k - 1 /\ k - 1 \in 1 .. n
            BY <1>3, <4>1, <5>2
          <6>2. ds[k - 1].high + 1 < ds[i].low /\ ds[i].low <= ds[i].high
            BY <6>1 DEF Ordered
          <6>3. ds[k - 1].high \in Nat /\ ds[i].low \in Nat /\ ds[i].high \in Nat
            BY <1>0, <6>1
          <6> QED BY <6>2, <6>3, SMTT(40)
        <5> QED BY <5>1, <5>2
      <4>3. ds[k - 1].high \in Nat /\ ds[i].high \in Nat
        BY <1>0, <1>3, <4>1
      <4> QED BY <1>1, <1>3, <3>4, <4>1, <4>2, <4>3, SMTT(40)
    <3>5. CASE j \in i + 1 .. n + 1
      <4>1. k \in i + 1 .. n + 1 /\ j - 1 < k - 1
        BY <1>0, <2>2, <3>5
      <4>2. j - 1 \in 1 .. n /\ k - 1 \in 1 .. n
        BY <1>3, <3>5, <4>1
      <4> QED BY <1>3, <3>5, <4>1, <4>2 DEF Ordered
    <3> QED BY <1>0, <1>5, <2>2, <3>1, <3>2, <3>3, <3>4, <3>5
  <2> QED BY <1>2, <2>1, <2>2 DEF Ordered
<1>7. ASSUME NEW x, x \in Heights(r) PROVE x \in Heights(ds) \cup {value}
  <2>1. PICK j \in 1 .. n + 1 : x \in Nat /\ r[j].low <= x /\ x <= r[j].high
    BY <1>4, <1>7
  <2>2. CASE j = i
    BY <1>1, <1>3, <2>1, <2>2
  <2> QED BY <1>3, <1>4, <1>5, <2>1, <2>2
<1>8. value \in Heights(r)
  BY <1>1, <1>3, <1>4, SMTT(40)
<1>9. ASSUME NEW x, x \in Heights(ds) PROVE x \in Heights(r)
  <2>1. PICK j \in 1 .. n : x \in Nat /\ ds[j].low <= x /\ x <= ds[j].high
    BY <1>4, <1>9
  <2>2. CASE j < i
    <3>1. j \in 1 .. i - 1
      BY <1>0, <2>2
    <3> QED BY <1>3, <1>4, <2>1, <3>1
  <2>3. CASE i <= j
    <3>1. j + 1 \in 1 .. n + 1 /\ r[j + 1] = ds[j]
      BY <1>0, <1>2, <2>3
    <3> QED BY <1>4, <2>1, <3>1
  <2>4. j < i \/ i <= j
    BY <1>0
  <2> QED BY <2>2, <2>3, <2>4
<1> QED BY <1>6, <1>7, <1>8, <1>9 DEF r, s

\* A sequence that grows without reaching its neighbours.
LEMMA Widen ==
    ASSUME NEW ds, Ordered(ds), NEW i \in 1 .. Len(ds), NEW s \in [low : Nat, high : Nat],
           s.low <= ds[i].low, ds[i].high <= s.high,
           \A j \in 1 .. Len(ds) : j < i => s.high + 1 < ds[j].low,
           \A j \in 1 .. Len(ds) : i < j => ds[j].high + 1 < s.low
    PROVE  LET r == [ds EXCEPT ![i] = s]
           IN  Ordered(r) /\ Heights(r) = Heights(ds) \cup (s.low .. s.high)
<1> DEFINE r == [ds EXCEPT ![i] = s]
           n == Len(ds)
<1>0. ds \in Index /\ n \in Nat /\ s.low \in Nat /\ s.high \in Nat
      /\ \A j \in 1 .. n : ds[j].low \in Nat /\ ds[j].high \in Nat
  BY IndexElement DEF Ordered
<1>1. r \in Index /\ Len(r) = n /\ r[i] = s /\ \A j \in 1 .. n : j # i => r[j] = ds[j]
  BY <1>0, ReplaceSequence
<1> HIDE DEF r
<1>2. /\ \A x : x \in Heights(ds) <=>
                    x \in Nat /\ \E j \in 1 .. n : ds[j].low <= x /\ x <= ds[j].high
      /\ \A x : x \in Heights(r) <=>
                    x \in Nat /\ \E j \in 1 .. n : r[j].low <= x /\ x <= r[j].high
  BY <1>0, <1>1, InHeights
<1>3. Ordered(r)
  <2>1. ASSUME NEW j \in 1 .. n PROVE r[j].low <= r[j].high
    <3>1. ds[i].low <= ds[i].high /\ ds[j].low <= ds[j].high
      BY DEF Ordered
    <3>2. CASE j = i
      BY <1>0, <1>1, <3>1, <3>2
    <3>3. CASE j # i
      BY <1>1, <3>1, <3>3
    <3> QED BY <3>2, <3>3
  <2>2. ASSUME NEW j \in 1 .. n, NEW k \in 1 .. n, j < k PROVE r[k].high + 1 < r[j].low
    <3>1. CASE j = i
      <4>1. r[j] = s /\ r[k] = ds[k]
        BY <1>0, <1>1, <2>2, <3>1
      <4> QED BY <2>2, <3>1, <4>1
    <3>2. CASE k = i
      <4>1. r[k] = s /\ r[j] = ds[j]
        BY <1>0, <1>1, <2>2, <3>2
      <4> QED BY <2>2, <3>2, <4>1
    <3>3. CASE j # i /\ k # i
      BY <1>1, <2>2, <3>3 DEF Ordered
    <3> QED BY <3>1, <3>2, <3>3
  <2> QED BY <1>1, <2>1, <2>2 DEF Ordered
<1>4. ASSUME NEW x, x \in Heights(r) PROVE x \in Heights(ds) \cup (s.low .. s.high)
  <2>1. PICK j \in 1 .. n : x \in Nat /\ r[j].low <= x /\ x <= r[j].high
    BY <1>2, <1>4
  <2>2. CASE j = i
    BY <1>0, <1>1, <2>1, <2>2
  <2>3. CASE j # i
    BY <1>1, <1>2, <2>1, <2>3
  <2> QED BY <2>2, <2>3
<1>5. ASSUME NEW x \in s.low .. s.high PROVE x \in Heights(r)
  <2>1. x \in Nat /\ r[i].low <= x /\ x <= r[i].high
    BY <1>0, <1>1
  <2> QED BY <1>0, <1>2, <2>1
<1>6. ASSUME NEW x, x \in Heights(ds) PROVE x \in Heights(r)
  <2>1. PICK j \in 1 .. n : x \in Nat /\ ds[j].low <= x /\ x <= ds[j].high
    BY <1>2, <1>6
  <2>2. CASE j = i
    <3>1. ds[i].low <= x /\ x <= ds[i].high /\ x \in Nat
      BY <2>1, <2>2
    <3>2. s.low \in Nat /\ s.high \in Nat /\ ds[i].low \in Nat /\ ds[i].high \in Nat
      BY <1>0
    <3>3. s.low <= x /\ x <= s.high
      BY <3>1, <3>2
    <3>4. x \in s.low .. s.high
      BY <3>1, <3>2, <3>3
    <3> QED BY <1>5, <3>4
  <2>3. CASE j # i
    BY <1>1, <1>2, <2>1, <2>3
  <2> QED BY <2>2, <2>3
<1> QED BY <1>3, <1>4, <1>5, <1>6 DEF r

\* Two neighbours that the value joins become one sequence.
LEMMA Join ==
    ASSUME NEW ds, Ordered(ds), NEW value \in Nat, NEW i \in 1 .. Len(ds), i < Len(ds),
           value + 1 = ds[i].low, ds[i + 1].high + 1 = value
    PROVE  LET r == RemoveSequence([ds EXCEPT ![i].low = ds[i + 1].low], i + 1)
           IN  Ordered(r) /\ Heights(r) = Heights(ds) \cup {value}
<1> DEFINE s == [ds[i] EXCEPT !.low = ds[i + 1].low]
           m == [ds EXCEPT ![i] = s]
           r == RemoveSequence(m, i + 1)
           n == Len(ds)
<1>0. ds \in Index /\ n \in Nat /\ i + 1 \in 1 .. n
      /\ \A j \in 1 .. n : ds[j] \in [low : Nat, high : Nat] /\ ds[j].low \in Nat /\ ds[j].high \in Nat
  BY IndexElement DEF Ordered
<1>1. s \in [low : Nat, high : Nat] /\ s.low = ds[i + 1].low /\ s.high = ds[i].high
  BY <1>0
<1> HIDE DEF s
<1>2. m \in Index /\ Len(m) = n /\ m[i] = s /\ \A j \in 1 .. n : j # i => m[j] = ds[j]
  BY <1>0, <1>1, ReplaceSequence
<1> HIDE DEF m
<1>3. r \in Index /\ Len(r) = n - 1
      /\ \A j \in 1 .. n - 1 : r[j] = IF j < i + 1 THEN m[j] ELSE m[j + 1]
  <2>1. i + 1 \in 1 .. Len(m)
    BY <1>0, <1>2
  <2> QED BY <1>2, <2>1, RemoveSequenceElements
<1> HIDE DEF r
<1>4. /\ \A j \in 1 .. i - 1 : j \in 1 .. n /\ j \in 1 .. n - 1 /\ r[j] = ds[j]
      /\ i \in 1 .. n - 1 /\ r[i] = s
      /\ \A j \in i + 1 .. n - 1 : j + 1 \in 1 .. n /\ r[j] = ds[j + 1]
  BY <1>0, <1>2, <1>3, SMTT(40)
<1>5. /\ \A x : x \in Heights(ds) <=>
                    x \in Nat /\ \E j \in 1 .. n : ds[j].low <= x /\ x <= ds[j].high
      /\ \A x : x \in Heights(r) <=>
                    x \in Nat /\ \E j \in 1 .. n - 1 : r[j].low <= x /\ x <= r[j].high
  BY <1>0, <1>3, InHeights
<1>6. \A j \in 1 .. n - 1 : j \in 1 .. i - 1 \/ j = i \/ j \in i + 1 .. n - 1
  BY <1>0
<1>7. ds[i].low <= ds[i].high /\ ds[i + 1].low <= ds[i + 1].high
  BY <1>0 DEF Ordered
<1>8. Ordered(r)
  <2>1. ASSUME NEW j \in 1 .. n - 1 PROVE r[j].low <= r[j].high
    <3>1. CASE j = i
      BY <1>0, <1>1, <1>4, <1>7, <3>1
    <3>2. CASE j \in 1 .. i - 1
      BY <1>4, <3>2 DEF Ordered
    <3>3. CASE j \in i + 1 .. n - 1
      BY <1>4, <3>3 DEF Ordered
    <3> QED BY <1>6, <3>1, <3>2, <3>3
  <2>2. ASSUME NEW j \in 1 .. n - 1, NEW k \in 1 .. n - 1, j < k
        PROVE  r[k].high + 1 < r[j].low
    <3>1. CASE j \in 1 .. i - 1 /\ k \in 1 .. i - 1
      BY <1>4, <2>2, <3>1 DEF Ordered
    <3>2. CASE j \in 1 .. i - 1 /\ k = i
      <4>1. ds[i].high + 1 < ds[j].low
        BY <1>4, <2>2, <3>2 DEF Ordered
      <4> QED BY <1>1, <1>4, <3>2, <4>1
    <3>3. CASE j \in 1 .. i - 1 /\ k \in i + 1 .. n - 1
      <4>1. j < k + 1 /\ j \in 1 .. n /\ k + 1 \in 1 .. n
        BY <1>4, <3>3
      <4> QED BY <1>4, <3>3, <4>1 DEF Ordered
    <3>4. CASE j = i
      <4>1. k \in i + 1 .. n - 1 /\ i + 1 < k + 1 /\ k + 1 \in 1 .. n
        BY <1>0, <2>2, <3>4
      <4>2. ds[k + 1].high + 1 < ds[i + 1].low
        BY <1>0, <4>1 DEF Ordered
      <4> QED BY <1>1, <1>4, <3>4, <4>1, <4>2
    <3>5. CASE j \in i + 1 .. n - 1
      <4>1. k \in i + 1 .. n - 1 /\ j + 1 < k + 1
        BY <1>0, <2>2, <3>5
      <4>2. j + 1 \in 1 .. n /\ k + 1 \in 1 .. n
        BY <1>4, <3>5, <4>1
      <4> QED BY <1>4, <3>5, <4>1, <4>2 DEF Ordered
    <3> QED BY <1>0, <1>6, <2>2, <3>1, <3>2, <3>3, <3>4, <3>5
  <2> QED BY <1>3, <2>1, <2>2 DEF Ordered
<1>9. ASSUME NEW x, x \in Heights(r) PROVE x \in Heights(ds) \cup {value}
  <2>1. PICK j \in 1 .. n - 1 : x \in Nat /\ r[j].low <= x /\ x <= r[j].high
    BY <1>5, <1>9
  <2>2. CASE j = i
    <3>1. ds[i + 1].low <= x /\ x <= ds[i].high
      BY <1>1, <1>4, <2>1, <2>2
    <3>2. x = value \/ x <= ds[i + 1].high \/ ds[i].low <= x
      BY <1>0, <2>1
    <3> QED BY <1>0, <1>5, <2>1, <3>1, <3>2
  <2> QED BY <1>4, <1>5, <1>6, <2>1, <2>2
<1>10. value \in Heights(r)
  <2>1. r[i].low <= value /\ value <= r[i].high
    BY <1>0, <1>1, <1>4, <1>7
  <2> QED BY <1>4, <1>5, <2>1
<1>11. ASSUME NEW x, x \in Heights(ds) PROVE x \in Heights(r)
  <2>1. PICK j \in 1 .. n : x \in Nat /\ ds[j].low <= x /\ x <= ds[j].high
    BY <1>5, <1>11
  <2>2. CASE j \in 1 .. i - 1
    BY <1>4, <1>5, <2>1, <2>2
  <2>3. CASE j = i \/ j = i + 1
    <3>1. r[i].low <= x /\ x <= r[i].high
      BY <1>0, <1>1, <1>4, <1>7, <2>1, <2>3
    <3> QED BY <1>4, <1>5, <2>1, <3>1
  <2>4. CASE j \in i + 2 .. n
    <3>1. j - 1 \in 1 .. n - 1 /\ r[j - 1] = ds[j]
      BY <1>0, <1>2, <1>3, <2>4
    <3> QED BY <1>5, <2>1, <3>1
  <2>5. j \in 1 .. i - 1 \/ (j = i \/ j = i + 1) \/ j \in i + 2 .. n
    BY <1>0
  <2> QED BY <2>2, <2>3, <2>4, <2>5
<1>12. r = RemoveSequence([ds EXCEPT ![i].low = ds[i + 1].low], i + 1)
  BY DEF r, m, s
<1> QED BY <1>8, <1>9, <1>10, <1>11, <1>12

\* `insert` adds its value to the heights and nothing else, whichever sequences it
\* extends, splits or joins, and the list stays ordered with gaps.
LEMMA InsertAddsValue ==
    ASSUME NEW ds, Ordered(ds), NEW value \in Nat
    PROVE  LET r == Insert(ds, value)
           IN  Ordered(r) /\ Heights(r) = Heights(ds) \cup {value}
<1> DEFINE stops == {i \in 1 .. Len(ds) : StopsAt(ds, value, i)}
           n == Len(ds)
<1>0. ds \in Index /\ n \in Nat
      /\ \A j \in 1 .. n : /\ ds[j] \in [low : Nat, high : Nat] /\ ds[j].low <= ds[j].high
                           /\ ds[j].low \in Nat /\ ds[j].high \in Nat
  BY IndexElement DEF Ordered
<1>1. \A j \in 1 .. n : TryInsert(ds[j], value) = "TooLow" => value + 1 < ds[j].low
  BY <1>0, TryInsertOutcome
<1>2. CASE stops = {}
  <2>1. \A j \in 1 .. n : value + 1 < ds[j].low
    BY <1>0, <1>1, <1>2, StopsOrTooLow
  <2>2. Insert(ds, value) = Append(ds, Sequence(value, value))
    BY <1>2 DEF Insert
  <2> QED BY <2>1, <2>2, AppendSingle
<1>3. CASE stops # {}
  <2> DEFINE i == CHOOSE k \in stops : TRUE
             s == ds[i]
  <2>1. i \in stops /\ Insert(ds, value) = InsertInto(ds, i, value)
    BY <1>3 DEF Insert
  <2> HIDE DEF i
  <2>2. i \in 1 .. n /\ TryInsert(ds[i], value) # "TooLow"
        /\ \A j \in 1 .. n : j < i => value + 1 < ds[j].low
    BY <1>0, <1>1, <2>1 DEF StopsAt
  <2>3. ds[i] \in [low : Nat, high : Nat] /\ ds[i].low <= ds[i].high /\ ds[i].low \in Nat /\ ds[i].high \in Nat
        /\ \A j \in 1 .. n : i < j => ds[j].high + 1 < ds[i].low
    BY <1>0, <2>2 DEF Ordered
  <2>4. CASE TryInsert(ds[i], value) = "ExtendedHigh" /\ value = ds[i].high + 1
    <3> DEFINE w == [ds[i] EXCEPT !.high = value]
    <3>1. w \in [low : Nat, high : Nat] /\ w.low = ds[i].low /\ w.high = value
      BY <2>3
    <3>2. InsertInto(ds, i, value) = [ds EXCEPT ![i] = w]
      BY <2>4 DEF InsertInto
    <3> HIDE DEF w
    <3>3. Ordered([ds EXCEPT ![i] = w])
          /\ Heights([ds EXCEPT ![i] = w]) = Heights(ds) \cup (w.low .. w.high)
      <4>1. w.low <= ds[i].low /\ ds[i].high <= w.high
        BY <2>3, <2>4, <3>1
      <4>2. \A j \in 1 .. n : j < i => w.high + 1 < ds[j].low
        BY <2>2, <3>1
      <4>3. \A j \in 1 .. n : i < j => ds[j].high + 1 < w.low
        BY <2>3, <3>1
      <4> QED BY <2>2, <3>1, <4>1, <4>2, <4>3, Widen
    <3>4. ASSUME NEW x \in w.low .. w.high PROVE x \in Heights(ds) \cup {value}
      <4>1. x = value \/ (x \in Nat /\ ds[i].low <= x /\ x <= ds[i].high)
        BY <2>3, <2>4, <3>1
      <4> QED BY <1>0, <2>2, <4>1, InHeights
    <3>5. value \in w.low .. w.high
      BY <2>3, <2>4, <3>1
    <3> QED BY <2>1, <3>2, <3>3, <3>4, <3>5
  <2>5. CASE TryInsert(ds[i], value) = "AlreadyInSequence" /\ ds[i].low <= value /\ value <= ds[i].high
    <3>1. Insert(ds, value) = ds
      BY <2>1, <2>5 DEF InsertInto
    <3>2. value \in Heights(ds)
      BY <1>0, <2>2, <2>5, InHeights
    <3> QED BY <3>1, <3>2
  <2>6. CASE TryInsert(ds[i], value) = "ExtendedLow" /\ value + 1 = ds[i].low
    <3>1. Insert(ds, value) = Merge(ds, i, value)
      BY <2>1, <2>6 DEF InsertInto
    <3>2. CASE i < n /\ ds[i + 1].high + 1 = value
      <4>1. Merge(ds, i, value) = RemoveSequence([ds EXCEPT ![i].low = ds[i + 1].low], i + 1)
        BY <3>2 DEF Merge
      <4> DEFINE r == RemoveSequence([ds EXCEPT ![i].low = ds[i + 1].low], i + 1)
      <4>2. Ordered(r) /\ Heights(r) = Heights(ds) \cup {value}
        BY <2>2, <2>6, <3>2, Join
      <4> QED BY <3>1, <4>1, <4>2, Zenon
    <3>3. CASE ~(i < n /\ ds[i + 1].high + 1 = value)
      <4> DEFINE w == [ds[i] EXCEPT !.low = value]
      <4>1. w \in [low : Nat, high : Nat] /\ w.low = value /\ w.high = ds[i].high
        BY <2>3
      <4>2. Merge(ds, i, value) = [ds EXCEPT ![i] = w]
        BY <3>3 DEF Merge
      <4> HIDE DEF w
      <4>3. \A j \in 1 .. n : j < i => w.high + 1 < ds[j].low
        BY <1>0, <2>2, <4>1 DEF Ordered
      <4>4. ASSUME NEW j \in 1 .. n, i < j PROVE ds[j].high + 1 < w.low
        <5>1. i + 1 \in 1 .. n /\ i < n
          BY <1>0, <2>2, <4>4
        <5>2. ds[i + 1].high + 1 < ds[i].low /\ ds[i + 1].high \in Nat /\ ds[i + 1].low \in Nat
              /\ ds[i + 1].low <= ds[i + 1].high
          BY <1>0, <2>2, <5>1 DEF Ordered
        <5>3. ds[i + 1].high + 1 < value
          BY <2>3, <2>6, <3>3, <5>1, <5>2
        <5>4. CASE j = i + 1
          BY <4>1, <5>3, <5>4
        <5>5. CASE j # i + 1
          <6>1. i + 1 < j
            BY <2>2, <4>4, <5>5
          <6>2. ds[j].high + 1 < ds[i + 1].low /\ ds[j].high \in Nat
            BY <1>0, <5>1, <6>1 DEF Ordered
          <6> QED BY <4>1, <5>2, <5>3, <6>2, SMTT(40)
        <5> QED BY <5>4, <5>5
      <4>5. Ordered([ds EXCEPT ![i] = w])
            /\ Heights([ds EXCEPT ![i] = w]) = Heights(ds) \cup (w.low .. w.high)
        <5>1. w.low <= ds[i].low /\ ds[i].high <= w.high
          BY <2>3, <2>6, <4>1
        <5> QED BY <2>2, <4>1, <4>3, <4>4, <5>1, Widen
      <4>6. ASSUME NEW x \in w.low .. w.high PROVE x \in Heights(ds) \cup {value}
        <5>1. x = value \/ (x \in Nat /\ ds[i].low <= x /\ x <= ds[i].high)
          BY <2>3, <2>6, <4>1
        <5> QED BY <1>0, <2>2, <5>1, InHeights
      <4>7. value \in w.low .. w.high
        BY <2>3, <2>6, <4>1
      <4> QED BY <3>1, <4>2, <4>5, <4>6, <4>7
    <3> QED BY <3>2, <3>3
  <2>7. CASE TryInsert(ds[i], value) = "TooHigh" /\ value > ds[i].high + 1
    <3>1. Insert(ds, value) = InsertSequence(ds, i, Sequence(value, value))
      BY <2>1, <2>7 DEF InsertInto
    <3>2. \A j \in 1 .. i - 1 : value + 1 < ds[j].low
      BY <1>0, <2>2
    <3> QED BY <2>2, <2>7, <3>1, <3>2, InsertSingle
  <2> QED BY <2>2, <2>3, <2>4, <2>5, <2>6, <2>7, TryInsertOutcome
<1> QED BY <1>2, <1>3

\* A function on the first numbers is a list.
LEMMA FunctionIsIndex ==
    ASSUME NEW n \in Nat, NEW f \in [1 .. n -> [low : Nat, high : Nat]]
    PROVE  f \in Index /\ Len(f) = n
<1>1. f \in Index
  BY SeqDef, ZenonT(60) DEF Index
<1>2. DOMAIN f = 1 .. n /\ DOMAIN f = 1 .. Len(f) /\ Len(f) \in Nat
  BY <1>1, LenProperties DEF Index
<1>3. Len(f) = n
  <2>1. n \in 1 .. Len(f) \/ n = 0
    BY <1>2
  <2>2. Len(f) \in 1 .. n \/ Len(f) = 0
    BY <1>2
  <2> QED BY <1>2, <2>1, <2>2
<1> QED BY <1>1, <1>3

\* The sequences that reach down to a maximum are the last ones of the list.
LEMMA RetainedAreLast ==
    ASSUME NEW ds, Ordered(ds), NEW max_value \in Nat
    PROVE  \E m \in 1 .. Len(ds) + 1 :
               {i \in 1 .. Len(ds) : ds[i].low <= max_value} = m .. Len(ds)
<1> DEFINE K == {i \in 1 .. Len(ds) : ds[i].low <= max_value}
<1>0. Len(ds) \in Nat /\ \A j \in 1 .. Len(ds) : ds[j].low \in Nat /\ ds[j].high \in Nat
  BY IndexElement DEF Ordered
<1>1. CASE K = {}
  <2>1. Len(ds) + 1 \in 1 .. Len(ds) + 1 /\ Len(ds) + 1 .. Len(ds) = {}
    BY <1>0
  <2> QED BY <1>1, <2>1
<1>2. CASE K # {}
  <2>1. K \in SUBSET Nat
    BY <1>0
  <2>2. PICK m \in K : \A j \in K : m <= j
    <3> HIDE DEF K
    <3> QED BY <1>2, <2>1, Least
  <2>3. ASSUME NEW i \in m .. Len(ds) PROVE i \in K
    <3>1. i \in 1 .. Len(ds) /\ m \in 1 .. Len(ds) /\ ds[m].low <= max_value
      BY <1>0
    <3>2. CASE i = m
      BY <3>2
    <3>3. CASE m < i
      <4>1. ds[i].high + 1 < ds[m].low /\ ds[i].low <= ds[i].high
        BY <3>1, <3>3 DEF Ordered
      <4>2. ds[i].high \in Nat /\ ds[i].low \in Nat /\ ds[m].low \in Nat
        BY <1>0, <3>1
      <4> QED BY <3>1, <4>1, <4>2
    <3> QED BY <1>0, <3>2, <3>3
  <2>4. K = m .. Len(ds)
    BY <1>0, <2>2, <2>3
  <2> QED BY <1>0, <2>4
<1> QED BY <1>1, <1>2

\* What `retain_mut` keeps of the last sequences: each of them once, in their order.
LEMMA RetainLast ==
    ASSUME NEW ds \in Index, NEW m \in 1 .. Len(ds) + 1
    PROVE  \E c \in Nat : \E f \in [1 .. c -> m .. Len(ds)] :
               /\ \A i, j \in 1 .. c : i < j => f[i] < f[j]
               /\ \A k \in m .. Len(ds) : \E i \in 1 .. c : f[i] = k
               /\ Retain(ds, m .. Len(ds)) = [i \in 1 .. c |-> ds[f[i]]]
<1> DEFINE P == m .. Len(ds)
           c == Cardinality(P)
           Increasing(f) == \A i, j \in 1 .. c : i < j => f[i] < f[j]
           order == CHOOSE f \in [1 .. c -> P] : Increasing(f)
<1>0. Len(ds) \in Nat
  BY IndexElement
<1>1. IsFiniteSet(P) /\ c = Len(ds) - m + 1 /\ c \in Nat
  <2>1. m \in Int /\ Len(ds) \in Int /\ m <= Len(ds) + 1
    BY <1>0
  <2>2. IsFiniteSet(P) /\ c = IF m > Len(ds) THEN 0 ELSE Len(ds) - m + 1
    BY <2>1, FS_Interval
  <2> HIDE DEF c
  <2> QED BY <2>1, <2>2
<1>2. \E f \in [1 .. c -> P] : Increasing(f)
  <2> DEFINE g == [i \in 1 .. c |-> m + i - 1]
  <2>1. g \in [1 .. c -> P]
    BY <1>0, <1>1
  <2>2. Increasing(g)
    BY <1>0, <1>1
  <2> QED BY <2>1, <2>2
<1>3. order \in [1 .. c -> P] /\ Increasing(order)
  <2> HIDE DEF Increasing, P, c
  <2> QED BY <1>2
<1>4. Retain(ds, P) = [i \in 1 .. c |-> ds[order[i]]]
  BY DEF Retain
<1> HIDE DEF order, c
<1>5. order \in Surjection(1 .. c, P)
  <2>1. order \in Injection(1 .. c, P)
    <3>1. ASSUME NEW i \in 1 .. c, NEW j \in 1 .. c, order[i] = order[j] PROVE i = j
      <4>1. order[i] \in Int /\ order[j] \in Int
        BY <1>0, <1>3
      <4>2. ~(i < j) /\ ~(j < i)
        BY <1>3, <3>1, <4>1
      <4> QED BY <1>1, <4>2
    <3> QED BY <1>3, <3>1, Zenon DEF Injection, IsInjective
  <2>2. Cardinality(1 .. c) = c
    <3>1. 1 \in Int /\ c \in Int
      BY <1>1
    <3>2. Cardinality(1 .. c) = IF 1 > c THEN 0 ELSE c - 1 + 1
      BY <3>1, FS_Interval
    <3> QED BY <1>1, <3>2
  <2>3. Cardinality(1 .. c) = Cardinality(P)
    BY <2>2 DEF c
  <2> QED BY <1>1, <2>1, <2>3, FS_Injection
<1>6. \A k \in P : \E i \in 1 .. c : order[i] = k
  BY <1>5 DEF Surjection
<1> QED BY <1>1, <1>3, <1>4, <1>6

\* `truncate` keeps exactly the heights up to the maximum, and the list stays
\* ordered with gaps.
LEMMA TruncateCuts ==
    ASSUME NEW ds, Ordered(ds), NEW max_value \in Nat
    PROVE  LET r == Truncate(ds, max_value)
           IN  Ordered(r) /\ Heights(r) = {h \in Heights(ds) : h <= max_value}
<1> DEFINE n == Len(ds)
           K == {i \in 1 .. n : ds[i].low <= max_value}
           Cut(s) == IF s.high <= max_value THEN s ELSE [s EXCEPT !.high = max_value]
           r == Truncate(ds, max_value)
<1>0. ds \in Index /\ n \in Nat
      /\ \A j \in 1 .. n : /\ ds[j] \in [low : Nat, high : Nat] /\ ds[j].low <= ds[j].high
                           /\ ds[j].low \in Nat /\ ds[j].high \in Nat
  BY IndexElement DEF Ordered
<1>1. PICK m \in 1 .. n + 1 : K = m .. n
  BY RetainedAreLast
<1> DEFINE Keeps(c, f) ==
        /\ \A i, j \in 1 .. c : i < j => f[i] < f[j]
        /\ \A k \in m .. n : \E i \in 1 .. c : f[i] = k
        /\ Retain(ds, m .. n) = [i \in 1 .. c |-> ds[f[i]]]
<1>k. PICK c \in Nat : \E f \in [1 .. c -> m .. n] : Keeps(c, f)
  BY <1>0, RetainLast
<1>2. PICK f \in [1 .. c -> m .. n] : Keeps(c, f)
  BY <1>k
<1> DEFINE kept == [i \in 1 .. c |-> ds[f[i]]]
<1>3. \A i \in 1 .. c : f[i] \in K /\ f[i] \in 1 .. n /\ ds[f[i]].low <= max_value
  BY <1>1
<1>4. kept \in [1 .. c -> [low : Nat, high : Nat]] /\ Len(kept) = c
  <2>1. kept \in [1 .. c -> [low : Nat, high : Nat]]
    BY <1>0, <1>3
  <2> HIDE DEF kept
  <2> QED BY <2>1, FunctionIsIndex
<1>5. r = [i \in 1 .. c |-> Cut(ds[f[i]])]
  <2>1. r = [i \in 1 .. Len(kept) |-> Cut(kept[i])]
    BY <1>1, <1>2, Zenon DEF Truncate
  <2> HIDE DEF Cut
  <2> QED BY <1>4, <2>1
<1>6. \A i \in 1 .. c : /\ Cut(ds[f[i]]) \in [low : Nat, high : Nat]
                        /\ Cut(ds[f[i]]).low = ds[f[i]].low
                        /\ Cut(ds[f[i]]).high <= max_value /\ Cut(ds[f[i]]).high <= ds[f[i]].high
                        /\ Cut(ds[f[i]]).high \in {max_value, ds[f[i]].high}
  BY <1>0, <1>3
<1> HIDE DEF Cut, K, kept
<1>7. r \in Index /\ Len(r) = c /\ \A i \in 1 .. c : r[i] = Cut(ds[f[i]])
  <2>1. r \in [1 .. c -> [low : Nat, high : Nat]]
    BY <1>5, <1>6
  <2> QED BY <1>5, <2>1, FunctionIsIndex
<1> HIDE DEF r
<1>8. /\ \A x : x \in Heights(ds) <=>
                    x \in Nat /\ \E j \in 1 .. n : ds[j].low <= x /\ x <= ds[j].high
      /\ \A x : x \in Heights(r) <=>
                    x \in Nat /\ \E j \in 1 .. c : r[j].low <= x /\ x <= r[j].high
  BY <1>0, <1>7, InHeights
<1>9. Ordered(r)
  <2>1. ASSUME NEW i \in 1 .. c PROVE r[i].low <= r[i].high
    BY <1>0, <1>3, <1>6, <1>7, ZenonT(60)
  <2>2. ASSUME NEW i \in 1 .. c, NEW j \in 1 .. c, i < j PROVE r[j].high + 1 < r[i].low
    <3>1. f[i] \in 1 .. n /\ f[j] \in 1 .. n /\ f[i] < f[j]
      BY <1>2, <1>3, <2>2
    <3>2. ds[f[j]].high + 1 < ds[f[i]].low /\ ds[f[j]].high \in Nat /\ ds[f[i]].low \in Nat
      BY <1>0, <3>1 DEF Ordered
    <3>3. r[j].high <= ds[f[j]].high /\ r[i].low = ds[f[i]].low /\ r[j].high \in Nat
      BY <1>6, <1>7
    <3>4. \A x, y, z \in Nat : x <= y /\ y + 1 < z => x + 1 < z
      OBVIOUS
    <3> QED BY <3>2, <3>3, <3>4, Zenon
  <2> QED BY <1>7, <2>1, <2>2 DEF Ordered
<1>10. ASSUME NEW x, x \in Heights(r) PROVE x \in Heights(ds) /\ x <= max_value
  <2>1. PICK i \in 1 .. c : x \in Nat /\ r[i].low <= x /\ x <= r[i].high
    BY <1>8, <1>10
  <2>2. ds[f[i]].low <= x /\ x <= ds[f[i]].high /\ x <= max_value /\ f[i] \in 1 .. n
    <3>1. /\ f[i] \in 1 .. n /\ r[i].low = ds[f[i]].low /\ r[i].high \in Nat
          /\ r[i].high <= max_value /\ r[i].high <= ds[f[i]].high
      BY <1>3, <1>6, <1>7
    <3>2. ds[f[i]].high \in Nat
      BY <1>0, <3>1
    <3> QED BY <2>1, <3>1, <3>2, SMTT(40)
  <2> QED BY <1>8, <2>1, <2>2
<1>11. ASSUME NEW x, x \in Heights(ds), x <= max_value PROVE x \in Heights(r)
  <2>1. PICK k \in 1 .. n : x \in Nat /\ ds[k].low <= x /\ x <= ds[k].high
    BY <1>8, <1>11
  <2>2. k \in K
    BY <1>0, <1>11, <2>1 DEF K
  <2>3. PICK i \in 1 .. c : f[i] = k
    BY <1>1, <1>2, <2>2
  <2>4. r[i].low <= x /\ x <= r[i].high
    BY <1>6, <1>7, <1>11, <2>1, <2>3
  <2> QED BY <1>8, <2>1, <2>4
<1> QED BY <1>9, <1>10, <1>11 DEF r

-----------------------------------------------------------------------------
(* The inductive invariant                                                  *)

\* What a restart relies on besides the index: no block of the new version is
\* stored before the upgrade, and after a hard reset every stored block from the
\* activation point on is of the new version, so that no later restart deletes one.
ResetDone ==
    /\ version = Old => \A h \in AllHeights : blocks[h] # New
    /\ version = New /\ reset => \A h \in AllHeights : h >= activation => blocks[h] \in {Absent, New}

Inv == TypeOK /\ CompletedStored /\ ResetDone

\* An index is a list over the heights exactly when its heights are.
LEMMA IndexOfHeights ==
    ASSUME NEW ds
    PROVE  ds \in Seq([low : AllHeights, high : AllHeights]) /\ Disjoint(ds)
               <=> Ordered(ds) /\ Heights(ds) \subseteq AllHeights
<1> DEFINE S == [low : AllHeights, high : AllHeights]
           T == [low : Nat, high : Nat]
<1>1. S \subseteq T
  BY MaxHeightNat DEF AllHeights
<1>2. ASSUME ds \in Seq(S), Disjoint(ds) PROVE Ordered(ds) /\ Heights(ds) \subseteq AllHeights
  <2>1. ds \in Index
    <3> HIDE DEF S
    <3> QED BY <1>1, <1>2, SeqMonotonic DEF Index
  <2>2. \A i \in 1 .. Len(ds) : ds[i] \in S
    BY <1>2, ElementOfSeq
  <2>3. ASSUME NEW x \in Heights(ds) PROVE x \in AllHeights
    <3>1. PICK i \in 1 .. Len(ds) : x \in Nat /\ ds[i].low <= x /\ x <= ds[i].high
      BY <2>1, InHeights
    <3>2. ds[i].high \in AllHeights
      BY <2>2
    <3> QED BY <3>1, <3>2, MaxHeightNat DEF AllHeights
  <2> QED BY <1>2, <2>1, <2>3, OrderedIsDisjoint
<1>3. ASSUME Ordered(ds), Heights(ds) \subseteq AllHeights PROVE ds \in Seq(S)
  <2>1. ds \in Index /\ Len(ds) \in Nat
        /\ \A i \in 1 .. Len(ds) : ds[i] \in T /\ ds[i].low <= ds[i].high /\ ds[i].low \in Nat /\ ds[i].high \in Nat
    BY <1>3, IndexElement DEF Ordered
  <2>2. ASSUME NEW i \in 1 .. Len(ds) PROVE ds[i] \in S
    <3>1. ds[i].low \in Heights(ds) /\ ds[i].high \in Heights(ds)
      BY <2>1, InHeights
    <3> QED BY <1>3, <2>1, <3>1
  <2>3. ds \in [1 .. Len(ds) -> T]
    BY <2>1, LenProperties DEF Index
  <2>4. ds \in [1 .. Len(ds) -> S]
    <3> HIDE DEF S, T
    <3> QED BY <2>2, <2>3
  <2> HIDE DEF S
  <2> QED BY <2>1, <2>4, SeqDef
<1> QED BY <1>2, <1>3, OrderedIsDisjoint

\* The tip of a store that is not empty is its highest stored block.
LEMMA TipIsHighest ==
    ASSUME NEW bs, Stored(bs) # {}
    PROVE  Tip(bs) \in Stored(bs) /\ Tip(bs) \in Nat /\ \A h \in Stored(bs) : h <= Tip(bs)
<1> DEFINE S == Stored(bs) \cup {-1}
<1>1. Stored(bs) \subseteq 0 .. MaxHeight
  BY DEF Stored, AllHeights
<1>2. S \in SUBSET Int /\ S # {} /\ \A s \in S : -1 <= s /\ s <= MaxHeight
  BY <1>1, MaxHeightNat
<1>3. Max(S) \in S /\ \A s \in S : s <= Max(S)
  <2> HIDE DEF S
  <2> QED BY <1>2, MaxHeightNat, MaxIsGreatest
<1>4. Max(S) # -1
  BY <1>1, <1>3, MaxHeightNat
<1> QED BY <1>1, <1>3, <1>4, MaxHeightNat DEF Tip

LEMMA EmptyIndex == Ordered(<<>>) /\ Heights(<<>>) = {}
<1>1. <<>> \in Index /\ Len(<<>>) = 0
  BY EmptySeq DEF Index
<1> QED BY <1>1 DEF Ordered, Heights

LEMMA SingleIndex ==
    ASSUME NEW high \in Nat
    PROVE  Ordered(<<Sequence(0, high)>>) /\ Heights(<<Sequence(0, high)>>) = 0 .. high
<1> DEFINE s == Sequence(0, high)
<1>1. s \in [low : Nat, high : Nat] /\ s.low = 0 /\ s.high = high
  BY DEF Sequence
<1> HIDE DEF s
<1>2. <<s>> \in Index /\ Len(<<s>>) = 1 /\ <<s>>[1] = s
  BY <1>1 DEF Index
<1>3. Ordered(<<s>>)
  BY <1>1, <1>2 DEF Ordered
<1>4. ASSUME NEW x PROVE x \in Heights(<<s>>) <=> x \in 0 .. high
  <2>1. x \in Heights(<<s>>) <=> x \in Nat /\ \E i \in 1 .. 1 : <<s>>[i].low <= x /\ x <= <<s>>[i].high
    BY <1>2, InHeights
  <2>2. \A i \in 1 .. 1 : <<s>>[i].low = 0 /\ <<s>>[i].high = high
    BY <1>1, <1>2
  <2>3. 1 \in 1 .. 1
    OBVIOUS
  <2> QED BY <2>1, <2>2, <2>3
<1> QED BY <1>3, <1>4 DEF s

\* Loading the index in Storage::new drops the heights above the tip of the block
\* store and no others, or all of them on a forced resync.
LEMMA LoadIndexCuts ==
    ASSUME NEW bs, NEW v, NEW ds, Ordered(ds)
    PROVE  LET r == LoadIndex(bs, v, {ds})
           IN  /\ Ordered(r)
               /\ Heights(r) = {h \in Heights(ds) : \E t \in Stored(bs) : h <= t}
<1>1. (CHOOSE x \in {ds} : TRUE) = ds
  OBVIOUS
<1>2. CASE Stored(bs) = {}
  <2>1. LoadIndex(bs, v, {ds}) = <<>>
    BY <1>2 DEF LoadIndex
  <2> QED BY <1>2, <2>1, EmptyIndex
<1>3. CASE Stored(bs) # {}
  <2>1. LoadIndex(bs, v, {ds}) = Truncate(ds, Tip(bs))
    BY <1>1, <1>3 DEF LoadIndex
  <2>2. Tip(bs) \in Stored(bs) /\ Tip(bs) \in Nat /\ \A t \in Stored(bs) : t <= Tip(bs)
    BY <1>3, TipIsHighest
  <2>3. LET r == Truncate(ds, Tip(bs))
        IN  Ordered(r) /\ Heights(r) = {h \in Heights(ds) : h <= Tip(bs)}
    BY <2>2, TruncateCuts
  <2>4. ASSUME NEW h \in Heights(ds)
        PROVE  h <= Tip(bs) <=> \E t \in Stored(bs) : h <= t
    <3>1. h \in Nat
      BY InHeights DEF Ordered
    <3>2. Stored(bs) \subseteq Nat
      BY MaxHeightNat DEF Stored, AllHeights
    <3> QED BY <2>2, <3>1, <3>2
  <2>5. {h \in Heights(ds) : h <= Tip(bs)} = {h \in Heights(ds) : \E t \in Stored(bs) : h <= t}
    BY <2>4
  <2> QED BY <2>1, <2>3, <2>5, Zenon
<1> QED BY <1>2, <1>3

\* What Storage::new does to blocks and index when it deletes the blocks from `end`
\* on: exactly these leave the index, or everything does on a forced resync.
LEMMA StorageNewCuts ==
    ASSUME Inv, NEW v, NEW start, NEW hard_reset, NEW force_resync \in BOOLEAN,
           StorageNew(blocks, v, start, hard_reset, force_resync),
           NEW end \in 0 .. MaxHeight + 1,
           \A h \in AllHeights :
               Indexed(blocks, v, start, hard_reset)[h] = IF h < end THEN blocks[h] ELSE Absent
    PROVE  /\ blocks' \in [AllHeights -> {Absent, Legacy, Old, New}]
           /\ \A h \in AllHeights : blocks'[h] = IF h < end THEN blocks[h] ELSE Absent
           /\ Stored(blocks') = {h \in Stored(blocks) : h < end}
           /\ marker' \in BOOLEAN
           /\ Ordered(completed')
           /\ Heights(completed') \in {Heights(completed) \cap Stored(blocks'), {}}
           /\ marker' = marker => Heights(completed') = Heights(completed) \cap Stored(blocks')
           /\ persisted' = {completed'}
<1> DEFINE kept == Indexed(blocks, v, start, hard_reset)
<1>0. /\ blocks' = kept /\ marker' = (marker \/ force_resync) /\ persisted' = {completed'}
      /\ \/ completed' = <<>> /\ force_resync /\ ~marker
         \/ completed' = LoadIndex(kept, v, persisted)
  BY DEF StorageNew
<1>1. blocks \in [AllHeights -> {Absent, Legacy, Old, New}] /\ marker \in BOOLEAN /\ persisted = {completed}
      /\ Ordered(completed) /\ Heights(completed) \subseteq Stored(blocks)
  BY IndexOfHeights, Zenon DEF Inv, TypeOK, CompletedStored
<1>2. kept \in [AllHeights -> {Absent, Legacy, Old, New}]
  BY <1>1 DEF Indexed
<1>3. \A h \in AllHeights : blocks'[h] = IF h < end THEN blocks[h] ELSE Absent
  BY <1>0
<1> HIDE DEF kept
<1>4. Stored(blocks') = {h \in Stored(blocks) : h < end}
  BY <1>0, <1>3 DEF Stored
<1>5. /\ Ordered(LoadIndex(kept, v, {completed}))
      /\ Heights(LoadIndex(kept, v, {completed})) =
             {h \in Heights(completed) : \E t \in Stored(blocks') : h <= t}
  BY <1>0, <1>1, LoadIndexCuts
<1>6. {h \in Heights(completed) : \E t \in Stored(blocks') : h <= t} = Heights(completed) \cap Stored(blocks')
  <2>1. Stored(blocks) \subseteq Nat
    BY MaxHeightNat DEF Stored, AllHeights
  <2>2. ASSUME NEW h \in Heights(completed), NEW t \in Stored(blocks'), h <= t
        PROVE  h \in Stored(blocks')
    BY <1>1, <1>4, <2>1, <2>2, MaxHeightNat
  <2>3. ASSUME NEW h \in Heights(completed) \cap Stored(blocks')
        PROVE  \E t \in Stored(blocks') : h <= t
    BY <1>4, <2>1
  <2> QED BY <2>2, <2>3
<1>7. marker' \in BOOLEAN
  BY <1>0, <1>1, Zenon
<1>8. CASE completed' = <<>> /\ force_resync /\ ~marker
  <2>1. completed' = <<>> /\ marker' # marker
    BY <1>0, <1>1, <1>8, Zenon
  <2> QED BY <1>0, <1>2, <1>3, <1>4, <1>7, <2>1, EmptyIndex
<1>9. CASE completed' = LoadIndex(kept, v, persisted)
  <2>1. completed' = LoadIndex(kept, v, {completed})
    BY <1>1, <1>9
  <2> QED BY <1>0, <1>2, <1>3, <1>4, <1>5, <1>6, <1>7, <2>1
<1> QED BY <1>0, <1>8, <1>9

\* A restart deletes nothing.
LEMMA RestartDeletesNothing ==
    ASSUME Inv
    PROVE  \A h \in AllHeights : Indexed(blocks, version, activation, reset)[h] = blocks[h]
BY DEF Inv, TypeOK, ResetDone, Indexed, Old, New, Absent

\* An upgrade deletes the blocks from its activation point on if it is a hard reset.
LEMMA UpgradeDeletes ==
    ASSUME Inv, version = Old, NEW height \in AllHeights, NEW hard_reset \in BOOLEAN
    PROVE  \A h \in AllHeights :
               Indexed(blocks, New, height, hard_reset)[h] =
                   IF hard_reset /\ h >= height THEN Absent ELSE blocks[h]
BY DEF Inv, ResetDone, Indexed

\* The index of a database that has none: nothing, or the stored heights of
\* earlier versions, which are the lowest ones.
LEMMA InitIndex ==
    ASSUME Init
    PROVE  /\ blocks \in [AllHeights -> {Absent, Legacy, Old, New}]
           /\ \A h \in AllHeights : blocks[h] # New
           /\ Ordered(completed)
           /\ Heights(completed) \subseteq Stored(blocks)
           /\ Heights(completed) \in {{}} \cup {0 .. height : height \in AllHeights}
<1>1. PICK legacy \in -1 .. MaxHeight : \E aborted \in SUBSET (legacy + 1 .. MaxHeight) :
          blocks = [h \in AllHeights |->
                       IF h <= legacy THEN Legacy ELSE IF h \in aborted THEN Old ELSE Absent]
  BY DEF Init
<1>2. PICK aborted \in SUBSET (legacy + 1 .. MaxHeight) :
          blocks = [h \in AllHeights |->
                       IF h <= legacy THEN Legacy ELSE IF h \in aborted THEN Old ELSE Absent]
  BY <1>1
<1>3. blocks \in [AllHeights -> {Absent, Legacy, Old, New}] /\ \A h \in AllHeights : blocks[h] # New
  BY <1>2 DEF Absent, Legacy, Old, New
<1> DEFINE earlier == {h \in Stored(blocks) : blocks[h] # Old}
<1>4. earlier = 0 .. legacy /\ 0 .. legacy \subseteq Stored(blocks)
  BY <1>2, MaxHeightNat DEF Stored, AllHeights, Absent, Legacy, Old
<1>5. completed = IF earlier = {} THEN <<>> ELSE <<Sequence(0, Max(earlier))>>
  BY DEF Init, LoadIndex, LegacyIndex
<1> HIDE DEF earlier
<1>6. CASE legacy = -1
  <2>1. completed = <<>>
    BY <1>4, <1>5, <1>6
  <2> QED BY <1>3, <2>1, EmptyIndex
<1>7. CASE legacy # -1
  <2>1. legacy \in Nat /\ legacy \in AllHeights
    BY <1>7, MaxHeightNat DEF AllHeights
  <2>2. earlier \in SUBSET Int /\ earlier # {} /\ \A s \in earlier : -1 <= s /\ s <= legacy
    BY <1>4, <2>1
  <2>3. Max(earlier) \in earlier /\ \A s \in earlier : s <= Max(earlier)
    BY <2>1, <2>2, MaxIsGreatest
  <2>4. Max(earlier) = legacy
    BY <1>4, <2>1, <2>3
  <2>5. completed = <<Sequence(0, legacy)>>
    BY <1>5, <2>2, <2>4
  <2> QED BY <1>3, <1>4, <2>1, <2>5, SingleIndex
<1> QED BY <1>6, <1>7

LEMMA InitInv == Init => Inv
<1> SUFFICES ASSUME Init PROVE Inv
  OBVIOUS
<1>1. /\ blocks \in [AllHeights -> {Absent, Legacy, Old, New}]
      /\ \A h \in AllHeights : blocks[h] # New
      /\ Ordered(completed) /\ Heights(completed) \subseteq Stored(blocks)
  BY InitIndex
<1>2. Heights(completed) \subseteq AllHeights
  BY <1>1 DEF Stored
<1>3. completed \in Seq([low : AllHeights, high : AllHeights]) /\ Disjoint(completed)
  BY <1>1, <1>2, IndexOfHeights
<1>4. version = Old /\ activation = 0 /\ reset = FALSE /\ marker = FALSE
      /\ persisted = {completed} /\ restarts = 0
  BY DEF Init
<1>5. 0 \in AllHeights /\ 0 \in 0 .. MaxRestarts
  BY MaxHeightNat, OthersNat DEF AllHeights
<1>6. TypeOK
  BY <1>1, <1>3, <1>4, <1>5 DEF TypeOK
<1> QED BY <1>1, <1>4, <1>6 DEF Inv, CompletedStored, ResetDone, Old, New

\* Storing a block changes the block store only.
LEMMA PutBlockKeeps ==
    ASSUME Inv, NEW height \in AllHeights, PutBlock(height)
    PROVE  Inv' /\ Stored(blocks') = Stored(blocks) \cup {height}
<1>1. blocks \in [AllHeights -> {Absent, Legacy, Old, New}] /\ activation \in AllHeights
      /\ CompletedStored /\ ResetDone
  BY DEF Inv, TypeOK
<1>2. blocks' = [blocks EXCEPT ![height] = IF version = New /\ height >= activation THEN New ELSE Old]
  BY DEF PutBlock
<1>3. UNCHANGED <<version, activation, reset, marker, completed, persisted, restarts>>
  BY DEF PutBlock
<1>4. Stored(blocks') = Stored(blocks) \cup {height}
  BY <1>1, <1>2 DEF Stored, Old, New, Absent
<1>5. blocks' \in [AllHeights -> {Absent, Legacy, Old, New}]
  BY <1>1, <1>2
<1>6. TypeOK'
  BY <1>3, <1>5 DEF Inv, TypeOK
<1>7. CompletedStored'
  BY <1>1, <1>3, <1>4 DEF CompletedStored
<1>8. ResetDone'
  <2>1. ASSUME version = Old, NEW h \in AllHeights PROVE blocks'[h] # New
    BY <1>1, <1>2, <2>1 DEF ResetDone, Old, New
  <2>2. ASSUME version = New, reset, NEW h \in AllHeights, h >= activation
        PROVE  blocks'[h] \in {Absent, New}
    BY <1>1, <1>2, <2>2 DEF ResetDone
  <2> QED BY <1>3, <2>1, <2>2 DEF ResetDone
<1> QED BY <1>4, <1>6, <1>7, <1>8 DEF Inv

\* Marking a stored block complete adds its height to the index.
LEMMA MarkBlockCompleteKeeps ==
    ASSUME Inv, NEW height \in AllHeights, MarkBlockComplete(height)
    PROVE  /\ Inv' /\ height \in Stored(blocks)
           /\ Heights(completed') = Heights(completed) \cup {height}
<1>1. Ordered(completed) /\ Heights(completed) \subseteq AllHeights
      /\ Heights(completed) \subseteq Stored(blocks) /\ ResetDone
  BY IndexOfHeights DEF Inv, TypeOK, CompletedStored
<1>2. completed' = Insert(completed, height) /\ persisted' = {completed'} /\ height \in Stored(blocks)
  BY DEF MarkBlockComplete, Stored
<1>3. UNCHANGED <<blocks, version, activation, reset, marker, restarts>>
  BY DEF MarkBlockComplete
<1>4. height \in Nat
  BY MaxHeightNat DEF AllHeights
<1>5. Ordered(completed') /\ Heights(completed') = Heights(completed) \cup {height}
  BY <1>1, <1>2, <1>4, InsertAddsValue
<1>6. completed' \in Seq([low : AllHeights, high : AllHeights]) /\ Disjoint(completed')
  BY <1>1, <1>5, IndexOfHeights
<1>7. TypeOK'
  BY <1>2, <1>3, <1>6 DEF Inv, TypeOK
<1>8. CompletedStored'
  BY <1>1, <1>2, <1>3, <1>5 DEF CompletedStored
<1>9. ResetDone'
  BY <1>1, <1>3 DEF ResetDone
<1> QED BY <1>2, <1>5, <1>7, <1>8, <1>9 DEF Inv

\* What a start of the node does, as a restart or with a new version.
Cuts(end) ==
    /\ Stored(blocks') = {h \in Stored(blocks) : h < end}
    /\ Heights(completed') \in {Heights(completed) \cap Stored(blocks'), {}}
    /\ marker' = marker => Heights(completed') = Heights(completed) \cap Stored(blocks')

LEMMA RestartKeeps ==
    ASSUME Inv, NEW force_resync \in BOOLEAN, Restart(force_resync)
    PROVE  Inv' /\ Cuts(MaxHeight + 1)
<1>1. StorageNew(blocks, version, activation, reset, force_resync)
      /\ UNCHANGED <<version, activation, reset>> /\ restarts' = restarts + 1 /\ restarts < MaxRestarts
  BY DEF Restart
<1>2. MaxHeight + 1 \in 0 .. MaxHeight + 1 /\ \A h \in AllHeights : h < MaxHeight + 1
  BY MaxHeightNat DEF AllHeights
<1>3. \A h \in AllHeights : Indexed(blocks, version, activation, reset)[h] =
          IF h < MaxHeight + 1 THEN blocks[h] ELSE Absent
  BY <1>2, RestartDeletesNothing
<1>4. /\ blocks' \in [AllHeights -> {Absent, Legacy, Old, New}]
      /\ \A h \in AllHeights : blocks'[h] = IF h < MaxHeight + 1 THEN blocks[h] ELSE Absent
      /\ marker' \in BOOLEAN /\ Ordered(completed') /\ persisted' = {completed'}
      /\ Cuts(MaxHeight + 1)
  BY <1>1, <1>2, <1>3, StorageNewCuts DEF Cuts
<1>5. Heights(completed') \subseteq Stored(blocks') /\ Heights(completed') \subseteq AllHeights
  BY <1>4 DEF Cuts, Stored
<1>6. completed' \in Seq([low : AllHeights, high : AllHeights]) /\ Disjoint(completed')
  BY <1>4, <1>5, IndexOfHeights
<1>7. restarts' \in 0 .. MaxRestarts
  BY <1>1, OthersNat DEF Inv, TypeOK
<1>8. TypeOK'
  BY <1>1, <1>4, <1>6, <1>7 DEF Inv, TypeOK
<1>9. ResetDone'
  BY <1>1, <1>2, <1>4 DEF Inv, ResetDone
<1> QED BY <1>4, <1>5, <1>8, <1>9 DEF Inv, CompletedStored

LEMMA UpgradeKeeps ==
    ASSUME Inv, NEW height \in AllHeights, NEW hard_reset \in BOOLEAN, NEW force_resync \in BOOLEAN,
           Upgrade(height, hard_reset, force_resync)
    PROVE  Inv' /\ Cuts(IF hard_reset THEN height ELSE MaxHeight + 1)
<1> DEFINE end == IF hard_reset THEN height ELSE MaxHeight + 1
<1>1. StorageNew(blocks, New, height, hard_reset, force_resync) /\ version = Old
      /\ version' = New /\ activation' = height /\ reset' = hard_reset
      /\ restarts' = restarts + 1 /\ restarts < MaxRestarts
  BY DEF Upgrade
<1>2. end \in 0 .. MaxHeight + 1
  BY MaxHeightNat DEF AllHeights
<1>3. \A h \in AllHeights : Indexed(blocks, New, height, hard_reset)[h] =
          IF h < end THEN blocks[h] ELSE Absent
  BY <1>1, UpgradeDeletes, MaxHeightNat DEF AllHeights
<1>4. /\ blocks' \in [AllHeights -> {Absent, Legacy, Old, New}]
      /\ \A h \in AllHeights : blocks'[h] = IF h < end THEN blocks[h] ELSE Absent
      /\ marker' \in BOOLEAN /\ Ordered(completed') /\ persisted' = {completed'}
      /\ Cuts(end)
  <2> HIDE DEF end
  <2> QED BY <1>1, <1>2, <1>3, StorageNewCuts DEF Cuts
<1>5. Heights(completed') \subseteq Stored(blocks') /\ Heights(completed') \subseteq AllHeights
  BY <1>4 DEF Cuts, Stored
<1>6. completed' \in Seq([low : AllHeights, high : AllHeights]) /\ Disjoint(completed')
  BY <1>4, <1>5, IndexOfHeights
<1>7. restarts' \in 0 .. MaxRestarts
  BY <1>1, OthersNat DEF Inv, TypeOK
<1>8. TypeOK'
  BY <1>1, <1>4, <1>6, <1>7 DEF Inv, TypeOK
<1>9. ResetDone'
  BY <1>1, <1>4, MaxHeightNat DEF ResetDone, AllHeights, Old, New
<1> QED BY <1>4, <1>5, <1>8, <1>9 DEF Inv, CompletedStored

LEMMA NextInv == Inv /\ [Next]_vars => Inv'
<1> SUFFICES ASSUME Inv, [Next]_vars PROVE Inv'
  OBVIOUS
<1>1. CASE \E height \in AllHeights : PutBlock(height) \/ MarkBlockComplete(height)
  BY <1>1, PutBlockKeeps, MarkBlockCompleteKeeps
<1>2. CASE \E force_resync \in BOOLEAN : Restart(force_resync)
  BY <1>2, RestartKeeps
<1>3. CASE \E height \in AllHeights, hard_reset, force_resync \in BOOLEAN :
               Upgrade(height, hard_reset, force_resync)
  BY <1>3, UpgradeKeeps
<1>4. CASE UNCHANGED vars
  BY <1>4 DEF vars, Inv, TypeOK, CompletedStored, ResetDone, Stored
<1> QED BY <1>1, <1>2, <1>3, <1>4 DEF Next

LEMMA AlwaysInv == Spec => []Inv
BY InitInv, NextInv, PTL DEF Spec

-----------------------------------------------------------------------------
(* The theorems                                                             *)

\* The index is a list of disjoint sequences from high to low with gaps, whatever
\* order blocks are marked complete in, and the database holds the same list.
THEOREM TypeCorrect == Spec => []TypeOK
BY AlwaysInv, PTL DEF Inv

\* No height without a block is in the index, for any number of restarts, upgrades
\* and hard resets.
THEOREM CompletedStoredHolds == Spec => []CompletedStored
BY AlwaysInv, PTL DEF Inv

\* The transaction buffer gets every recent complete block if the complete blocks are
\* contiguous.
THEOREM RecentBlocksReadHolds == Spec => []RecentBlocksReadIfContiguous
<1>1. Inv => RecentBlocksReadIfContiguous
  <2> SUFFICES ASSUME Inv, Len(completed) = 1, NEW h \in Recent(completed[1])
               PROVE  h \in ReadBlocksForReplayProtection
    BY DEF RecentBlocksReadIfContiguous
  <2> DEFINE s == completed[1]
             switches == SwitchBlocks \cap Stored(blocks)
             visited == Heights(completed) \cap Stored(blocks)
  <2>1. Ordered(completed) /\ Heights(completed) \subseteq Stored(blocks)
    BY IndexOfHeights DEF Inv, TypeOK, CompletedStored
  <2>2. s.low \in Nat /\ s.high \in Nat /\ completed \in Index
    BY <2>1, IndexElement DEF Ordered
  <2>3. h \in s.low .. s.high
    BY DEF Recent
  <2>4. PICK w \in switches : (\A x \in switches : x <= w) /\ h + MaxTtl >= w
    BY DEF Recent
  <2>5. h \in visited
    <3>1. h \in Heights(completed)
      BY <2>2, <2>3, InHeights
    <3> QED BY <2>1, <3>1
  <2>6. switches \in SUBSET Int /\ switches # {} /\ \A x \in switches : -1 <= x /\ x <= MaxHeight
    BY <2>4, MaxHeightNat DEF Stored, AllHeights
  <2>7. Max(switches) \in switches /\ Max(switches) <= w
    <3>1. Max(switches) \in switches
      <4> HIDE DEF switches
      <4> QED BY <2>6, MaxHeightNat, MaxIsGreatest
    <3> QED BY <2>4, <3>1
  <2>8. OldestNeeded = Max(switches) - MaxTtl
    BY <2>6 DEF OldestNeeded
  <2> HIDE DEF switches
  <2>9. OldestNeeded \in Int /\ OldestNeeded <= h
    <3>1. w \in Int /\ Max(switches) \in Int
      BY <2>6, <2>7
    <3> QED BY <2>2, <2>3, <2>4, <2>7, <2>8, <3>1, OthersNat
  <2>10. ASSUME NEW k \in visited, k < OldestNeeded,
                \E i, j \in 1 .. Len(completed) :
                    /\ k \in completed[i].low .. completed[i].high
                    /\ h \in completed[j].low .. completed[j].high
                    /\ i > j \/ (i = j /\ k > h)
         PROVE  FALSE
    <3>1. k > h /\ k \in Int /\ h \in Int
      BY <2>2, <2>10
    <3> QED BY <2>9, <2>10, <3>1
  <2> HIDE DEF visited
  <2> QED BY <2>5, <2>10 DEF ReadBlocksForReplayProtection, visited
<1> QED BY <1>1, AlwaysInv, PTL

\* A restart or an upgrade that neither resets nor resyncs keeps every complete
\* height and makes none complete.
THEOREM RestartKeepsIndexHolds == Spec => RestartKeepsIndex
<1>1. Inv /\ [Next]_vars =>
          [restarts' # restarts /\ marker' = marker /\ ~reset'
               => Heights(completed') = Heights(completed)]_vars
  <2> SUFFICES ASSUME Inv, Next, restarts' # restarts, marker' = marker, ~reset'
               PROVE  Heights(completed') = Heights(completed)
    OBVIOUS
  <2>1. Heights(completed) \subseteq Stored(blocks) /\ \A h \in Stored(blocks) : h < MaxHeight + 1
    BY MaxHeightNat DEF Inv, CompletedStored, Stored, AllHeights
  <2>2. ASSUME Cuts(MaxHeight + 1) PROVE Heights(completed') = Heights(completed)
    BY <2>1, <2>2 DEF Cuts
  <2>3. CASE \E height \in AllHeights : PutBlock(height) \/ MarkBlockComplete(height)
    BY <2>3 DEF PutBlock, MarkBlockComplete
  <2>4. CASE \E force_resync \in BOOLEAN : Restart(force_resync)
    BY <2>2, <2>4, RestartKeeps
  <2>5. CASE \E height \in AllHeights, hard_reset, force_resync \in BOOLEAN :
                 Upgrade(height, hard_reset, force_resync)
    <3>1. PICK height \in AllHeights, hard_reset \in BOOLEAN, force_resync \in BOOLEAN :
              Upgrade(height, hard_reset, force_resync)
      BY <2>5
    <3>2. hard_reset = FALSE
      BY <3>1, Zenon DEF Upgrade
    <3>3. Cuts(IF hard_reset THEN height ELSE MaxHeight + 1)
      BY <3>1, UpgradeKeeps
    <3> QED BY <2>2, <3>2, <3>3
  <2> QED BY <2>3, <2>4, <2>5 DEF Next
<1> QED BY <1>1, AlwaysInv, PTL DEF Spec, RestartKeepsIndex

\* The list of sequences implements the set of heights of CompletedHeights.
THEOREM Refinement == Spec => ImplementsCompletedHeights
<1>1. Init => Abstract!Init
  <2> SUFFICES ASSUME Init PROVE Abstract!Init
    OBVIOUS
  <2>1. Stored(blocks) \subseteq 0 .. MaxHeight
    BY DEF Stored, AllHeights
  <2>2. Heights(completed) \subseteq Stored(blocks)
        /\ Heights(completed) \in {{}} \cup {0 .. height : height \in 0 .. MaxHeight}
    BY InitIndex DEF AllHeights
  <2> QED BY <2>1, <2>2 DEF Abstract!Init, Abstract!AllHeights
<1>2. Inv /\ [Next]_vars => [Abstract!Next]_<<Stored(blocks), Heights(completed)>>
  <2> SUFFICES ASSUME Inv, [Next]_vars
               PROVE  [Abstract!Next]_<<Stored(blocks), Heights(completed)>>
    OBVIOUS
  <2>1. ASSUME NEW height \in AllHeights, PutBlock(height) PROVE Abstract!Next
    <3>1. Stored(blocks') = Stored(blocks) \cup {height} /\ completed' = completed
      BY <2>1, PutBlockKeeps DEF PutBlock
    <3> QED BY <3>1 DEF Abstract!Next, Abstract!Put, Abstract!AllHeights, AllHeights
  <2>2. ASSUME NEW height \in AllHeights, MarkBlockComplete(height) PROVE Abstract!Next
    <3>1. height \in Stored(blocks) /\ Heights(completed') = Heights(completed) \cup {height}
          /\ blocks' = blocks
      BY <2>2, MarkBlockCompleteKeeps DEF MarkBlockComplete
    <3> QED BY <3>1 DEF Abstract!Next, Abstract!Mark, Abstract!AllHeights, AllHeights
  <2>3. ASSUME NEW end \in 0 .. MaxHeight + 1, Cuts(end) PROVE Abstract!Next
    BY <2>3 DEF Cuts, Abstract!Next, Abstract!Restart
  <2>4. CASE \E height \in AllHeights : PutBlock(height) \/ MarkBlockComplete(height)
    BY <2>1, <2>2, <2>4
  <2>5. CASE \E force_resync \in BOOLEAN : Restart(force_resync)
    <3>1. MaxHeight + 1 \in 0 .. MaxHeight + 1
      BY MaxHeightNat
    <3> QED BY <2>3, <2>5, <3>1, RestartKeeps
  <2>6. CASE \E height \in AllHeights, hard_reset, force_resync \in BOOLEAN :
                 Upgrade(height, hard_reset, force_resync)
    <3>1. PICK height \in AllHeights, hard_reset \in BOOLEAN, force_resync \in BOOLEAN :
              Upgrade(height, hard_reset, force_resync)
      BY <2>6
    <3>2. (IF hard_reset THEN height ELSE MaxHeight + 1) \in 0 .. MaxHeight + 1
      BY MaxHeightNat DEF AllHeights
    <3> QED BY <2>3, <3>1, <3>2, UpgradeKeeps
  <2>7. CASE UNCHANGED vars
    BY <2>7 DEF vars, Stored
  <2> QED BY <2>4, <2>5, <2>6, <2>7 DEF Next
<1> QED BY <1>1, <1>2, AlwaysInv, PTL DEF Spec, ImplementsCompletedHeights, Abstract!Spec
=============================================================================
