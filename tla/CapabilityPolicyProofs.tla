----------------------- MODULE CapabilityPolicyProofs -----------------------
(***************************************************************************)
(* What an invocation may reach and bring back, for paths, prefixes, base  *)
(* URLs and bodies of any length and any routes.                           *)
(***************************************************************************)
EXTENDS CapabilityPolicy, SequenceTheorems, WellFoundedInduction, TLAPS

-----------------------------------------------------------------------------
(* Induction, over a set of numbers or of sequences.                       *)
LEMMA Least ==
  ASSUME NEW T \in SUBSET Nat, T # {}
  PROVE  \E m \in T : \A n \in T : m <= n
<1>1. PICK m \in T : \A n \in T : <<n, m>> \notin OpToRel(<, Nat)
  BY WFMin, NatLessThanWellFounded
<1>2. \A n \in T : ~ (n < m)
  BY <1>1 DEF OpToRel
<1> QED
  BY <1>2

LEMMA Counting ==
  ASSUME NEW N \in Nat, NEW T \in SUBSET (0 .. N), 0 \in T,
         \A n \in 1 .. N : n - 1 \in T => n \in T
  PROVE  T = 0 .. N
<1> DEFINE Rest == (0 .. N) \ T
<1> SUFFICES ASSUME Rest # {} PROVE FALSE
  OBVIOUS
<1>1. Rest \in SUBSET Nat
  OBVIOUS
<1>2. PICK m \in Rest : \A n \in Rest : m <= n
  <2> HIDE DEF Rest
  <2> QED
    BY <1>1, Least
<1>3. m \in 1 .. N /\ m - 1 \in 0 .. N /\ m - 1 \notin Rest
  BY <1>2
<1> QED
  BY <1>2, <1>3

LEMMA Lengthening ==
  ASSUME NEW S, NEW P \in SUBSET Seq(S), <<>> \in P,
         \A s \in P, e \in S : Append(s, e) \in P
  PROVE  P = Seq(S)
<1> SUFFICES ASSUME NEW seq \in Seq(S) PROVE seq \in P
  OBVIOUS
<1> DEFINE N == Len(seq)
           T == {n \in 0 .. N : \A s \in Seq(S) : Len(s) = n => s \in P}
<1>1. N \in Nat
  OBVIOUS
<1>2. 0 \in T
  BY <1>1, EmptySeq
<1>3. ASSUME NEW n \in 1 .. N, n - 1 \in T PROVE n \in T
  <2> SUFFICES ASSUME NEW s \in Seq(S), Len(s) = n PROVE s \in P
    BY <1>1
  <2>1. s # <<>>
    BY <1>1, EmptySeq
  <2>2. PICK t \in Seq(S), e \in S : s = Append(t, e)
    BY <2>1, SequenceEmptyOrAppend
  <2>3. Len(t) = n - 1
    BY <2>2, AppendProperties
  <2>4. t \in P
    BY <1>3, <2>3
  <2> QED
    BY <2>2, <2>4
<1>4. T = 0 .. N
  <2> HIDE DEF N, T
  <2>1. T \in SUBSET (0 .. N)
    BY DEF T
  <2> QED
    BY <1>1, <1>2, <1>3, <2>1, Counting
<1>5. N \in T
  <2> HIDE DEF T
  <2> QED
    BY <1>1, <1>4
<1> QED
  BY <1>5

(* What is defined from a first value by one step after another is there.  *)
LEMMA Recursion ==
  ASSUME NEW S, NEW a \in S, NEW N \in Nat, NEW step \in [1 .. N -> [S -> S]]
  PROVE  \E g \in [0 .. N -> S] :
           g[0] = a /\ \A n \in 1 .. N : g[n] = step[n][g[n - 1]]
<1> DEFINE Runs(n, g) == /\ g[0] = a
                         /\ \A i \in 1 .. n : g[i] = step[i][g[i - 1]]
           T == {n \in 0 .. N : \E g \in [0 .. n -> S] : Runs(n, g)}
<1>1. 0 \in T
  <2> DEFINE g == [i \in 0 .. 0 |-> a]
  <2>1. g \in [0 .. 0 -> S] /\ Runs(0, g)
    OBVIOUS
  <2>2. \E h \in [0 .. 0 -> S] : Runs(0, h)
    BY <2>1
  <2> QED
    BY <2>2
<1>2. ASSUME NEW n \in 1 .. N, n - 1 \in T PROVE n \in T
  <2>1. PICK g \in [0 .. n - 1 -> S] : Runs(n - 1, g)
    BY <1>2
  <2> DEFINE h == [i \in 0 .. n |-> IF i = n THEN step[n][g[n - 1]] ELSE g[i]]
  <2>2. g[n - 1] \in S /\ step[n] \in [S -> S]
    OBVIOUS
  <2>3. step[n][g[n - 1]] \in S
    BY <2>2
  <2>4. h \in [0 .. n -> S]
    BY <2>3
  <2>5. h[0] = a
    BY <2>1
  <2>6. ASSUME NEW i \in 1 .. n PROVE h[i] = step[i][h[i - 1]]
    <3>1. i - 1 \in 0 .. n - 1 /\ h[i - 1] = g[i - 1]
      OBVIOUS
    <3>2. CASE i = n
      BY <3>1, <3>2
    <3>3. CASE i # n
      <4>1. i \in 1 .. n - 1 /\ h[i] = g[i]
        BY <3>3
      <4> QED
        BY <2>1, <3>1, <4>1
    <3> QED
      BY <3>2, <3>3
  <2> HIDE DEF h
  <2> QED
    BY <2>4, <2>5, <2>6
<1>3. T = 0 .. N
  <2>1. T \in SUBSET (0 .. N)
    OBVIOUS
  <2> HIDE DEF T
  <2> QED
    BY <1>1, <1>2, <2>1, Counting
<1> QED
  BY <1>3

-----------------------------------------------------------------------------
(* The segments of a path.                                                 *)
Lists == Seq(Seq(Byte))

LEMMA SplitType ==
  ASSUME NEW done \in Lists, NEW byte \in Byte
  PROVE  /\ Split(done, byte) \in Lists
         /\ byte = "/" => /\ Len(Split(done, byte)) = Len(done) + 1
                          /\ Split(done, byte)[Len(done) + 1] = <<>>
                          /\ \A i \in 1 .. Len(done) : Split(done, byte)[i] = done[i]
         /\ byte # "/" /\ done # <<>> =>
              /\ Len(Split(done, byte)) = Len(done)
              /\ Split(done, byte)[Len(done)] = Append(done[Len(done)], byte)
              /\ \A i \in 1 .. Len(done) - 1 : Split(done, byte)[i] = done[i]
<1>1. CASE byte = "/"
  <2>1. <<>> \in Seq(Byte)
    OBVIOUS
  <2>2. Split(done, byte) = Append(done, <<>>)
    BY <1>1 DEF Split
  <2>3. /\ Append(done, <<>>) \in Seq(Seq(Byte))
        /\ Len(Append(done, <<>>)) = Len(done) + 1
        /\ \A i \in 1 .. Len(done) : Append(done, <<>>)[i] = done[i]
        /\ Append(done, <<>>)[Len(done) + 1] = <<>>
    BY <2>1, AppendProperties DEF Lists
  <2> QED
    BY <1>1, <2>2, <2>3 DEF Lists
<1>2. CASE byte # "/" /\ done # <<>>
  <2>1. Len(done) \in 1 .. Len(done)
    BY <1>2, EmptySeq DEF Lists
  <2>2. done[Len(done)] \in Seq(Byte)
    BY <2>1 DEF Lists
  <2>3. Append(done[Len(done)], byte) \in Seq(Byte)
    BY <2>2
  <2>4. Split(done, byte) = [done EXCEPT ![Len(done)] = Append(done[Len(done)], byte)]
    BY <1>2 DEF Split
  <2> QED
    BY <1>2, <2>1, <2>3, <2>4, ExceptSeq DEF Lists
<1>3. CASE byte # "/" /\ done = <<>>
  <2>1. Split(done, byte) = [done EXCEPT ![Len(done)] = Append(@, byte)]
    BY <1>3 DEF Split
  <2>2. DOMAIN done = {}
    BY <1>3
  <2>3. Split(done, byte) = done
    BY <1>3, <2>1, <2>2
  <2> QED
    BY <1>3, <2>3
<1> QED
  BY <1>1, <1>2, <1>3

LEMMA SegmentsDef ==
  ASSUME NEW path \in Seq(Byte)
  PROVE  \E g : /\ g = [n \in 0 .. Len(path) |->
                         IF n = 0 THEN <<>> ELSE Split(g[n - 1], path[n])]
                /\ Segments(path) = g[Len(path)]
<1> DEFINE N == Len(path)
           nothing == <<>>
           step == [n \in 1 .. N |-> [done \in Lists |-> Split(done, path[n])]]
           Runs(g) == g = [n \in 0 .. N |-> IF n = 0 THEN <<>> ELSE Split(g[n - 1], path[n])]
<1>1. N \in Nat /\ nothing \in Lists
  BY DEF Lists
<1>2. \A n \in 1 .. N : path[n] \in Byte
  OBVIOUS
<1>3. step \in [1 .. N -> [Lists -> Lists]]
  BY <1>2, SplitType
<1>4. PICK g \in [0 .. N -> Lists] :
        g[0] = nothing /\ \A n \in 1 .. N : g[n] = step[n][g[n - 1]]
  <2> HIDE DEF N, nothing, step
  <2> QED
    BY <1>1, <1>3, Recursion
<1>5. ASSUME NEW n \in 0 .. N
      PROVE g[n] = IF n = 0 THEN <<>> ELSE Split(g[n - 1], path[n])
  <2>1. CASE n = 0
    BY <1>4, <2>1
  <2>2. CASE n # 0
    <3>1. n \in 1 .. N /\ n - 1 \in 0 .. N
      BY <2>2, <1>1
    <3>2. step[n][g[n - 1]] = Split(g[n - 1], path[n])
      BY <3>1
    <3> QED
      BY <1>4, <2>2, <3>2
  <2> QED
    BY <2>1, <2>2
<1>6. Runs(g)
  <2>1. g = [n \in 0 .. N |-> g[n]]
    OBVIOUS
  <2> QED
    BY <1>5, <2>1
<1> DEFINE c == CHOOSE h : Runs(h)
<1>7. Runs(c)
  <2> HIDE DEF Runs
  <2> QED
    BY <1>6
<1>8. Segments(path) = c[N]
  BY DEF Segments
<1> QED
  BY <1>7, <1>8

LEMMA SegmentsOfNothing == Segments(<<>>) = <<>>
<1>1. <<>> \in Seq(Byte) /\ Len(<<>>) = 0
  OBVIOUS
<1>2. PICK g : /\ g = [n \in 0 .. Len(<<>>) |->
                         IF n = 0 THEN <<>> ELSE Split(g[n - 1], <<>>[n])]
               /\ Segments(<<>>) = g[Len(<<>>)]
  BY <1>1, SegmentsDef
<1>3. g[0] = <<>>
  BY <1>1, <1>2
<1> QED
  BY <1>1, <1>2, <1>3

LEMMA OneByteMore ==
  ASSUME NEW path \in Seq(Byte), NEW byte \in Byte
  PROVE  Segments(Append(path, byte)) = Split(Segments(path), byte)
<1> DEFINE N == Len(path)
           more == Append(path, byte)
<1>1. /\ N \in Nat
      /\ more \in Seq(Byte) /\ Len(more) = N + 1
      /\ \A n \in 1 .. N : more[n] = path[n]
      /\ more[N + 1] = byte
  BY AppendProperties
<1>2. PICK g : /\ g = [n \in 0 .. N |-> IF n = 0 THEN <<>> ELSE Split(g[n - 1], path[n])]
               /\ Segments(path) = g[N]
  BY SegmentsDef
<1>3. PICK h : /\ h = [n \in 0 .. Len(more) |->
                         IF n = 0 THEN <<>> ELSE Split(h[n - 1], more[n])]
               /\ Segments(more) = h[Len(more)]
  <2> HIDE DEF more
  <2> QED
    BY <1>1, SegmentsDef
<1> HIDE DEF more
<1>4. \A n \in 1 .. N : g[n] = Split(g[n - 1], path[n])
  BY <1>1, <1>2
<1>5. \A n \in 1 .. N + 1 : h[n] = Split(h[n - 1], more[n])
  BY <1>1, <1>3
<1> DEFINE T == {n \in 0 .. N : g[n] = h[n]}
<1>6. 0 \in T
  BY <1>1, <1>2, <1>3
<1>7. ASSUME NEW n \in 1 .. N, n - 1 \in T PROVE n \in T
  BY <1>1, <1>4, <1>5, <1>7
<1>8. T = 0 .. N
  <2>1. T \in SUBSET (0 .. N)
    OBVIOUS
  <2> HIDE DEF T
  <2> QED
    BY <1>1, <1>6, <1>7, <2>1, Counting
<1>9. g[N] = h[N]
  BY <1>1, <1>8
<1>10. h[N + 1] = Split(h[N], more[N + 1])
  BY <1>1, <1>5
<1> QED
  BY <1>1, <1>2, <1>3, <1>9, <1>10 DEF more

LEMMA SegmentsType ==
  ASSUME NEW path \in Seq(Byte)
  PROVE  Segments(path) \in Lists
<1> DEFINE P == {p \in Seq(Byte) : Segments(p) \in Lists}
<1>1. <<>> \in P
  <2>1. <<>> \in Seq(Byte) /\ <<>> \in Lists
    BY EmptySeq DEF Lists
  <2> QED
    BY <2>1, SegmentsOfNothing
<1>2. ASSUME NEW p \in P, NEW b \in Byte PROVE Append(p, b) \in P
  BY OneByteMore, SplitType
<1>3. P = Seq(Byte)
  <2>1. P \in SUBSET Seq(Byte)
    OBVIOUS
  <2> HIDE DEF P
  <2> QED
    BY <1>1, <1>2, <2>1, Lengthening
<1> QED
  BY <1>3

Rooted(path) == path # <<>> => path[1] = "/"

(* What a byte more of a path leaves.                                      *)
LEMMA RootedLess ==
  ASSUME NEW path \in Seq(Byte), NEW byte \in Byte, Rooted(Append(path, byte))
  PROVE  Rooted(path) /\ (path = <<>> => byte = "/")
<1>1. /\ Append(path, byte) # <<>>
      /\ \A i \in 1 .. Len(path) : Append(path, byte)[i] = path[i]
      /\ Append(path, byte)[Len(path) + 1] = byte
  BY AppendProperties
<1>2. path # <<>> => 1 \in 1 .. Len(path)
  BY EmptySeq
<1> QED
  BY <1>1, <1>2 DEF Rooted

LEMMA SomeSegment ==
  ASSUME NEW path \in Seq(Byte), Rooted(path), path # <<>>
  PROVE  Segments(path) # <<>>
<1> DEFINE P == {p \in Seq(Byte) : Rooted(p) /\ p # <<>> => Segments(p) # <<>>}
<1>1. <<>> \in P
  OBVIOUS
<1>2. ASSUME NEW p \in P, NEW b \in Byte PROVE Append(p, b) \in P
  <2> SUFFICES ASSUME Rooted(Append(p, b)) PROVE Segments(Append(p, b)) # <<>>
    OBVIOUS
  <2>1. Segments(p) \in Lists /\ Segments(Append(p, b)) = Split(Segments(p), b)
    BY SegmentsType, OneByteMore
  <2>2. Rooted(p) /\ (p = <<>> => b = "/")
    BY RootedLess
  <2>3. b = "/" \/ Segments(p) # <<>>
    BY <2>2
  <2>4. Len(Segments(p)) \in Nat /\ (Segments(p) # <<>> => Len(Segments(p)) > 0)
    BY <2>1, EmptySeq DEF Lists
  <2>5. Split(Segments(p), b) \in Lists /\ Len(Split(Segments(p), b)) > 0
    BY <2>1, <2>3, <2>4, SplitType
  <2> QED
    BY <2>1, <2>5
<1>3. P = Seq(Byte)
  <2>1. P \in SUBSET Seq(Byte)
    OBVIOUS
  <2> HIDE DEF P
  <2> QED
    BY <1>1, <1>2, <2>1, Lengthening
<1> QED
  BY <1>3

(* Bytes on the right of a list of segments change only that list's own.   *)
LEMMA SplitOnTheRight ==
  ASSUME NEW left \in Lists, NEW right \in Lists, NEW byte \in Byte,
         byte = "/" \/ right # <<>>
  PROVE  Split(left \o right, byte) = left \o Split(right, byte)
<1> DEFINE both == left \o right
           one == Split(both, byte)
           two == left \o Split(right, byte)
<1>1. /\ Len(left) \in Nat /\ Len(right) \in Nat
      /\ right # <<>> => Len(right) > 0
      /\ both \in Lists /\ Len(both) = Len(left) + Len(right)
      /\ \A i \in 1 .. Len(left) + Len(right) :
           both[i] = IF i <= Len(left) THEN left[i] ELSE right[i - Len(left)]
  BY EmptySeq, ConcatProperties DEF Lists
<1>2. Split(right, byte) \in Lists /\ one \in Lists
  BY <1>1, SplitType
<1>3. /\ two \in Lists /\ Len(two) = Len(left) + Len(Split(right, byte))
      /\ \A i \in 1 .. Len(left) + Len(Split(right, byte)) :
           two[i] = IF i <= Len(left) THEN left[i] ELSE Split(right, byte)[i - Len(left)]
  BY <1>2, ConcatProperties DEF Lists
<1> HIDE DEF one, two, both
<1>4. Len(one) = Len(two) /\ \A i \in 1 .. Len(one) : one[i] = two[i]
  <2>1. CASE byte = "/"
    <3>1. /\ Len(one) = Len(both) + 1
          /\ one[Len(both) + 1] = <<>>
          /\ \A i \in 1 .. Len(both) : one[i] = both[i]
      BY <1>1, <2>1, SplitType DEF one
    <3>2. /\ Len(Split(right, byte)) = Len(right) + 1
          /\ Split(right, byte)[Len(right) + 1] = <<>>
          /\ \A i \in 1 .. Len(right) : Split(right, byte)[i] = right[i]
      BY <2>1, SplitType
    <3>3. Len(one) = Len(two)
      BY <1>1, <1>3, <3>1, <3>2
    <3>4. ASSUME NEW i \in 1 .. Len(one) PROVE one[i] = two[i]
      <4>1. CASE i <= Len(left)
        BY <1>1, <1>3, <3>1, <3>2, <4>1
      <4>2. CASE i > Len(left) /\ i <= Len(both)
        <5>1. /\ i - Len(left) \in 1 .. Len(right) /\ i \in 1 .. Len(both)
              /\ ~ (i <= Len(left))
              /\ i \in 1 .. Len(left) + Len(Split(right, byte))
          BY <1>1, <3>2, <4>2
        <5>2. one[i] = right[i - Len(left)]
          BY <1>1, <3>1, <5>1
        <5>3. two[i] = Split(right, byte)[i - Len(left)]
          BY <1>3, <5>1
        <5> QED
          BY <3>2, <5>1, <5>2, <5>3
      <4>3. CASE i = Len(both) + 1
        <5>1. i - Len(left) = Len(right) + 1 /\ ~ (i <= Len(left))
          BY <1>1, <4>3
        <5>2. i \in 1 .. Len(left) + Len(Split(right, byte))
          BY <1>1, <3>2, <4>3
        <5> QED
          BY <1>3, <3>1, <3>2, <4>3, <5>1, <5>2
      <4> QED
        BY <1>1, <3>1, <4>1, <4>2, <4>3
    <3> QED
      BY <3>3, <3>4
  <2>2. CASE byte # "/"
    <3>1. right # <<>> /\ both # <<>>
      BY <1>1, <2>2, EmptySeq
    <3>2. /\ Len(one) = Len(both)
          /\ one[Len(both)] = Append(both[Len(both)], byte)
          /\ \A i \in 1 .. Len(both) - 1 : one[i] = both[i]
      BY <1>1, <2>2, <3>1, SplitType DEF one
    <3>3. /\ Len(Split(right, byte)) = Len(right)
          /\ Split(right, byte)[Len(right)] = Append(right[Len(right)], byte)
          /\ \A i \in 1 .. Len(right) - 1 : Split(right, byte)[i] = right[i]
      BY <2>2, <3>1, SplitType
    <3>4. Len(one) = Len(two)
      BY <1>1, <1>3, <3>2, <3>3
    <3>5. ASSUME NEW i \in 1 .. Len(one) PROVE one[i] = two[i]
      <4>1. CASE i <= Len(left)
        <5>1. i \in 1 .. Len(both) - 1
          BY <1>1, <3>1, <4>1
        <5> QED
          BY <1>1, <1>3, <3>2, <3>3, <4>1, <5>1
      <4>2. CASE i > Len(left) /\ i < Len(both)
        <5>1. i - Len(left) \in 1 .. Len(right) - 1 /\ i \in 1 .. Len(both) - 1
          BY <1>1, <4>2
        <5> QED
          BY <1>1, <1>3, <3>2, <3>3, <4>2, <5>1
      <4>3. CASE i = Len(both)
        <5>1. /\ i - Len(left) = Len(right) /\ ~ (i <= Len(left))
              /\ i \in 1 .. Len(left) + Len(right)
          BY <1>1, <3>1, <4>3
        <5>2. both[i] = right[Len(right)]
          BY <1>1, <5>1
        <5> QED
          BY <1>3, <3>2, <3>3, <4>3, <5>1, <5>2
      <4> QED
        BY <1>1, <3>2, <4>1, <4>2, <4>3
    <3> QED
      BY <3>4, <3>5
  <2> QED
    BY <2>1, <2>2
<1>5. one = two
  BY <1>2, <1>3, <1>4, SeqEqual DEF Lists
<1> QED
  BY <1>5 DEF one, two, both

(* The segments of a path that begins with a slash follow those before it. *)
LEMMA SegmentsOfBoth ==
  ASSUME NEW front \in Seq(Byte), NEW back \in Seq(Byte), Rooted(back)
  PROVE  Segments(front \o back) = Segments(front) \o Segments(back)
<1> DEFINE P == {p \in Seq(Byte) :
                   Rooted(p) => Segments(front \o p) = Segments(front) \o Segments(p)}
<1>1. <<>> \in P
  <2>1. <<>> \in Seq(Byte)
    BY EmptySeq
  <2>2. front \o <<>> = front
    BY ConcatEmptySeq
  <2>3. Segments(front) \o <<>> = Segments(front)
    BY SegmentsType, ConcatEmptySeq DEF Lists
  <2> QED
    BY <2>1, <2>2, <2>3, SegmentsOfNothing
<1>2. ASSUME NEW p \in P, NEW b \in Byte PROVE Append(p, b) \in P
  <2> SUFFICES ASSUME Rooted(Append(p, b))
               PROVE  Segments(front \o Append(p, b)) = Segments(front) \o Segments(Append(p, b))
    OBVIOUS
  <2>1. Rooted(p) /\ (p = <<>> => b = "/")
    BY RootedLess
  <2>2. b = "/" \/ Segments(p) # <<>>
    BY <2>1, SomeSegment
  <2>3. front \o Append(p, b) = Append(front \o p, b)
    OBVIOUS
  <2>4. front \o p \in Seq(Byte)
    OBVIOUS
  <2>5. Segments(front \o Append(p, b)) = Split(Segments(front \o p), b)
    BY <2>3, <2>4, OneByteMore
  <2>6. Segments(Append(p, b)) = Split(Segments(p), b)
    BY OneByteMore
  <2>7. Split(Segments(front) \o Segments(p), b) = Segments(front) \o Split(Segments(p), b)
    BY <2>2, SegmentsType, SplitOnTheRight
  <2> QED
    BY <2>1, <2>5, <2>6, <2>7
<1>3. P = Seq(Byte)
  <2>1. P \in SUBSET Seq(Byte)
    OBVIOUS
  <2> HIDE DEF P
  <2> QED
    BY <1>1, <1>2, <2>1, Lengthening
<1> QED
  BY <1>3

(* The last byte of a path, and what is before it.                         *)
LEMMA SameEnds ==
  ASSUME NEW p \in Seq(Byte), NEW q \in Seq(Byte), NEW x \in Byte, NEW y \in Byte,
         Append(p, x) = Append(q, y)
  PROVE  p = q /\ x = y
BY AppendInjective

LEMMA AppendToBoth ==
  ASSUME NEW p \in Seq(Byte), NEW q \in Seq(Byte), NEW x \in Byte
  PROVE  Append(p \o q, x) = p \o Append(q, x)
OBVIOUS

(* No two paths have the same segments.                                    *)
LEMMA SplitIsInjective ==
  ASSUME NEW c \in Lists, NEW d \in Lists, NEW x \in Byte, NEW y \in Byte,
         x = "/" \/ c # <<>>, y = "/" \/ d # <<>>,
         Split(c, x) = Split(d, y)
  PROVE  c = d /\ x = y
<1>1. /\ Len(c) \in Nat /\ Len(d) \in Nat
      /\ c # <<>> => Len(c) > 0
      /\ d # <<>> => Len(d) > 0
      /\ \A i \in 1 .. Len(c) : c[i] \in Seq(Byte)
      /\ \A i \in 1 .. Len(d) : d[i] \in Seq(Byte)
  BY EmptySeq DEF Lists
<1>2. x = y
  <2>1. ASSUME NEW e \in Lists, NEW z \in Byte, e # <<>>, z # "/"
        PROVE  Split(e, z)[Len(Split(e, z))] # <<>>
    <3>1. Len(e) \in Nat /\ Len(e) > 0 /\ e[Len(e)] \in Seq(Byte)
      BY <2>1, EmptySeq DEF Lists
    <3>2. Append(e[Len(e)], z) # <<>>
      BY <3>1, AppendProperties
    <3> QED
      BY <2>1, <3>2, SplitType
  <2>2. ASSUME NEW e \in Lists PROVE Split(e, "/")[Len(Split(e, "/"))] = <<>>
    BY SplitType DEF Byte
  <2>3. x = "/" <=> y = "/"
    BY <2>1, <2>2
  <2>4. CASE x # "/" /\ y # "/"
    <3>1. /\ Len(Split(c, x)) = Len(c) /\ Split(c, x)[Len(c)] = Append(c[Len(c)], x)
          /\ Len(Split(d, y)) = Len(d) /\ Split(d, y)[Len(d)] = Append(d[Len(d)], y)
      BY <2>4, SplitType
    <3>2. Append(c[Len(c)], x) = Append(d[Len(d)], y)
      BY <3>1
    <3>3. c[Len(c)] \in Seq(Byte) /\ d[Len(d)] \in Seq(Byte)
      BY <1>1, <2>4
    <3> QED
      BY <3>2, <3>3, AppendInjective
  <2> QED
    BY <2>3, <2>4
<1>3. CASE x = "/"
  <2>1. /\ Len(Split(c, x)) = Len(c) + 1 /\ \A i \in 1 .. Len(c) : Split(c, x)[i] = c[i]
        /\ Len(Split(d, y)) = Len(d) + 1 /\ \A i \in 1 .. Len(d) : Split(d, y)[i] = d[i]
    BY <1>2, <1>3, SplitType
  <2>2. Len(c) = Len(d) /\ \A i \in 1 .. Len(c) : c[i] = d[i]
    BY <1>1, <2>1
  <2> QED
    BY <1>2, <2>2, SeqEqual DEF Lists
<1>4. CASE x # "/"
  <2>1. /\ Len(Split(c, x)) = Len(c) /\ \A i \in 1 .. Len(c) - 1 : Split(c, x)[i] = c[i]
        /\ Len(Split(d, y)) = Len(d) /\ \A i \in 1 .. Len(d) - 1 : Split(d, y)[i] = d[i]
        /\ Split(c, x)[Len(c)] = Append(c[Len(c)], x)
        /\ Split(d, y)[Len(d)] = Append(d[Len(d)], y)
    BY <1>2, <1>4, SplitType
  <2>2. Len(c) = Len(d) /\ Len(c) > 0
    BY <1>1, <1>4, <2>1
  <2>3. c[Len(c)] = d[Len(c)]
    <3>1. c[Len(c)] \in Seq(Byte) /\ d[Len(c)] \in Seq(Byte)
      BY <1>1, <2>2
    <3>2. Append(c[Len(c)], x) = Append(d[Len(c)], y)
      BY <2>1, <2>2
    <3> QED
      BY <3>1, <3>2, SameEnds
  <2>4. \A i \in 1 .. Len(c) - 1 : c[i] = d[i]
    BY <2>1, <2>2
  <2>5. \A i \in 1 .. Len(c) : c[i] = d[i]
    BY <1>1, <2>2, <2>3, <2>4
  <2> QED
    BY <1>2, <2>2, <2>5, SeqEqual DEF Lists
<1> QED
  BY <1>3, <1>4

LEMMA SegmentsAreInjective ==
  ASSUME NEW p \in Seq(Byte), NEW q \in Seq(Byte), Rooted(p), Rooted(q),
         Segments(p) = Segments(q)
  PROVE  p = q
<1> DEFINE P == {r \in Seq(Byte) :
                   \A t \in Seq(Byte) :
                     Rooted(r) /\ Rooted(t) /\ Segments(r) = Segments(t) => r = t}
<1>1. <<>> \in P
  <2>1. <<>> \in Seq(Byte)
    BY EmptySeq
  <2> QED
    BY <2>1, SegmentsOfNothing, SomeSegment
<1>2. ASSUME NEW r \in P, NEW x \in Byte PROVE Append(r, x) \in P
  <2> SUFFICES ASSUME NEW t \in Seq(Byte), Rooted(Append(r, x)), Rooted(t),
                      Segments(Append(r, x)) = Segments(t)
               PROVE  Append(r, x) = t
    OBVIOUS
  <2>1. Append(r, x) \in Seq(Byte) /\ Append(r, x) # <<>>
    BY AppendProperties
  <2>2. t # <<>>
    BY <2>1, SegmentsOfNothing, SomeSegment
  <2>3. PICK u \in Seq(Byte), y \in Byte : t = Append(u, y)
    BY <2>2, SequenceEmptyOrAppend
  <2>4. Rooted(r) /\ (r = <<>> => x = "/")
    BY RootedLess
  <2>5. Rooted(u) /\ (u = <<>> => y = "/")
    BY <2>3, RootedLess
  <2>6. Split(Segments(r), x) = Split(Segments(u), y)
    BY <2>3, OneByteMore
  <2>7. /\ Segments(r) \in Lists /\ Segments(u) \in Lists
        /\ x = "/" \/ Segments(r) # <<>>
        /\ y = "/" \/ Segments(u) # <<>>
    BY <2>4, <2>5, SegmentsType, SomeSegment
  <2>8. Segments(r) = Segments(u) /\ x = y
    BY <2>6, <2>7, SplitIsInjective
  <2>9. r = u
    BY <2>4, <2>5, <2>8
  <2> QED
    BY <2>3, <2>8, <2>9
<1>3. P = Seq(Byte)
  <2>1. P \in SUBSET Seq(Byte)
    OBVIOUS
  <2> HIDE DEF P
  <2> QED
    BY <1>1, <1>2, <2>1, Lengthening
<1> QED
  BY <1>3

(* A path can be cut after any of its segments.                            *)
LEMMA SplitKeeps ==
  ASSUME NEW c \in Lists, NEW x \in Byte, NEW k \in 0 .. Len(c),
         x = "/" \/ k < Len(c)
  PROVE  SubSeq(Split(c, x), 1, k) = SubSeq(c, 1, k)
<1>1. Len(c) \in Nat /\ k \in Nat
  BY DEF Lists
<1>2. \A i \in 1 .. k : Split(c, x)[i] = c[i]
  <2>1. CASE x = "/"
    <3>1. \A i \in 1 .. Len(c) : Split(c, x)[i] = c[i]
      BY <2>1, SplitType
    <3> QED
      BY <1>1, <3>1
  <2>2. CASE x # "/"
    <3>1. c # <<>> /\ k < Len(c)
      BY <1>1, <2>2, EmptySeq
    <3>2. \A i \in 1 .. Len(c) - 1 : Split(c, x)[i] = c[i]
      BY <2>2, <3>1, SplitType
    <3> QED
      BY <1>1, <3>1, <3>2
  <2> QED
    BY <2>1, <2>2
<1>3. /\ \A i \in 1 .. k : c[i] \in Seq(Byte)
      /\ \A i \in 1 .. k : Split(c, x)[i] \in Seq(Byte)
  BY <1>1, <1>2 DEF Lists
<1> DEFINE one == SubSeq(Split(c, x), 1, k)
           two == SubSeq(c, 1, k)
<1>4. /\ one \in Lists /\ Len(one) = k /\ \A i \in 1 .. k : one[i] = Split(c, x)[i]
      /\ two \in Lists /\ Len(two) = k /\ \A i \in 1 .. k : two[i] = c[i]
  BY <1>1, <1>3, SubSeqProperties DEF Lists
<1> HIDE DEF one, two
<1>5. one = two
  BY <1>1, <1>2, <1>4, SeqEqual DEF Lists
<1> QED
  BY <1>5 DEF one, two

Cuts(path, n, front, back) ==
  /\ path = front \o back
  /\ Rooted(front) /\ Rooted(back)
  /\ Segments(front) = SubSeq(Segments(path), 1, n)

LEMMA Cut ==
  ASSUME NEW path \in Seq(Byte), Rooted(path), NEW n \in 0 .. Len(Segments(path))
  PROVE  \E front, back \in Seq(Byte) : Cuts(path, n, front, back)
<1> DEFINE P == {p \in Seq(Byte) :
                   Rooted(p) => \A k \in 0 .. Len(Segments(p)) :
                                  \E a, b \in Seq(Byte) : Cuts(p, k, a, b)}
<1>1. <<>> \in P
  <2>1. <<>> \in Seq(Byte) /\ Rooted(<<>>)
    BY EmptySeq DEF Rooted
  <2>2. <<>> = <<>> \o <<>>
    BY <2>1, ConcatEmptySeq
  <2>3. ASSUME NEW k \in 0 .. Len(Segments(<<>>))
        PROVE  Segments(<<>>) = SubSeq(Segments(<<>>), 1, k)
    <3>1. Segments(<<>>) = <<>> /\ k = 0
      BY SegmentsOfNothing
    <3>2. SubSeq(<<>>, 1, 0) = <<>>
      BY SubSeqEmpty
    <3> QED
      BY <3>1, <3>2
  <2> QED
    BY <2>1, <2>2, <2>3 DEF Cuts
<1>2. ASSUME NEW p \in P, NEW x \in Byte PROVE Append(p, x) \in P
  <2> DEFINE q == Append(p, x)
  <2> SUFFICES ASSUME Rooted(q), NEW k \in 0 .. Len(Segments(q))
               PROVE  \E a, b \in Seq(Byte) : Cuts(q, k, a, b)
    OBVIOUS
  <2>1. Rooted(p) /\ (p = <<>> => x = "/")
    BY RootedLess
  <2>2. /\ q \in Seq(Byte) /\ q # <<>>
        /\ Segments(p) \in Lists /\ Segments(q) \in Lists
        /\ Segments(q) = Split(Segments(p), x)
    <3>1. q \in Seq(Byte) /\ q # <<>>
      BY AppendProperties
    <3>2. Segments(q) = Split(Segments(p), x)
      BY OneByteMore
    <3> HIDE DEF q
    <3> QED
      BY <3>1, <3>2, SegmentsType
  <2>3. CASE k = Len(Segments(q))
    <3>1. <<>> \in Seq(Byte) /\ Rooted(<<>>) /\ q = q \o <<>>
      BY <2>2, EmptySeq, ConcatEmptySeq DEF Rooted
    <3>2. Segments(q) = SubSeq(Segments(q), 1, k)
      BY <2>2, <2>3, SubSeqFull DEF Lists
    <3> HIDE DEF q
    <3>3. Cuts(q, k, q, <<>>)
      BY <3>1, <3>2 DEF Cuts
    <3> QED
      BY <2>2, <3>1, <3>3
  <2>4. CASE k # Len(Segments(q))
    <3>1. /\ Len(Segments(p)) \in Nat
          /\ x = "/" => Len(Segments(q)) = Len(Segments(p)) + 1
          /\ x # "/" => Len(Segments(q)) = Len(Segments(p))
      <4>1. x # "/" => Segments(p) # <<>>
        BY <2>1, SomeSegment
      <4> QED
        BY <2>2, <4>1, SplitType DEF Lists
    <3>2. k \in 0 .. Len(Segments(p)) /\ (x = "/" \/ k < Len(Segments(p)))
      BY <2>4, <3>1
    <3>3. PICK a, b \in Seq(Byte) : Cuts(p, k, a, b)
      BY <2>1, <3>2
    <3>4. SubSeq(Segments(q), 1, k) = SubSeq(Segments(p), 1, k)
      BY <2>2, <3>2, SplitKeeps
    <3>5. q = a \o Append(b, x) /\ Append(b, x) \in Seq(Byte)
      <4>1. p = a \o b
        BY <3>3 DEF Cuts
      <4>2. Append(a \o b, x) = a \o Append(b, x)
        BY AppendToBoth
      <4> QED
        BY <4>1, <4>2, AppendProperties
    <3>6. Rooted(Append(b, x))
      <4>1. CASE b = <<>>
        <5>1. p = a
          BY <3>3, <4>1, ConcatEmptySeq DEF Cuts
        <5>2. Segments(p) = SubSeq(Segments(p), 1, k)
          BY <3>3, <5>1 DEF Cuts
        <5>3. Len(SubSeq(Segments(p), 1, k)) = k
          BY <3>1, <3>2, <2>2, SubSeqProperties DEF Lists
        <5>4. k = Len(Segments(p))
          BY <5>2, <5>3
        <5>5. x = "/"
          BY <3>1, <3>2, <5>4
        <5> QED
          BY <4>1, <5>5 DEF Rooted
      <4>2. CASE b # <<>>
        <5>1. b[1] = "/" /\ 1 \in 1 .. Len(b)
          BY <3>3, <4>2, EmptySeq DEF Cuts, Rooted
        <5>2. Append(b, x)[1] = b[1]
          BY <5>1, AppendProperties
        <5> QED
          BY <5>1, <5>2 DEF Rooted
      <4> QED
        BY <4>1, <4>2
    <3> HIDE DEF q
    <3>7. Cuts(q, k, a, Append(b, x))
      BY <3>3, <3>4, <3>5, <3>6 DEF Cuts
    <3> QED
      BY <3>5, <3>7
  <2> QED
    BY <2>3, <2>4
<1>3. P = Seq(Byte)
  <2>1. P \in SUBSET Seq(Byte)
    OBVIOUS
  <2> HIDE DEF P
  <2> QED
    BY <1>1, <1>2, <2>1, Lengthening
<1> QED
  BY <1>3

-----------------------------------------------------------------------------
(* What a prefix allows is what it grants.                                 *)
LEMMA PrefixMeans ==
  ASSUME NEW S, NEW s \in Seq(S), NEW t \in Seq(S)
  PROVE  IsPrefix(s, t) <=> Len(s) <= Len(t) /\ \A i \in 1 .. Len(s) : s[i] = t[i]
<1>1. Len(s) \in Nat /\ Len(t) \in Nat
  OBVIOUS
<1>2. SubSeq(s, 1, Len(s)) = s
  BY SubSeqFull
<1> SUFFICES ASSUME Len(s) <= Len(t)
             PROVE  s = SubSeq(t, 1, Len(s)) <=> \A i \in 1 .. Len(s) : s[i] = t[i]
  BY <1>2 DEF IsPrefix
<1> DEFINE u == SubSeq(t, 1, Len(s))
<1>3. /\ u \in Seq(S) /\ Len(u) = Len(s)
      /\ \A i \in 1 .. Len(s) : u[i] = t[i]
  <2>1. \A i \in 1 .. Len(s) : t[i] \in S
    BY <1>1
  <2> QED
    BY <1>1, <2>1, SubSeqProperties
<1> HIDE DEF u
<1>4. s = u <=> \A i \in 1 .. Len(s) : s[i] = t[i]
  BY <1>3, SeqEqual
<1> QED
  BY <1>4 DEF u

LEMMA SlashAfter ==
  ASSUME NEW front \in Seq(Byte), NEW back \in Seq(Byte), Rooted(back), back # <<>>
  PROVE  IsPrefix(Append(front, "/"), front \o back)
<1>1. back[1] = "/" /\ Len(back) \in Nat /\ Len(back) > 0 /\ Len(front) \in Nat
  BY EmptySeq DEF Rooted
<1>2. /\ Append(front, "/") \in Seq(Byte) /\ Len(Append(front, "/")) = Len(front) + 1
      /\ \A i \in 1 .. Len(front) : Append(front, "/")[i] = front[i]
      /\ Append(front, "/")[Len(front) + 1] = "/"
  BY AppendProperties DEF Byte
<1>3. /\ front \o back \in Seq(Byte) /\ Len(front \o back) = Len(front) + Len(back)
      /\ \A i \in 1 .. Len(front) + Len(back) :
           (front \o back)[i] = IF i <= Len(front) THEN front[i] ELSE back[i - Len(front)]
  BY ConcatProperties
<1>4. ASSUME NEW i \in 1 .. Len(front) + 1 PROVE Append(front, "/")[i] = (front \o back)[i]
  <2>1. i \in 1 .. Len(front) + Len(back)
    BY <1>1
  <2>2. CASE i <= Len(front)
    BY <1>1, <1>2, <1>3, <2>1, <2>2
  <2>3. CASE i = Len(front) + 1
    <3>1. i - Len(front) = 1 /\ ~ (i <= Len(front))
      BY <1>1, <2>3
    <3> QED
      BY <1>1, <1>2, <1>3, <2>1, <2>3, <3>1
  <2> QED
    BY <1>1, <2>2, <2>3
<1>5. Len(front) + 1 <= Len(front) + Len(back)
  BY <1>1
<1> QED
  BY <1>2, <1>3, <1>4, <1>5, PrefixMeans

LEMMA AfterSlash ==
  ASSUME NEW front \in Seq(Byte), NEW path \in Seq(Byte), IsPrefix(Append(front, "/"), path)
  PROVE  \E back \in Seq(Byte) : path = front \o back /\ Rooted(back) /\ back # <<>>
<1> DEFINE N == Len(front)
           L == Len(path)
           back == SubSeq(path, N + 1, L)
<1>1. N \in Nat /\ L \in Nat
  OBVIOUS
<1>2. /\ Append(front, "/") \in Seq(Byte) /\ Len(Append(front, "/")) = N + 1
      /\ \A i \in 1 .. N : Append(front, "/")[i] = front[i]
      /\ Append(front, "/")[N + 1] = "/"
  BY AppendProperties DEF Byte
<1>3. N + 1 <= L /\ \A i \in 1 .. N + 1 : Append(front, "/")[i] = path[i]
  <2> DEFINE more == Append(front, "/")
  <2>1. more \in Seq(Byte) /\ Len(more) = N + 1 /\ IsPrefix(more, path)
    BY <1>2
  <2> HIDE DEF more
  <2>2. Len(more) <= L /\ \A i \in 1 .. Len(more) : more[i] = path[i]
    BY <2>1, PrefixMeans
  <2> QED
    BY <2>1, <2>2 DEF more
<1>4. \A i \in 1 .. N : front[i] = path[i]
  BY <1>1, <1>2, <1>3
<1>5. path[N + 1] = "/"
  BY <1>1, <1>2, <1>3
<1>6. \A i \in N + 1 .. L : path[i] \in Byte
  BY <1>1
<1>7. /\ back \in Seq(Byte) /\ Len(back) = L - N
      /\ \A i \in 1 .. L - N : back[i] = path[i + N]
  <2>1. /\ back \in Seq(Byte) /\ Len(back) = IF N + 1 <= L THEN L - (N + 1) + 1 ELSE 0
        /\ \A i \in 1 .. L - (N + 1) + 1 : back[i] = path[(N + 1) + i - 1]
    <3> HIDE DEF N, L
    <3> QED
      BY <1>1, <1>6, SubSeqProperties
  <2>2. L - (N + 1) + 1 = L - N
    BY <1>1
  <2>3. \A i \in 1 .. L - N : (N + 1) + i - 1 = i + N
    BY <1>1
  <2> QED
    BY <1>3, <2>1, <2>2, <2>3
<1> HIDE DEF back
<1>8. /\ front \o back \in Seq(Byte) /\ Len(front \o back) = N + Len(back)
      /\ \A i \in 1 .. N + Len(back) :
           (front \o back)[i] = IF i <= N THEN front[i] ELSE back[i - N]
  BY <1>7, ConcatProperties
<1>9. path = front \o back
  <2>1. Len(front \o back) = L
    BY <1>1, <1>7, <1>8
  <2>2. ASSUME NEW i \in 1 .. L PROVE path[i] = (front \o back)[i]
    <3>1. i \in 1 .. N + Len(back)
      BY <1>1, <1>7
    <3>2. CASE i <= N
      BY <1>1, <1>4, <1>8, <3>1, <3>2
    <3>3. CASE i > N
      <4>1. i - N \in 1 .. L - N /\ (i - N) + N = i /\ ~ (i <= N)
        BY <1>1, <3>3
      <4>2. back[i - N] = path[i]
        BY <1>7, <4>1
      <4> QED
        BY <1>8, <3>1, <4>1, <4>2
    <3>4. i <= N \/ i > N
      <4> HIDE DEF N, L
      <4> QED
        BY <1>1
    <3> QED
      BY <3>2, <3>3, <3>4
  <2> QED
    BY <1>8, <2>1, <2>2, SeqEqual
<1>10. Rooted(back) /\ back # <<>>
  <2>1. 1 \in 1 .. L - N /\ 1 + N = N + 1
    BY <1>1, <1>3
  <2>2. back[1] = "/"
    BY <1>5, <1>7, <2>1
  <2> QED
    BY <1>7, <2>1, <2>2 DEF Rooted
<1> QED
  BY <1>7, <1>9, <1>10

(* The last segment is empty after a slash, and no other.                  *)
LEMMA LastSegment ==
  ASSUME NEW front \in Seq(Byte), NEW byte \in Byte, Rooted(Append(front, byte))
  PROVE  LET all == Segments(Append(front, byte))
         IN /\ Last(all) = <<>> <=> byte = "/"
            /\ byte = "/" => Front(all) = Segments(front)
<1> DEFINE c == Segments(front)
           all == Segments(Append(front, byte))
<1>1. c \in Lists /\ all = Split(c, byte) /\ Len(c) \in Nat
  BY SegmentsType, OneByteMore DEF Lists
<1>2. Rooted(front) /\ (front = <<>> => byte = "/")
  BY RootedLess
<1>3. byte # "/" => c # <<>>
  BY <1>2, SomeSegment
<1> HIDE DEF c, all
<1>4. CASE byte = "/"
  <2>1. all = Append(c, <<>>)
    BY <1>1, <1>4 DEF Split
  <2>2. <<>> \in Seq(Byte)
    BY EmptySeq
  <2>3. /\ all \in Lists /\ Len(all) = Len(c) + 1 /\ all[Len(c) + 1] = <<>>
        /\ \A i \in 1 .. Len(c) : all[i] = c[i]
    BY <1>1, <1>4, SplitType
  <2>4. Last(all) = <<>>
    BY <2>3 DEF Last
  <2>5. Front(all) = SubSeq(all, 1, Len(c))
    BY <1>1, <2>3 DEF Front
  <2>6. SubSeq(all, 1, Len(c)) = SubSeq(c, 1, Len(c))
    BY <1>1, <1>4, SplitKeeps
  <2>7. SubSeq(c, 1, Len(c)) = c
    BY <1>1, SubSeqFull DEF Lists
  <2> QED
    BY <1>4, <2>4, <2>5, <2>6, <2>7 DEF c, all
<1>5. CASE byte # "/"
  <2>1. Len(c) > 0 /\ c[Len(c)] \in Seq(Byte)
    BY <1>1, <1>3, <1>5, EmptySeq DEF Lists
  <2>2. Len(all) = Len(c) /\ all[Len(c)] = Append(c[Len(c)], byte)
    BY <1>1, <1>3, <1>5, SplitType
  <2>3. Append(c[Len(c)], byte) # <<>>
    BY <2>1, AppendProperties
  <2> QED
    BY <1>5, <2>2, <2>3 DEF Last, all
<1> QED
  BY <1>4, <1>5

(* One prefix of the capability allows a path.                             *)
AllowedBy(prefix, path) ==
  IF Last(prefix) = "/" THEN IsPrefix(prefix, path)
  ELSE path = prefix \/ IsPrefix(Append(prefix, "/"), path)

LEMMA PrefixOfBoth ==
  ASSUME NEW a \in Lists, NEW b \in Lists
  PROVE  IsPrefix(a, a \o b) /\ (b # <<>> => IsStrictPrefix(a, a \o b))
<1>1. /\ Len(a) \in Nat /\ Len(b) \in Nat /\ (b # <<>> => Len(b) > 0)
      /\ a \o b \in Lists /\ Len(a \o b) = Len(a) + Len(b)
      /\ \A i \in 1 .. Len(a) + Len(b) :
           (a \o b)[i] = IF i <= Len(a) THEN a[i] ELSE b[i - Len(a)]
  BY EmptySeq, ConcatProperties DEF Lists
<1>2. \A i \in 1 .. Len(a) : a[i] = (a \o b)[i]
  BY <1>1
<1>3. Len(a) <= Len(a \o b)
  BY <1>1
<1>4. IsPrefix(a, a \o b)
  BY <1>1, <1>2, <1>3, PrefixMeans DEF Lists
<1>5. b # <<>> => a # a \o b
  BY <1>1
<1> QED
  BY <1>4, <1>5 DEF IsStrictPrefix

LEMMA PrefixOfItself ==
  ASSUME NEW a \in Lists
  PROVE  IsPrefix(a, a)
BY PrefixMeans DEF Lists

(* A path whose segments begin with those of another begins with it.       *)
LEMMA PathBegins ==
  ASSUME NEW path \in Seq(Byte), NEW front \in Seq(Byte), Rooted(path), Rooted(front),
         IsPrefix(Segments(front), Segments(path))
  PROVE  \E back \in Seq(Byte) : path = front \o back /\ Rooted(back)
<1> DEFINE n == Len(Segments(front))
<1>1. /\ n \in Nat /\ n <= Len(Segments(path)) /\ Len(Segments(path)) \in Nat
      /\ SubSeq(Segments(front), 1, n) = SubSeq(Segments(path), 1, n)
  BY SegmentsType DEF IsPrefix, Lists
<1>2. SubSeq(Segments(front), 1, n) = Segments(front)
  BY SegmentsType, SubSeqFull DEF Lists
<1>3. n \in 0 .. Len(Segments(path))
  BY <1>1
<1> HIDE DEF n
<1>4. PICK a, back \in Seq(Byte) : Cuts(path, n, a, back)
  BY <1>3, Cut
<1>5. Rooted(a) /\ Segments(a) = Segments(front)
  BY <1>1, <1>2, <1>4 DEF Cuts
<1>6. a = front
  BY <1>5, SegmentsAreInjective
<1> QED
  BY <1>4, <1>6 DEF Cuts

LEMMA AllowedIsGranted ==
  ASSUME NEW prefix \in Seq(Byte), NEW path \in Seq(Byte),
         Rooted(prefix), prefix # <<>>, Rooted(path)
  PROVE  AllowedBy(prefix, path) <=> Grants(prefix, Segments(path))
<1>1. PICK c \in Seq(Byte), x \in Byte : prefix = Append(c, x)
  BY SequenceEmptyOrAppend
<1>2. Last(prefix) = x
  BY <1>1, AppendProperties DEF Last
<1>3. Rooted(c) /\ (c = <<>> => x = "/")
  BY <1>1, RootedLess
<1>4. /\ Last(Segments(prefix)) = <<>> <=> x = "/"
      /\ x = "/" => Front(Segments(prefix)) = Segments(c)
  BY <1>1, LastSegment
<1>5. /\ Segments(c) \in Lists /\ Segments(path) \in Lists /\ Segments(prefix) \in Lists
  BY SegmentsType
<1>6. CASE x = "/"
  <2>1. AllowedBy(prefix, path) <=> IsPrefix(Append(c, "/"), path)
    BY <1>1, <1>2, <1>6 DEF AllowedBy
  <2>2. Grants(prefix, Segments(path)) <=> IsStrictPrefix(Segments(c), Segments(path))
    BY <1>4, <1>6 DEF Grants
  <2>3. ASSUME IsPrefix(Append(c, "/"), path)
        PROVE  IsStrictPrefix(Segments(c), Segments(path))
    <3>1. PICK back \in Seq(Byte) : path = c \o back /\ Rooted(back) /\ back # <<>>
      BY <2>3, AfterSlash
    <3>2. Segments(path) = Segments(c) \o Segments(back)
      BY <3>1, SegmentsOfBoth
    <3>3. Segments(back) # <<>> /\ Segments(back) \in Lists
      BY <3>1, SomeSegment, SegmentsType
    <3> QED
      BY <1>5, <3>2, <3>3, PrefixOfBoth
  <2>4. ASSUME IsStrictPrefix(Segments(c), Segments(path))
        PROVE  IsPrefix(Append(c, "/"), path)
    <3>1. IsPrefix(Segments(c), Segments(path)) /\ Segments(c) # Segments(path)
      BY <2>4 DEF IsStrictPrefix
    <3>2. PICK back \in Seq(Byte) : path = c \o back /\ Rooted(back)
      BY <1>3, <3>1, PathBegins
    <3>3. back # <<>>
      BY <3>1, <3>2, ConcatEmptySeq
    <3> QED
      BY <3>2, <3>3, SlashAfter
  <2> QED
    BY <2>1, <2>2, <2>3, <2>4
<1>7. CASE x # "/"
  <2>1. AllowedBy(prefix, path) <=> path = prefix \/ IsPrefix(Append(prefix, "/"), path)
    BY <1>2, <1>7 DEF AllowedBy
  <2>2. Grants(prefix, Segments(path)) <=> IsPrefix(Segments(prefix), Segments(path))
    BY <1>4, <1>7 DEF Grants
  <2>3. ASSUME path = prefix PROVE IsPrefix(Segments(prefix), Segments(path))
    BY <1>5, <2>3, PrefixOfItself
  <2>4. ASSUME IsPrefix(Append(prefix, "/"), path)
        PROVE  IsPrefix(Segments(prefix), Segments(path))
    <3>1. PICK back \in Seq(Byte) : path = prefix \o back /\ Rooted(back) /\ back # <<>>
      BY <2>4, AfterSlash
    <3>2. Segments(path) = Segments(prefix) \o Segments(back)
      BY <3>1, SegmentsOfBoth
    <3>3. Segments(back) \in Lists
      BY SegmentsType
    <3> QED
      BY <1>5, <3>2, <3>3, PrefixOfBoth
  <2>5. ASSUME IsPrefix(Segments(prefix), Segments(path))
        PROVE  path = prefix \/ IsPrefix(Append(prefix, "/"), path)
    <3>1. PICK back \in Seq(Byte) : path = prefix \o back /\ Rooted(back)
      BY <2>5, PathBegins
    <3>2. back = <<>> => path = prefix
      BY <3>1, ConcatEmptySeq
    <3>3. back # <<>> => IsPrefix(Append(prefix, "/"), path)
      BY <3>1, SlashAfter
    <3> QED
      BY <3>2, <3>3
  <2> QED
    BY <2>1, <2>2, <2>3, <2>4, <2>5
<1> QED
  BY <1>6, <1>7

-----------------------------------------------------------------------------
(* What the parser of the HTTP client makes of a path.                     *)
Text == Seq(Byte \ {"/"})

Plain == {segment \in Text : segment \notin {Dot, DotDot}}

LEMMA Texts == Seq(Text) \subseteq Lists /\ Seq(Plain) \subseteq Seq(Text)
<1>1. Text \subseteq Seq(Byte) /\ Plain \subseteq Text
  BY SeqMonotonic DEF Text, Plain
<1> QED
  BY <1>1, SeqMonotonic DEF Lists

LEMMA SegmentsAreText ==
  ASSUME NEW path \in Seq(Byte), Rooted(path)
  PROVE  Segments(path) \in Seq(Text)
<1> DEFINE P == {p \in Seq(Byte) : Rooted(p) => Segments(p) \in Seq(Text)}
<1>1. <<>> \in P
  <2>1. <<>> \in Seq(Byte) /\ <<>> \in Seq(Text)
    BY EmptySeq
  <2> QED
    BY <2>1, SegmentsOfNothing
<1>2. ASSUME NEW p \in P, NEW b \in Byte PROVE Append(p, b) \in P
  <2> DEFINE c == Segments(p)
  <2> SUFFICES ASSUME Rooted(Append(p, b)) PROVE Segments(Append(p, b)) \in Seq(Text)
    OBVIOUS
  <2>1. Rooted(p) /\ (p = <<>> => b = "/")
    BY RootedLess
  <2>2. c \in Seq(Text) /\ c \in Lists /\ Segments(Append(p, b)) = Split(c, b)
    BY <2>1, OneByteMore, SegmentsType
  <2>3. b # "/" => c # <<>>
    BY <2>1, SomeSegment
  <2> HIDE DEF c
  <2>4. CASE b = "/"
    <3>1. <<>> \in Text
      BY EmptySeq DEF Text
    <3>2. Append(c, <<>>) \in Seq(Text)
      BY <2>2, <3>1, AppendProperties
    <3> QED
      BY <2>2, <2>4, <3>2 DEF Split
  <2>5. CASE b # "/"
    <3>1. Len(c) \in 1 .. Len(c) /\ c[Len(c)] \in Text
      BY <2>2, <2>3, <2>5, EmptySeq
    <3>2. Append(c[Len(c)], b) \in Text
      BY <2>5, <3>1, AppendProperties DEF Text
    <3>3. [c EXCEPT ![Len(c)] = Append(c[Len(c)], b)] \in Seq(Text)
      BY <2>2, <3>1, <3>2, ExceptSeq
    <3> QED
      BY <2>2, <2>5, <3>3 DEF Split
  <2> QED
    BY <2>4, <2>5
<1>3. P = Seq(Byte)
  <2>1. P \in SUBSET Seq(Byte)
    OBVIOUS
  <2> HIDE DEF P
  <2> QED
    BY <1>1, <1>2, <2>1, Lengthening
<1> QED
  BY <1>3

LEMMA KeepType ==
  ASSUME NEW done \in Seq(Plain), NEW segment \in Text
  PROVE  Keep(done, segment) \in Seq(Plain)
<1>1. CASE segment = Dot
  BY <1>1 DEF Keep
<1>2. CASE segment = DotDot /\ segment # Dot
  <2>1. Len(done) \in Nat /\ \A i \in 1 .. Len(done) - 1 : done[i] \in Plain
    OBVIOUS
  <2>2. SubSeq(done, 1, Len(done) - 1) \in Seq(Plain)
    BY <2>1, SubSeqProperties
  <2> QED
    BY <1>2, <2>2 DEF Keep
<1>3. CASE segment # DotDot /\ segment # Dot
  <2>1. segment \in Plain
    BY <1>3 DEF Plain
  <2>2. Append(done, segment) \in Seq(Plain)
    BY <2>1, AppendProperties
  <2> QED
    BY <1>3, <2>2 DEF Keep
<1> QED
  BY <1>1, <1>2, <1>3

PlainLists == Seq(Plain)

(* The segments kept of the first n, one after another.                    *)
Keeps(segments, g) ==
  g = [n \in 0 .. Len(segments) |-> IF n = 0 THEN <<>> ELSE Keep(g[n - 1], segments[n])]

LEMMA ResolvedDef ==
  ASSUME NEW path \in Seq(Byte), Rooted(path)
  PROVE  \E g : /\ Keeps(Segments(path), g)
                /\ g[Len(Segments(path))] \in Seq(Plain)
                /\ Resolved(path) =
                     IF Segments(path) # <<>> /\ Last(Segments(path)) \in {Dot, DotDot}
                     THEN Append(g[Len(Segments(path))], <<>>) ELSE g[Len(Segments(path))]
<1> DEFINE segments == Segments(path)
           N == Len(segments)
           nothing == <<>>
           step == [n \in 1 .. N |-> [done \in PlainLists |-> Keep(done, segments[n])]]
<1>1. N \in Nat /\ nothing \in PlainLists /\ \A n \in 1 .. N : segments[n] \in Text
  BY SegmentsAreText, EmptySeq DEF PlainLists
<1>2. step \in [1 .. N -> [PlainLists -> PlainLists]]
  BY <1>1, KeepType DEF PlainLists
<1>3. PICK g \in [0 .. N -> PlainLists] :
        g[0] = nothing /\ \A n \in 1 .. N : g[n] = step[n][g[n - 1]]
  <2>1. N \in Nat /\ nothing \in PlainLists
    BY <1>1
  <2> HIDE DEF N, nothing, step
  <2> QED
    BY <1>2, <2>1, Recursion
<1>4. ASSUME NEW n \in 0 .. N
      PROVE g[n] = IF n = 0 THEN <<>> ELSE Keep(g[n - 1], segments[n])
  <2>1. CASE n = 0
    BY <1>3, <2>1
  <2>2. CASE n # 0
    <3>1. n \in 1 .. N /\ n - 1 \in 0 .. N
      BY <2>2, <1>1
    <3>2. step[n][g[n - 1]] = Keep(g[n - 1], segments[n])
      BY <3>1
    <3> QED
      BY <1>3, <2>2, <3>1, <3>2
  <2> QED
    BY <2>1, <2>2
<1>5. Keeps(segments, g)
  <2>1. g = [n \in 0 .. N |-> g[n]]
    OBVIOUS
  <2> QED
    BY <1>4, <2>1 DEF Keeps
<1> DEFINE c == CHOOSE h : Keeps(segments, h)
<1>6. Keeps(segments, c)
  BY <1>5
<1>7. c[N] \in PlainLists
  <2> HIDE DEF c
  <2>1. /\ c[0] = <<>>
        /\ \A n \in 1 .. N : c[n] = Keep(c[n - 1], segments[n])
    BY <1>1, <1>6 DEF Keeps
  <2> DEFINE T == {n \in 0 .. N : c[n] \in PlainLists}
  <2>2. 0 \in T
    <3>1. c[0] \in PlainLists
      BY <2>1, EmptySeq DEF PlainLists
    <3> QED
      BY <1>1, <3>1
  <2>3. ASSUME NEW n \in 1 .. N, n - 1 \in T PROVE n \in T
    BY <1>1, <2>1, <2>3, KeepType DEF PlainLists
  <2>4. T \in SUBSET (0 .. N)
    OBVIOUS
  <2>5. T = 0 .. N
    <3> HIDE DEF T, N
    <3> QED
      BY <1>1, <2>2, <2>3, <2>4, Counting
  <2> QED
    BY <1>1, <2>5
<1>8. Resolved(path) =
        IF segments # <<>> /\ Last(segments) \in {Dot, DotDot}
        THEN Append(c[N], <<>>) ELSE c[N]
  BY DEF Resolved, Keeps
<1> HIDE DEF c
<1> QED
  BY <1>6, <1>7, <1>8 DEF PlainLists

LEMMA ResolvedType ==
  ASSUME NEW path \in Seq(Byte), Rooted(path)
  PROVE  Resolved(path) \in Seq(Plain)
<1>1. <<>> \in Plain
  <2>1. <<>> \in Text
    BY EmptySeq DEF Text
  <2> QED
    BY <2>1 DEF Plain, Dot, DotDot
<1>2. ASSUME NEW kept \in Seq(Plain) PROVE Append(kept, <<>>) \in Seq(Plain)
  BY <1>1, AppendProperties
<1> QED
  BY <1>2, ResolvedDef

(* A path without dot segments is what its parser makes of it.             *)
LEMMA ResolvedIsTheSame ==
  ASSUME NEW path \in Seq(Byte), Rooted(path),
         \A k \in DOMAIN Segments(path) : Segments(path)[k] \notin {Dot, DotDot}
  PROVE  Resolved(path) = Segments(path)
<1> DEFINE segments == Segments(path)
           N == Len(segments)
<1>1. segments \in Lists /\ N \in Nat /\ DOMAIN segments = 1 .. N
  BY SegmentsType DEF Lists
<1>2. PICK g : /\ Keeps(segments, g)
               /\ Resolved(path) =
                     IF segments # <<>> /\ Last(segments) \in {Dot, DotDot}
                     THEN Append(g[N], <<>>) ELSE g[N]
  BY ResolvedDef
<1>3. Resolved(path) = g[N]
  <2>1. segments # <<>> => N \in DOMAIN segments
    BY <1>1, EmptySeq DEF Lists
  <2> QED
    BY <1>2, <2>1 DEF Last
<1>4. g[0] = <<>> /\ \A n \in 1 .. N : g[n] = Keep(g[n - 1], segments[n])
  BY <1>1, <1>2 DEF Keeps
<1> DEFINE T == {n \in 0 .. N : g[n] = SubSeq(segments, 1, n)}
<1>5. \A n \in 1 .. N : segments[n] \notin {Dot, DotDot} /\ segments[n] \in Seq(Byte)
  <2>1. \A n \in DOMAIN segments : segments[n] \notin {Dot, DotDot}
    OBVIOUS
  <2> HIDE DEF segments
  <2>2. \A n \in 1 .. N : segments[n] \notin {Dot, DotDot}
    BY <1>1, <2>1
  <2>3. \A n \in 1 .. N : segments[n] \in Seq(Byte)
    BY <1>1 DEF Lists
  <2> QED
    BY <2>2, <2>3
<1> HIDE DEF segments
<1>6. 0 \in T
  <2>1. SubSeq(segments, 1, 0) = <<>>
    BY SubSeqEmpty
  <2>2. g[0] = SubSeq(segments, 1, 0)
    BY <1>4, <2>1
  <2> QED
    BY <1>1, <2>2
<1>7. ASSUME NEW n \in 1 .. N, n - 1 \in T PROVE n \in T
  <2>1. g[n] = Append(SubSeq(segments, 1, n - 1), segments[n])
    BY <1>4, <1>5, <1>7 DEF Keep
  <2>2. SubSeq(segments, 1, n) = SubSeq(segments, 1, n - 1) \o <<segments[n]>>
    <3>1. 1 \in 1 .. Len(segments) /\ n \in 1 .. Len(segments)
      BY <1>1
    <3> QED
      BY <1>1, <3>1, SubSeqRecursiveSecond DEF Lists
  <2>3. SubSeq(segments, 1, n - 1) \in Seq(Seq(Byte))
    <3>1. \A i \in 1 .. n - 1 : segments[i] \in Seq(Byte)
      BY <1>1, <1>5
    <3> QED
      BY <1>1, <3>1, SubSeqProperties
  <2>4. Append(SubSeq(segments, 1, n - 1), segments[n])
          = SubSeq(segments, 1, n - 1) \o <<segments[n]>>
    BY <1>5, <2>3, AppendIsConcat
  <2> QED
    BY <2>1, <2>2, <2>4
<1>8. T = 0 .. N
  <2>1. T \in SUBSET (0 .. N)
    OBVIOUS
  <2> HIDE DEF T, N
  <2> QED
    BY <1>1, <1>6, <1>7, <2>1, Counting
<1>9. g[N] = SubSeq(segments, 1, N)
  BY <1>1, <1>8
<1>10. SubSeq(segments, 1, N) = segments
  BY <1>1, SubSeqFull DEF Lists
<1> QED
  BY <1>3, <1>9, <1>10 DEF segments

(* One segment after a slash.                                              *)
LEMMA OneSegment ==
  ASSUME NEW segment \in Text
  PROVE  /\ <<"/">> \o segment \in Seq(Byte)
         /\ Rooted(<<"/">> \o segment)
         /\ Segments(<<"/">> \o segment) = <<segment>>
<1> DEFINE slash == <<"/">>
           P == {t \in Text : Segments(slash \o t) = <<t>>}
<1>1. slash \in Seq(Byte) /\ \A t \in Text : t \in Seq(Byte)
  BY SeqMonotonic DEF Byte, Text
<1>2. <<>> \in P
  <2>1. <<>> \in Text /\ <<>> \in Seq(Byte) /\ <<>> \in Lists /\ "/" \in Byte
    BY EmptySeq DEF Text, Lists, Byte
  <2>2. slash \o <<>> = Append(<<>>, "/")
    OBVIOUS
  <2>3. Segments(Append(<<>>, "/")) = Split(<<>>, "/")
    BY <2>1, OneByteMore, SegmentsOfNothing
  <2>4. Split(<<>>, "/") = <<<<>>>>
    BY DEF Split
  <2> QED
    BY <2>1, <2>2, <2>3, <2>4
<1>3. ASSUME NEW t \in P, NEW b \in Byte \ {"/"} PROVE Append(t, b) \in P
  <2>1. t \in Text /\ Append(t, b) \in Text /\ Append(t, b) \in Seq(Byte)
    BY <1>1, AppendProperties DEF Text
  <2>2. slash \o Append(t, b) = Append(slash \o t, b) /\ slash \o t \in Seq(Byte)
    BY <1>1, <2>1, AppendToBoth, ConcatProperties
  <2>3. Segments(slash \o Append(t, b)) = Split(<<t>>, b)
    BY <1>3, <2>2, OneByteMore
  <2>4. Split(<<t>>, b) = <<Append(t, b)>>
    <3>1. Split(<<t>>, b) = [<<t>> EXCEPT ![Len(<<t>>)] = Append(@, b)]
      BY DEF Split
    <3> QED
      BY <3>1
  <2> QED
    BY <2>1, <2>3, <2>4
<1>4. P = Text
  <2> DEFINE Other == Byte \ {"/"}
  <2>1. P \in SUBSET Seq(Other) /\ Text = Seq(Other)
    BY DEF Text
  <2> HIDE DEF P, Other
  <2>2. \A t \in P, b \in Other : Append(t, b) \in P
    BY <1>3 DEF Other
  <2> QED
    BY <1>2, <2>1, <2>2, Lengthening
<1>5. slash \o segment \in Seq(Byte) /\ (slash \o segment)[1] = "/"
  <2>1. segment \in Seq(Byte)
    BY <1>1
  <2> QED
    BY <1>1, <2>1, ConcatProperties
<1> QED
  BY <1>4, <1>5 DEF Rooted

-----------------------------------------------------------------------------
(* The path of a base URL.                                                 *)
LEMMA LengthIs ==
  ASSUME NEW S, NEW n \in Nat, NEW s \in [1 .. n -> S]
  PROVE  s \in Seq(S) /\ Len(s) = n
<1>1. s \in Seq(S)
  BY SeqDef
<1>2. DOMAIN s = 1 .. Len(s) /\ Len(s) \in Nat
  BY <1>1, LenProperties
<1>3. 1 .. n = 1 .. Len(s)
  BY <1>2
<1> QED
  BY <1>1, <1>2, <1>3

LEMMA RootedBoth ==
  ASSUME NEW p \in Seq(Byte), NEW q \in Seq(Byte), Rooted(p), Rooted(q)
  PROVE  p \o q \in Seq(Byte) /\ Rooted(p \o q)
<1>1. p \o q \in Seq(Byte)
  BY ConcatProperties
<1>2. CASE p = <<>>
  BY <1>1, <1>2, ConcatEmptySeq
<1>3. CASE p # <<>>
  <2>1. Len(p) \in Nat /\ Len(p) > 0 /\ Len(q) \in Nat /\ p[1] = "/"
    BY <1>3, EmptySeq DEF Rooted
  <2>2. 1 \in 1 .. Len(p) + Len(q) /\ 1 <= Len(p)
    BY <2>1
  <2>3. (p \o q)[1] = p[1]
    BY <2>2, ConcatProperties
  <2> QED
    BY <1>1, <2>1, <2>3 DEF Rooted
<1> QED
  BY <1>2, <1>3

LEMMA RootedFront ==
  ASSUME NEW p \in Seq(Byte), NEW q \in Seq(Byte), Rooted(p \o q)
  PROVE  Rooted(p)
<1> SUFFICES ASSUME p # <<>> PROVE p[1] = "/"
  BY DEF Rooted
<1>1. Len(p) \in Nat /\ Len(p) > 0 /\ Len(q) \in Nat
  BY EmptySeq
<1>2. 1 \in 1 .. Len(p) + Len(q) /\ 1 <= Len(p)
  BY <1>1
<1>3. (p \o q)[1] = p[1] /\ p \o q # <<>>
  BY <1>2, ConcatProperties, ConcatEqualIffEmpty
<1> QED
  BY <1>3 DEF Rooted

PathSet == Seq(Byte)

Flattens(seqs, f) ==
  f = [i \in 1 .. Len(seqs) |-> IF i = 1 THEN seqs[i] ELSE f[i - 1] \o seqs[i]]

LEMMA FlattenDef ==
  ASSUME NEW seqs \in Lists, seqs # <<>>
  PROVE  \E f : Flattens(seqs, f) /\ FlattenSeq(seqs) = f[Len(seqs)]
<1> DEFINE N == Len(seqs)
           nothing == <<>>
           step == [n \in 1 .. N |-> [done \in PathSet |-> done \o seqs[n]]]
<1>1. /\ N \in Nat /\ N > 0 /\ nothing \in PathSet
      /\ \A n \in 1 .. N : seqs[n] \in PathSet
  BY EmptySeq DEF Lists, PathSet
<1>2. step \in [1 .. N -> [PathSet -> PathSet]]
  BY <1>1, ConcatProperties DEF PathSet
<1>3. PICK g \in [0 .. N -> PathSet] :
        g[0] = nothing /\ \A n \in 1 .. N : g[n] = step[n][g[n - 1]]
  <2>1. N \in Nat /\ nothing \in PathSet
    BY <1>1
  <2> HIDE DEF N, nothing, step
  <2> QED
    BY <1>2, <2>1, Recursion
<1> DEFINE f == [i \in 1 .. N |-> g[i]]
<1>4. ASSUME NEW i \in 1 .. N
      PROVE  f[i] = IF i = 1 THEN seqs[i] ELSE f[i - 1] \o seqs[i]
  <2>1. g[i - 1] \in PathSet /\ g[i] = step[i][g[i - 1]]
    <3>1. i - 1 \in 0 .. N
      BY <1>1
    <3> HIDE DEF N, step
    <3> QED
      BY <1>3, <3>1
  <2>2. g[i] = g[i - 1] \o seqs[i]
    BY <2>1
  <2>3. CASE i = 1
    <3>1. g[i] = <<>> \o seqs[i]
      <4>1. i - 1 = 0 /\ g[0] = <<>>
        BY <1>3, <2>3
      <4> QED
        BY <2>2, <4>1
    <3>2. seqs[i] \in Seq(Byte)
      BY <1>1 DEF PathSet
    <3>3. <<>> \o seqs[i] = seqs[i]
      BY <3>2, ConcatEmptySeq
    <3> QED
      BY <2>3, <3>1, <3>3
  <2>4. CASE i # 1
    <3>1. i - 1 \in 1 .. N /\ f[i - 1] = g[i - 1]
      BY <1>1, <2>4
    <3> QED
      BY <2>2, <2>4, <3>1
  <2> QED
    BY <2>3, <2>4
<1>5. Flattens(seqs, f)
  <2>1. f = [i \in 1 .. N |-> f[i]]
    OBVIOUS
  <2> HIDE DEF f
  <2> QED
    BY <1>4, <2>1 DEF Flattens
<1> DEFINE c == CHOOSE h : Flattens(seqs, h)
<1>6. Flattens(seqs, c)
  BY <1>5
<1>7. FlattenSeq(seqs) = c[N]
  BY <1>1 DEF FlattenSeq, Flattens
<1> HIDE DEF c
<1> QED
  BY <1>6, <1>7

Joined(segments) == FlattenSeq([k \in DOMAIN segments |-> <<"/">> \o segments[k]])

LEMMA JoinedSegments ==
  ASSUME NEW segments \in Seq(Text)
  PROVE  /\ Joined(segments) \in Seq(Byte)
         /\ Rooted(Joined(segments))
         /\ Segments(Joined(segments)) = segments
<1> DEFINE N == Len(segments)
           seqs == [k \in DOMAIN segments |-> <<"/">> \o segments[k]]
<1>1. N \in Nat /\ DOMAIN segments = 1 .. N /\ \A n \in 1 .. N : segments[n] \in Text
  OBVIOUS
<1>2. seqs \in [1 .. N -> Seq(Byte)]
  BY <1>1, OneSegment
<1>3. seqs \in Lists /\ Len(seqs) = N
  <2> HIDE DEF seqs, N
  <2> QED
    BY <1>1, <1>2, LengthIs DEF Lists
<1>4. \A n \in 1 .. N : /\ seqs[n] \in Seq(Byte)
                        /\ Rooted(seqs[n])
                        /\ Segments(seqs[n]) = <<segments[n]>>
  BY <1>1, OneSegment
<1> HIDE DEF seqs
<1>5. CASE N = 0
  <2>1. seqs = <<>> /\ segments = <<>>
    BY <1>3, <1>5, EmptySeq DEF Lists
  <2>2. Joined(segments) = seqs
    BY <1>3, <1>5 DEF Joined, FlattenSeq, seqs
  <2> QED
    BY <2>1, <2>2, EmptySeq, SegmentsOfNothing DEF Rooted
<1>6. CASE N # 0
  <2>1. seqs # <<>>
    BY <1>3, <1>6
  <2>2. PICK f : Flattens(seqs, f) /\ FlattenSeq(seqs) = f[N]
    BY <1>3, <2>1, FlattenDef
  <2>3. \A n \in 1 .. N : f[n] = IF n = 1 THEN seqs[n] ELSE f[n - 1] \o seqs[n]
    BY <1>3, <2>2 DEF Flattens
  <2> DEFINE Good(n) == /\ f[n] \in Seq(Byte) /\ Rooted(f[n])
                        /\ Segments(f[n]) = SubSeq(segments, 1, n)
             T == {n \in 0 .. N : n = 0 \/ Good(n)}
  <2>4. ASSUME NEW n \in 1 .. N, n - 1 \in T PROVE n \in T
    <3>1. SubSeq(segments, 1, n) = SubSeq(segments, 1, n - 1) \o <<segments[n]>>
      <4>1. 1 \in 1 .. N /\ n \in 1 .. N
        BY <1>1, <1>6
      <4> QED
        BY <4>1, SubSeqRecursiveSecond
    <3>2. CASE n = 1
      <4>1. f[n] = seqs[n]
        BY <2>3, <3>2
      <4>2. SubSeq(segments, 1, 0) = <<>>
        BY SubSeqEmpty
      <4>3. <<segments[n]>> \in Seq(Text)
        BY <1>1
      <4>4. <<>> \o <<segments[n]>> = <<segments[n]>>
        BY <4>3, ConcatEmptySeq
      <4>5. SubSeq(segments, 1, n) = <<segments[n]>>
        <5>1. n - 1 = 0
          BY <3>2
        <5>2. SubSeq(segments, 1, n - 1) = <<>>
          BY <4>2, <5>1
        <5> QED
          BY <3>1, <4>4, <5>2
      <4>6. seqs[n] \in Seq(Byte) /\ Rooted(seqs[n]) /\ Segments(seqs[n]) = <<segments[n]>>
        BY <1>4
      <4>7. Good(n)
        BY <4>1, <4>5, <4>6
      <4> HIDE DEF Good
      <4> QED
        BY <1>1, <4>7
    <3>3. CASE n # 1
      <4>1. f[n - 1] \in Seq(Byte) /\ Rooted(f[n - 1])
            /\ Segments(f[n - 1]) = SubSeq(segments, 1, n - 1)
        BY <1>1, <2>4, <3>3
      <4>2. f[n] = f[n - 1] \o seqs[n]
        BY <2>3, <3>3
      <4>3. seqs[n] \in Seq(Byte) /\ Rooted(seqs[n]) /\ Segments(seqs[n]) = <<segments[n]>>
        BY <1>4
      <4>4. f[n] \in Seq(Byte)
        BY <4>1, <4>2, <4>3, ConcatProperties
      <4>5. Segments(f[n]) = SubSeq(segments, 1, n)
        BY <3>1, <4>1, <4>2, <4>3, SegmentsOfBoth
      <4>6. Rooted(f[n])
        BY <4>1, <4>2, <4>3, RootedBoth
      <4> QED
        BY <4>4, <4>5, <4>6
    <3> QED
      BY <3>2, <3>3
  <2>5. T = 0 .. N
    <3>1. T \in SUBSET (0 .. N) /\ 0 \in T
      BY <1>1
    <3> HIDE DEF T, N
    <3> QED
      BY <1>1, <2>4, <3>1, Counting
  <2>6. Good(N)
    <3>1. N \in T
      <4> HIDE DEF T, N
      <4> QED
        BY <1>1, <2>5
    <3> QED
      BY <1>6, <3>1
  <2>7. SubSeq(segments, 1, N) = segments
    BY SubSeqFull
  <2>8. Joined(segments) = f[N]
    BY <2>2 DEF Joined, seqs
  <2> QED
    BY <2>6, <2>7, <2>8
<1> QED
  BY <1>5, <1>6

(* A path and the slashes that are cut off at its end.                     *)
LEMMA LastOne ==
  ASSUME NEW path \in Seq(Byte)
  PROVE  LET last == SelectLastInSeq(path, LAMBDA b : b # "/")
         IN /\ last \in 0 .. Len(path)
            /\ last # 0 => path[last] # "/"
            /\ \A i \in last + 1 .. Len(path) : path[i] = "/"
<1> DEFINE N == Len(path)
           I == {i \in 1 .. N : path[i] # "/"}
           last == IF I # {} THEN Max(I) ELSE 0
<1>1. N \in Nat
  OBVIOUS
<1>2. SelectLastInSeq(path, LAMBDA b : b # "/") = last
  BY DEF SelectLastInSeq
<1>3. last \in 0 .. N /\ (last # 0 => path[last] # "/") /\ \A i \in last + 1 .. N : path[i] = "/"
  <2>1. CASE I = {}
    BY <1>1, <2>1
  <2>2. CASE I # {}
    <3> DEFINE From == {n \in 0 .. N : N - n \in I}
    <3>1. From # {} /\ From \in SUBSET Nat
      <4>1. PICK i \in I : TRUE
        BY <2>2
      <4>2. N - i \in 0 .. N /\ N - (N - i) = i
        BY <1>1
      <4>3. N - i \in From
        BY <4>1, <4>2
      <4>4. From \in SUBSET Nat
        BY <1>1
      <4> HIDE DEF From
      <4> QED
        BY <4>3, <4>4
    <3>2. PICK m \in From : \A n \in From : m <= n
      <4> HIDE DEF From
      <4> QED
        BY <3>1, Least
    <3>3. N - m \in I /\ \A i \in I : N - m >= i
      <4>1. m \in 0 .. N /\ N - m \in I
        BY <3>2
      <4>2. ASSUME NEW i \in I PROVE N - m >= i
        <5>1. N - i \in From
          BY <1>1
        <5>2. m <= N - i
          BY <3>2, <5>1
        <5> QED
          BY <1>1, <4>1, <5>2
      <4> QED
        BY <4>1, <4>2
    <3>4. Max(I) \in I /\ \A i \in I : Max(I) >= i
      <4> HIDE DEF I
      <4> QED
        BY <3>3 DEF Max
    <3>5. last \in I /\ \A i \in I : last >= i
      BY <2>2, <3>4
    <3> HIDE DEF last
    <3> QED
      BY <1>1, <3>5
  <2> QED
    BY <2>1, <2>2
<1> HIDE DEF last
<1> QED
  BY <1>2, <1>3

LEMMA TrimmedPath ==
  ASSUME NEW path \in Seq(Byte)
  PROVE  /\ Trimmed(path) \in Seq(Byte)
         /\ \E rest \in Seq(Byte) : path = Trimmed(path) \o rest /\ Rooted(rest)
         /\ Trimmed(Trimmed(path)) = Trimmed(path)
<1> DEFINE N == Len(path)
<1>1. PICK last \in 0 .. N :
        /\ last = SelectLastInSeq(path, LAMBDA b : b # "/")
        /\ last # 0 => path[last] # "/"
        /\ \A i \in last + 1 .. N : path[i] = "/"
  BY LastOne
<1>2. Trimmed(path) = SubSeq(path, 1, last)
  BY <1>1 DEF Trimmed
<1> DEFINE front == SubSeq(path, 1, last)
           rest == SubSeq(path, last + 1, N)
<1>3. N \in Nat /\ last \in Nat /\ last <= N /\ \A i \in 1 .. N : path[i] \in Byte
  OBVIOUS
<1>4. /\ front \in Seq(Byte) /\ Len(front) = last
      /\ \A i \in 1 .. last : front[i] = path[i]
  <2>1. \A i \in 1 .. last : path[i] \in Byte
    BY <1>3
  <2> HIDE DEF N
  <2> QED
    BY <1>3, <2>1, SubSeqProperties
<1>5. /\ rest \in Seq(Byte) /\ Len(rest) = N - last
      /\ \A i \in 1 .. N - last : rest[i] = path[last + i]
  <2>1. \A i \in last + 1 .. N : path[i] \in Byte
    BY <1>3
  <2>2. /\ rest \in Seq(Byte) /\ Len(rest) = IF last + 1 <= N THEN N - (last + 1) + 1 ELSE 0
        /\ \A i \in 1 .. N - (last + 1) + 1 : rest[i] = path[(last + 1) + i - 1]
    <3> HIDE DEF N
    <3> QED
      BY <1>3, <2>1, SubSeqProperties
  <2>3. \A i \in 1 .. N - last : (last + 1) + i - 1 = last + i
    BY <1>3
  <2>4. N - (last + 1) + 1 = N - last
    BY <1>3
  <2> HIDE DEF rest, N
  <2> QED
    BY <1>3, <2>2, <2>3, <2>4
<1>6. path = front \o rest
  <2>1. SubSeq(path, 1, last) \o SubSeq(path, last + 1, N) = SubSeq(path, 1, N)
    <3>1. 1 \in 1 .. N + 1 /\ last \in 1 - 1 .. N /\ N \in last .. N
      BY <1>3
    <3> QED
      BY <3>1, ConcatAdjacentSubSeq
  <2> QED
    BY <2>1, SubSeqFull
<1>7. Rooted(rest)
  <2> SUFFICES ASSUME rest # <<>> PROVE rest[1] = "/"
    BY DEF Rooted
  <2> HIDE DEF rest
  <2>1. N - last > 0
    BY <1>5, EmptySeq
  <2>2. 1 \in 1 .. N - last /\ last + 1 \in last + 1 .. N
    BY <1>3, <2>1
  <2> QED
    BY <1>1, <1>5, <2>2
<1>8. Trimmed(front) = front
  <2> HIDE DEF front
  <2>1. PICK l \in 0 .. Len(front) :
          /\ l = SelectLastInSeq(front, LAMBDA b : b # "/")
          /\ l # 0 => front[l] # "/"
          /\ \A i \in l + 1 .. Len(front) : front[i] = "/"
    BY <1>4, LastOne
  <2>2. l = last
    <3>1. last # 0 => last \in 1 .. last /\ front[last] # "/"
      BY <1>1, <1>3, <1>4
    <3>2. ASSUME l < last PROVE FALSE
      <4>1. last # 0 /\ last \in l + 1 .. Len(front)
        BY <1>3, <1>4, <2>1, <3>2
      <4> QED
        BY <2>1, <3>1, <4>1
    <3>3. l \in Nat /\ l <= last
      BY <1>3, <1>4
    <3> QED
      BY <1>3, <3>2, <3>3
  <2>3. Trimmed(front) = SubSeq(front, 1, Len(front))
    BY <1>4, <2>1, <2>2 DEF Trimmed
  <2> QED
    BY <1>4, <2>3, SubSeqFull
<1> HIDE DEF front, rest
<1>9. Trimmed(path) = front
  BY <1>2 DEF front
<1> QED
  BY <1>4, <1>5, <1>6, <1>7, <1>8, <1>9

(* The path of a base URL has no dot segments, and no slash at its end.    *)
LEMMA BaseIsPlain ==
  ASSUME NEW b \in Bases
  PROVE  /\ b \in Seq(Byte) /\ Rooted(b)
         /\ Trimmed(b) = b
         /\ \A k \in DOMAIN Segments(b) : Segments(b)[k] \notin {Dot, DotDot}
<1>1. PICK p \in Paths(MaxBase) : Rooted(p) /\ b = Canonical(p)
  BY DEF Bases, Rooted
<1>2. p \in Seq(Byte)
  <2>1. PICK k \in 0 .. MaxBase : p \in [1 .. k -> Byte]
    BY DEF Paths
  <2>2. k \in Nat
    BY Bounds
  <2> QED
    BY <2>1, <2>2, LengthIs
<1> DEFINE segments == Resolved(p)
           all == Joined(segments)
<1>3. segments \in Seq(Plain) /\ segments \in Seq(Text)
  BY <1>1, <1>2, ResolvedType, Texts
<1>4. b = Trimmed(all)
  BY <1>1 DEF Canonical, Joined
<1>5. all \in Seq(Byte) /\ Rooted(all) /\ Segments(all) = segments
  BY <1>3, JoinedSegments
<1> HIDE DEF all, segments
<1>6. PICK rest \in Seq(Byte) : all = b \o rest /\ Rooted(rest)
  BY <1>4, <1>5, TrimmedPath
<1>7. b \in Seq(Byte) /\ Trimmed(b) = b
  BY <1>4, <1>5, TrimmedPath
<1>8. Segments(all) = Segments(b) \o Segments(rest)
  BY <1>6, <1>7, SegmentsOfBoth
<1>9. ASSUME NEW k \in DOMAIN Segments(b) PROVE Segments(b)[k] \notin {Dot, DotDot}
  <2> DEFINE c == Segments(b)
             d == Segments(rest)
  <2>1. c \in Lists /\ d \in Lists
    BY <1>7, SegmentsType
  <2> HIDE DEF c, d
  <2>2. Len(c) \in Nat /\ Len(d) \in Nat /\ k \in 1 .. Len(c)
    BY <2>1 DEF c, Lists
  <2>3. k \in 1 .. Len(c) + Len(d) /\ k <= Len(c)
    BY <2>2
  <2>4. (c \o d)[k] = c[k] /\ Len(c \o d) = Len(c) + Len(d)
    BY <2>1, <2>3, ConcatProperties DEF Lists
  <2>5. segments = c \o d
    BY <1>5, <1>8 DEF c, d
  <2>6. segments[k] \in Plain
    BY <1>3, <2>3, <2>4, <2>5
  <2> QED
    BY <2>4, <2>5, <2>6 DEF Plain, c
<1>10. Rooted(b)
  BY <1>5, <1>6, <1>7, RootedFront
<1> QED
  BY <1>7, <1>9, <1>10

-----------------------------------------------------------------------------
(* The target of a path that was checked.                                  *)
LEMMA NothingAtTheStart ==
  ASSUME NEW path \in Seq(Byte), Normalized(path), Len(path) >= 2
  PROVE  path[2] # "/"
<1> SUFFICES ASSUME path[2] = "/" PROVE FALSE
  OBVIOUS
<1> DEFINE slash == <<"/">>
           rest == SubSeq(path, 2, Len(path))
<1>1. Len(path) \in Nat /\ path[1] = "/" /\ slash \in Seq(Byte)
  BY DEF Normalized, Byte
<1>2. /\ rest \in Seq(Byte) /\ Len(rest) = Len(path) - 1
      /\ \A i \in 1 .. Len(path) - 1 : rest[i] = path[i + 1]
  <2>1. \A i \in 2 .. Len(path) : path[i] \in Byte
    BY <1>1
  <2> QED
    BY <1>1, <2>1, SubSeqProperties
<1>3. path = slash \o rest
  <2>1. SubSeq(path, 1, Len(path)) = <<path[1]>> \o SubSeq(path, 2, Len(path))
    <3>1. 1 \in 1 .. Len(path) /\ Len(path) \in 1 .. Len(path)
      BY <1>1
    <3>2. SubSeq(path, 1, Len(path)) = <<path[1]>> \o SubSeq(path, 1 + 1, Len(path))
      BY <3>1, SubSeqRecursiveFirst
    <3> QED
      BY <3>2
  <2> QED
    BY <1>1, <2>1, SubSeqFull
<1>4. Rooted(rest) /\ rest # <<>>
  <2> HIDE DEF rest
  <2>1. 1 \in 1 .. Len(path) - 1 /\ rest[1] = path[2]
    BY <1>1, <1>2
  <2>2. rest # <<>>
    BY <1>1, <1>2
  <2> QED
    BY <2>1, <2>2 DEF Rooted
<1> HIDE DEF rest
<1>5. Segments(path) = Segments(slash) \o Segments(rest)
  BY <1>1, <1>2, <1>3, <1>4, SegmentsOfBoth
<1>6. Segments(slash) = <<<<>>>>
  <2>1. <<>> \in Text
    BY EmptySeq DEF Text
  <2>2. Segments(slash \o <<>>) = <<<<>>>>
    BY <2>1, OneSegment
  <2>3. slash \o <<>> = slash
    BY <1>1, ConcatEmptySeq
  <2> QED
    BY <2>2, <2>3
<1> DEFINE first == Segments(slash)
           after == Segments(rest)
           all == Segments(path)
<1>7. first \in Lists /\ after \in Lists /\ after # <<>>
  BY <1>1, <1>2, <1>4, SegmentsType, SomeSegment
<1>8. Len(first) = 1 /\ first[1] = <<>>
  BY <1>6
<1>9. /\ all[1] = <<>> /\ Len(all) > 1 /\ 1 \in DOMAIN all
  <2> HIDE DEF first, after
  <2>1. all = first \o after
    BY <1>5 DEF first, after
  <2>2. Len(after) \in Nat /\ Len(after) > 0
    BY <1>7, EmptySeq DEF Lists
  <2>3. /\ all \in Lists /\ Len(all) = 1 + Len(after)
        /\ \A i \in 1 .. 1 + Len(after) :
             all[i] = IF i <= 1 THEN first[i] ELSE after[i - 1]
    <3>1. /\ first \o after \in Lists /\ Len(first \o after) = Len(first) + Len(after)
          /\ \A i \in 1 .. Len(first) + Len(after) :
               (first \o after)[i] = IF i <= Len(first) THEN first[i] ELSE after[i - Len(first)]
      BY <1>7, ConcatProperties DEF Lists
    <3> HIDE DEF all
    <3> QED
      BY <1>8, <2>1, <3>1
  <2> HIDE DEF all
  <2>4. 1 \in 1 .. 1 + Len(after)
    BY <2>2
  <2> QED
    BY <1>8, <2>2, <2>3, <2>4 DEF Lists
<1>10. \A k \in DOMAIN all : all[k] = <<>> => k = Len(all)
  BY DEF Normalized
<1> HIDE DEF all
<1> QED
  BY <1>9, <1>10

LEMMA FirstOne ==
  ASSUME NEW path \in Seq(Byte), Normalized(path)
  PROVE  SelectInSeq(path, LAMBDA b : b # "/") = IF Len(path) = 1 THEN 0 ELSE 2
<1> DEFINE N == Len(path)
           I == {i \in 1 .. N : path[i] # "/"}
           first == IF I # {} THEN Min(I) ELSE 0
<1>1. N \in Nat /\ N > 0 /\ path[1] = "/"
  BY EmptySeq DEF Normalized
<1>2. SelectInSeq(path, LAMBDA b : b # "/") = first
  BY DEF SelectInSeq
<1>3. CASE N = 1
  <2>1. I = {}
    BY <1>1, <1>3
  <2> QED
    BY <1>2, <1>3, <2>1
<1>4. CASE N # 1
  <2>1. N >= 2
    <3> HIDE DEF N
    <3> QED
      BY <1>1, <1>4
  <2>2. path[2] # "/"
    BY <2>1, NothingAtTheStart
  <2>3. 2 \in I /\ 1 \notin I
    BY <1>1, <2>1, <2>2
  <2>4. \A i \in I : 2 <= i
    BY <1>1, <2>3
  <2>5. I \subseteq Nat
    BY <1>1
  <2> HIDE DEF I
  <2>6. Min(I) \in I /\ \A i \in I : Min(I) <= i
    BY <2>3, <2>4 DEF Min
  <2>7. Min(I) = 2
    <3> DEFINE m == Min(I)
    <3>1. m \in Nat /\ 2 <= m /\ m <= 2
      BY <2>3, <2>4, <2>5, <2>6
    <3> HIDE DEF m
    <3>2. m = 2
      BY <3>1
    <3> QED
      BY <3>2 DEF m
  <2>8. I # {}
    BY <2>3
  <2> QED
    BY <1>2, <1>4, <2>7, <2>8
<1> QED
  BY <1>3, <1>4

LEMMA TargetIsBoth ==
  ASSUME base \in Bases, NEW path \in Seq(Byte), Normalized(path)
  PROVE  Target(path) = base \o path /\ Target(path) \in Seq(Byte)
<1> DEFINE N == Len(path)
           slash == <<"/">>
           first == SelectInSeq(path, LAMBDA b : b # "/")
           rest == IF first = 0 THEN <<>> ELSE SubSeq(path, first, N)
<1>1. N \in Nat /\ N > 0 /\ path[1] = "/" /\ slash \in Seq(Byte)
  BY EmptySeq DEF Normalized, Byte
<1>2. base \in Seq(Byte) /\ Trimmed(base) = base
  BY BaseIsPlain
<1>3. Target(path) = base \o slash \o rest
  BY <1>2 DEF Target
<1>4. first = IF N = 1 THEN 0 ELSE 2
  BY FirstOne
<1> HIDE DEF first
<1>5. rest \in Seq(Byte) /\ path = slash \o rest
  <2>1. CASE N = 1
    <3>1. rest = <<>> /\ slash \o <<>> = slash
      BY <1>1, <1>4, <2>1, ConcatEmptySeq
    <3>2. path = slash
      <4>1. Len(slash) = 1 /\ slash[1] = "/"
        OBVIOUS
      <4> HIDE DEF slash
      <4>2. Len(path) = Len(slash) /\ \A i \in 1 .. Len(path) : path[i] = slash[i]
        BY <1>1, <2>1, <4>1
      <4> QED
        BY <1>1, <4>2, SeqEqual
    <3> QED
      BY <3>1, <3>2, EmptySeq
  <2>2. CASE N # 1
    <3>1. rest = SubSeq(path, 2, N)
      BY <1>4, <2>2
    <3>2. SubSeq(path, 2, N) \in Seq(Byte)
      <4>1. \A i \in 2 .. N : path[i] \in Byte
        BY <1>1
      <4> QED
        BY <1>1, <4>1, SubSeqProperties
    <3>3. path = slash \o SubSeq(path, 2, N)
      <4>1. 1 \in 1 .. N /\ N \in 1 .. N
        BY <1>1
      <4>2. SubSeq(path, 1, N) = <<path[1]>> \o SubSeq(path, 1 + 1, N)
        BY <4>1, SubSeqRecursiveFirst
      <4>3. 1 + 1 = 2
        OBVIOUS
      <4> QED
        BY <1>1, <4>2, <4>3, SubSeqFull
    <3> QED
      BY <3>1, <3>2, <3>3
  <2> QED
    BY <2>1, <2>2
<1> HIDE DEF rest, slash
<1>6. (base \o slash) \o rest = base \o (slash \o rest)
  BY <1>1, <1>2, <1>5, ConcatAssociative
<1>7. base \o path \in Seq(Byte)
  BY <1>2, ConcatProperties
<1> QED
  BY <1>3, <1>5, <1>6, <1>7

LEMMA TargetResolves ==
  ASSUME base \in Bases, NEW path \in Seq(Byte), Normalized(path)
  PROVE  Resolved(base \o path) = Segments(base) \o Segments(path)
<1> DEFINE c == Segments(base)
           d == Segments(path)
<1>1. base \in Seq(Byte) /\ \A k \in DOMAIN c : c[k] \notin {Dot, DotDot}
  BY BaseIsPlain
<1>2. Rooted(path) /\ \A k \in DOMAIN d : d[k] \notin {Dot, DotDot}
  BY DEF Normalized, Rooted
<1>3. Segments(base \o path) = c \o d
  BY <1>1, <1>2, SegmentsOfBoth
<1>4. c \in Lists /\ d \in Lists
  BY <1>1, SegmentsType
<1> HIDE DEF c, d
<1>5. \A k \in DOMAIN (c \o d) : (c \o d)[k] \notin {Dot, DotDot}
  <2>1. /\ Len(c) \in Nat /\ Len(d) \in Nat
        /\ DOMAIN c = 1 .. Len(c) /\ DOMAIN d = 1 .. Len(d)
    BY <1>4 DEF Lists
  <2>2. /\ DOMAIN (c \o d) = 1 .. Len(c) + Len(d)
        /\ \A k \in 1 .. Len(c) + Len(d) :
             (c \o d)[k] = IF k <= Len(c) THEN c[k] ELSE d[k - Len(c)]
    <3>1. /\ c \o d \in Lists /\ Len(c \o d) = Len(c) + Len(d)
          /\ \A k \in 1 .. Len(c) + Len(d) :
               (c \o d)[k] = IF k <= Len(c) THEN c[k] ELSE d[k - Len(c)]
      BY <1>4, ConcatProperties DEF Lists
    <3> QED
      BY <3>1, LenProperties DEF Lists
  <2>3. ASSUME NEW k \in 1 .. Len(c) + Len(d) PROVE (c \o d)[k] \notin {Dot, DotDot}
    <3>1. CASE k <= Len(c)
      <4>1. k \in DOMAIN c
        BY <2>1, <3>1
      <4> QED
        BY <1>1, <2>2, <3>1, <4>1
    <3>2. CASE ~ (k <= Len(c))
      <4>1. k - Len(c) \in DOMAIN d
        BY <2>1, <3>2
      <4> QED
        BY <1>2, <2>2, <3>2, <4>1
    <3> QED
      BY <3>1, <3>2
  <2> QED
    BY <2>2, <2>3
<1>6. Rooted(base \o path)
  BY <1>1, <1>2, BaseIsPlain, RootedBoth
<1>7. base \o path \in Seq(Byte)
  BY <1>1, ConcatProperties
<1> DEFINE p == base \o path
<1>8. p \in Seq(Byte) /\ Rooted(p) /\ Segments(p) = c \o d
  BY <1>3, <1>6, <1>7
<1> HIDE DEF p
<1>9. Resolved(p) = c \o d
  BY <1>5, <1>8, ResolvedIsTheSame
<1> QED
  BY <1>9 DEF p, c, d

-----------------------------------------------------------------------------
(* The state machine.                                                      *)
ProjectInv ==
  /\ route \in Routes /\ base \in Bases
  /\ prefixes \subseteq {p \in Paths(MaxPrefix) : Normalized(p)}

HeldInv ==
  /\ stage \in {"project", "serving", "upstream", "answered"}
  /\ stage # "project" => held = {route} \cup others

(* Before an invocation, and in between two, there is nothing of one.      *)
IdleInv == stage \in {"project", "serving"} => call = Nil /\ target = Nil /\ response = Nil

Unobjectionable(c) == c.flaw = "none" /\ Normalized(c.path) /\ Allows(c.path)

(* The upstream is asked exactly if there is nothing to object to, for the *)
(* path of the invocation beneath that of the base URL.                    *)
CallInv == call # Nil => call \in Calls /\ (Unobjectionable(call) => target # Nil)

SentInv ==
  target # Nil => call \in Calls /\ Unobjectionable(call) /\ target = base \o call.path

(* A response is the body the upstream answered with.                      *)
ResponseInv == DeliveredWhole /\ NoKeyDelivered /\ (response # Nil => stage = "answered")

IInv == ProjectInv /\ HeldInv /\ IdleInv /\ CallInv /\ SentInv /\ ResponseInv

LEMMA PathType ==
  ASSUME NEW n \in Nat, NEW p \in Paths(n)
  PROVE  p \in Seq(Byte)
<1>1. PICK k \in 0 .. n : p \in [1 .. k -> Byte]
  BY DEF Paths
<1> QED
  BY <1>1, LengthIs

LEMMA CallType ==
  ASSUME NEW c \in Calls
  PROVE  c.path \in Seq(Byte) /\ c.flaw \in Flaws
<1>1. c.path \in Paths(MaxPath) /\ c.flaw \in Flaws
  BY DEF Calls
<1>2. MaxPath \in Nat
  BY Bounds
<1> QED
  BY <1>1, <1>2, PathType

(* The first check that fails objects, and there is none if none fails.    *)
LEMMA NothingToObject ==
  ASSUME NEW c \in Calls, route \in held
  PROVE  Refusal(c) = "none" <=> Unobjectionable(c)
<1> DEFINE checks == Checks(c)
           I == {i \in 1 .. Len(checks) : checks[i].fails}
           first == IF I # {} THEN Min(I) ELSE 0
<1>1. SelectInSeq(checks, LAMBDA check : check.fails) = first
  BY DEF SelectInSeq
<1>2. Refusal(c) = IF first = 0 THEN "none" ELSE checks[first].error
  BY <1>1 DEF Refusal
<1>3. Len(checks) = 9
  BY DEF Checks
<1>4. \A i \in 1 .. 9 : checks[i].error # "none"
  BY DEF Checks
<1>5. (\A i \in 1 .. 9 : ~ checks[i].fails) <=> Unobjectionable(c)
  <2>1. /\ checks[1].fails <=> c.flaw = "encoding"
        /\ checks[2].fails <=> c.flaw = "body"
        /\ checks[3].fails <=> c.flaw = "capability"
        /\ checks[4].fails <=> c.flaw = "method"
        /\ checks[5].fails <=> c.flaw = "denied"
        /\ checks[6].fails <=> ~ Normalized(c.path)
        /\ checks[7].fails <=> ~ Allows(c.path)
        /\ checks[8].fails <=> c.flaw = "fields"
        /\ checks[9].fails <=> route \notin held
    BY DEF Checks
  <2>2. c.flaw \in Flaws
    BY CallType
  <2> HIDE DEF checks
  <2>3. Unobjectionable(c) => \A i \in 1 .. 9 : ~ checks[i].fails
    BY <2>1 DEF Unobjectionable
  <2>4. (\A i \in 1 .. 9 : ~ checks[i].fails) => Unobjectionable(c)
    BY <2>1, <2>2 DEF Unobjectionable, Flaws
  <2> QED
    BY <2>3, <2>4
<1> HIDE DEF checks
<1>6. CASE I = {}
  BY <1>2, <1>3, <1>5, <1>6
<1>7. CASE I # {}
  <2>1. I \in SUBSET Nat
    BY <1>3
  <2>2. I \subseteq 1 .. 9 /\ \A i \in I : checks[i].fails
    BY <1>3
  <2> HIDE DEF I
  <2>3. PICK m \in I : \A n \in I : m <= n
    BY <1>7, <2>1, Least
  <2>4. Min(I) \in I
    BY <2>3 DEF Min
  <2>5. first = Min(I) /\ first \in 1 .. 9 /\ checks[first].fails
    BY <1>7, <2>2, <2>4
  <2>6. Refusal(c) # "none"
    BY <1>2, <1>4, <2>5
  <2> QED
    BY <1>5, <2>5, <2>6
<1> QED
  BY <1>6, <1>7

LEMMA InitInv ==
  ASSUME Init
  PROVE  IInv
<1>1. ProjectInv
  BY DEF Init, ProjectInv
<1>2. HeldInv /\ IdleInv /\ CallInv /\ SentInv
  BY DEF Init, HeldInv, IdleInv, CallInv, SentInv
<1>3. ResponseInv
  BY DEF Init, ResponseInv, DeliveredWhole, NoKeyDelivered
<1> QED
  BY <1>1, <1>2, <1>3 DEF IInv

LEMMA InvokeInv ==
  ASSUME IInv, Invoke
  PROVE  IInv'
<1>1. /\ stage = "serving" /\ call' \in Calls
      /\ error' = Refusal(call')
      /\ IF error' = "none"
         THEN target' = Target(call'.path) /\ stage' = "upstream"
         ELSE stage' = "answered" /\ target' = target
      /\ route' = route /\ base' = base /\ prefixes' = prefixes /\ others' = others
      /\ held' = held /\ body' = body /\ response' = response
  BY DEF Invoke, project
<1>2. target = Nil /\ response = Nil /\ route \in held /\ base \in Bases
  BY <1>1 DEF IInv, IdleInv, HeldInv, ProjectInv
<1>3. PICK c \in Calls : c = call'
  BY <1>1
<1>4. error' = "none" <=> Unobjectionable(c)
  BY <1>1, <1>2, <1>3, NothingToObject
<1>5. Unobjectionable(call)' <=> Unobjectionable(c)
  BY <1>1, <1>3 DEF Unobjectionable, Allows
<1>6. error' = "none" => target' # Nil /\ target' = base' \o c.path
  <2> SUFFICES ASSUME error' = "none" PROVE target' # Nil /\ target' = base' \o c.path
    OBVIOUS
  <2>1. c.path \in Seq(Byte) /\ Normalized(c.path)
    BY <1>4, CallType DEF Unobjectionable
  <2>2. Target(c.path) = base \o c.path /\ Target(c.path) \in Seq(Byte)
    BY <1>2, <2>1, TargetIsBoth
  <2> QED
    BY <1>1, <1>3, <2>2, NilIsNoPath
<1>7. ProjectInv'
  BY <1>1 DEF IInv, ProjectInv
<1>8. HeldInv' /\ IdleInv'
  BY <1>1 DEF IInv, HeldInv, IdleInv
<1>9. CallInv'
  BY <1>1, <1>4, <1>5, <1>6 DEF CallInv
<1>10. SentInv'
  BY <1>1, <1>2, <1>3, <1>4, <1>5, <1>6 DEF SentInv
<1>11. ResponseInv'
  BY <1>1, <1>2 DEF ResponseInv, DeliveredWhole, NoKeyDelivered
<1> QED
  BY <1>7, <1>8, <1>9, <1>10, <1>11 DEF IInv

LEMMA RespondInv ==
  ASSUME IInv, NEW b \in Bodies, Respond(b)
  PROVE  IInv'
<1>1. /\ stage = "upstream" /\ body' = b /\ stage' = "answered"
      /\ error' = IF ~ b.ends \/ Read(b) > Limit THEN "RESPONSE_TOO_LARGE"
                  ELSE IF Reflects(b) THEN "SECRET_REFLECTION" ELSE "none"
      /\ response' = IF error' = "none" THEN [b EXCEPT !.length = Read(b)] ELSE Nil
      /\ route' = route /\ base' = base /\ prefixes' = prefixes /\ others' = others
      /\ held' = held /\ call' = call /\ target' = target
  BY DEF Respond, project
<1>2. held = {route} \cup others
  BY <1>1 DEF IInv, HeldInv
<1>3. ProjectInv' /\ HeldInv' /\ IdleInv'
  BY <1>1 DEF IInv, ProjectInv, HeldInv, IdleInv
<1>4. CallInv' /\ SentInv'
  BY <1>1 DEF IInv, CallInv, SentInv, Unobjectionable, Allows
<1>5. response' # Nil =>
        response' = b /\ b.ends /\ b.length <= Limit /\ b.keys \cap ({route} \cup others) = {}
  <2> SUFFICES ASSUME error' = "none"
               PROVE  /\ [b EXCEPT !.length = Read(b)] = b
                      /\ b.ends /\ b.length <= Limit /\ b.keys \cap ({route} \cup others) = {}
    BY <1>1
  <2>1. b.ends /\ ~ (Read(b) > Limit) /\ ~ Reflects(b)
    BY <1>1
  <2>2. Limit \in Nat /\ b.length \in Nat
    BY Bounds DEF Bodies
  <2>3. Read(b) = b.length /\ b.length <= Limit
    BY <2>1, <2>2 DEF Read, Minimum
  <2>4. [b EXCEPT !.length = b.length] = b
    BY DEF Bodies
  <2>5. b.keys \cap ({route} \cup others) = {}
    BY <1>2, <2>1 DEF Reflects
  <2> QED
    BY <2>1, <2>3, <2>4, <2>5
<1>6. ResponseInv'
  BY <1>1, <1>5 DEF ResponseInv, DeliveredWhole, NoKeyDelivered
<1> QED
  BY <1>3, <1>4, <1>6 DEF IInv

LEMMA NextInv ==
  ASSUME IInv, [Next]_vars
  PROVE  IInv'
<1>1. CASE FromProject
  <2>1. ProjectInv' /\ HeldInv' /\ IdleInv'
    BY <1>1 DEF IInv, ProjectInv, HeldInv, IdleInv, FromProject, project
  <2>2. call = Nil /\ target = Nil /\ response = Nil
    BY <1>1 DEF IInv, IdleInv, FromProject
  <2>3. CallInv' /\ SentInv' /\ ResponseInv'
    BY <1>1, <2>2 DEF CallInv, SentInv, ResponseInv, DeliveredWhole, NoKeyDelivered, FromProject
  <2> QED
    BY <2>1, <2>3 DEF IInv
<1>2. CASE Invoke
  BY <1>2, InvokeInv
<1>3. CASE Fail
  <2>1. /\ stage = "upstream" /\ stage' = "answered"
        /\ route' = route /\ base' = base /\ prefixes' = prefixes /\ others' = others
        /\ held' = held /\ call' = call /\ target' = target
        /\ body' = body /\ response' = response
    BY <1>3 DEF Fail, project
  <2>2. ProjectInv' /\ HeldInv' /\ IdleInv'
    BY <2>1 DEF IInv, ProjectInv, HeldInv, IdleInv
  <2>3. CallInv' /\ SentInv'
    BY <2>1 DEF IInv, CallInv, SentInv, Unobjectionable, Allows
  <2>4. ResponseInv'
    BY <2>1 DEF IInv, ResponseInv, DeliveredWhole, NoKeyDelivered
  <2> QED
    BY <2>2, <2>3, <2>4 DEF IInv
<1>4. CASE Reply
  <2>1. ProjectInv' /\ HeldInv' /\ IdleInv'
    BY <1>4 DEF IInv, ProjectInv, HeldInv, IdleInv, Reply, project
  <2>2. CallInv' /\ SentInv' /\ ResponseInv'
    BY <1>4 DEF CallInv, SentInv, ResponseInv, DeliveredWhole, NoKeyDelivered, Reply
  <2> QED
    BY <2>1, <2>2 DEF IInv
<1>5. CASE \E b \in Bodies : Respond(b)
  BY <1>5, RespondInv
<1>6. CASE UNCHANGED vars
  <2>1. /\ stage' = stage
        /\ route' = route /\ base' = base /\ prefixes' = prefixes /\ others' = others
        /\ held' = held /\ call' = call /\ target' = target
        /\ body' = body /\ response' = response
    BY <1>6 DEF vars, project
  <2>2. ProjectInv' /\ HeldInv' /\ IdleInv'
    BY <2>1 DEF IInv, ProjectInv, HeldInv, IdleInv
  <2>3. CallInv' /\ SentInv'
    BY <2>1 DEF IInv, CallInv, SentInv, Unobjectionable, Allows
  <2>4. ResponseInv'
    BY <2>1 DEF IInv, ResponseInv, DeliveredWhole, NoKeyDelivered
  <2> QED
    BY <2>2, <2>3, <2>4 DEF IInv
<1> QED
  BY <1>1, <1>2, <1>3, <1>4, <1>5, <1>6 DEF Next

LEMMA RestOfBoth ==
  ASSUME NEW a \in Lists, NEW b \in Lists
  PROVE  SubSeq(a \o b, Len(a) + 1, Len(a \o b)) = b
<1> DEFINE both == a \o b
           rest == SubSeq(both, Len(a) + 1, Len(both))
<1>1. /\ Len(a) \in Nat /\ Len(b) \in Nat
      /\ both \in Lists /\ Len(both) = Len(a) + Len(b)
      /\ \A i \in 1 .. Len(a) + Len(b) :
           both[i] = IF i <= Len(a) THEN a[i] ELSE b[i - Len(a)]
  BY ConcatProperties DEF Lists
<1> HIDE DEF both
<1>2. /\ rest \in Lists
      /\ Len(rest) = IF Len(a) + 1 <= Len(both) THEN Len(both) - (Len(a) + 1) + 1 ELSE 0
      /\ \A i \in 1 .. Len(both) - (Len(a) + 1) + 1 : rest[i] = both[(Len(a) + 1) + i - 1]
  <2>1. \A i \in Len(a) + 1 .. Len(both) : both[i] \in Seq(Byte)
    BY <1>1 DEF Lists
  <2>2. Len(a) + 1 \in Int /\ Len(both) \in Int
    BY <1>1
  <2> QED
    BY <2>1, <2>2, SubSeqProperties DEF Lists
<1> HIDE DEF rest
<1>3. Len(rest) = Len(b)
  BY <1>1, <1>2
<1>4. ASSUME NEW i \in 1 .. Len(b) PROVE rest[i] = b[i]
  <2>1. /\ i \in 1 .. Len(both) - (Len(a) + 1) + 1
        /\ (Len(a) + 1) + i - 1 = Len(a) + i
        /\ Len(a) + i \in 1 .. Len(a) + Len(b)
        /\ ~ (Len(a) + i <= Len(a)) /\ (Len(a) + i) - Len(a) = i
    BY <1>1
  <2>2. rest[i] = both[Len(a) + i]
    BY <1>2, <2>1
  <2>3. both[Len(a) + i] = b[(Len(a) + i) - Len(a)]
    BY <1>1, <2>1
  <2> QED
    BY <2>1, <2>2, <2>3
<1>5. rest = b
  BY <1>2, <1>3, <1>4, SeqEqual DEF Lists
<1> QED
  BY <1>5 DEF rest, both

(* The inductive invariant: the upstream is asked for the path of the      *)
(* invocation beneath that of the base URL, exactly if nothing is wrong    *)
(* with the invocation (execute_route and invoke).                         *)
THEOREM PolicyInvariant == Spec => []IInv
<1>1. Init => IInv
  BY InitInv
<1>2. IInv /\ [Next]_vars => IInv'
  BY NextInv
<1> QED
  BY <1>1, <1>2, PTL DEF Spec

(* A prefix allows exactly the paths whose segments it grants              *)
(* (HttpPolicy::allows_path), for prefixes and paths of any length.        *)
THEOREM PrefixesGrantBySegment ==
  ASSUME NEW prefix \in Seq(Byte), NEW path \in Seq(Byte),
         Normalized(prefix), Normalized(path)
  PROVE  AllowedBy(prefix, path) <=> Grants(prefix, Segments(path))
BY AllowedIsGranted DEF Normalized, Rooted

LEMMA AllowsByGrant ==
  ASSUME ProjectInv, NEW path \in Seq(Byte), Normalized(path)
  PROVE  Allows(path) <=> \E prefix \in prefixes : Grants(prefix, Segments(path))
<1>1. MaxPrefix \in Nat
  BY Bounds
<1>2. \A prefix \in prefixes : prefix \in Seq(Byte) /\ Normalized(prefix)
  BY <1>1, PathType DEF ProjectInv
<1>3. \A prefix \in prefixes : AllowedBy(prefix, path) <=> Grants(prefix, Segments(path))
  BY <1>2, PrefixesGrantBySegment
<1>4. Allows(path) <=> \E prefix \in prefixes : AllowedBy(prefix, path)
  BY DEF Allows, AllowedBy
<1> QED
  BY <1>3, <1>4

LEMMA SentPath ==
  ASSUME IInv, target # Nil
  PROVE  /\ call.path \in Seq(Byte) /\ Normalized(call.path) /\ Allows(call.path)
         /\ base \in Seq(Byte)
         /\ Resolved(target) = Segments(base) \o Segments(call.path)
<1>1. call \in Calls /\ Unobjectionable(call) /\ target = base \o call.path /\ base \in Bases
  BY DEF IInv, SentInv, ProjectInv
<1>2. call.path \in Seq(Byte) /\ Normalized(call.path) /\ Allows(call.path)
  BY <1>1, CallType DEF Unobjectionable
<1> QED
  BY <1>1, <1>2, TargetResolves, BaseIsPlain

(* What the upstream resolves the URL to is the base URL and the path that *)
(* was checked (origin_path_is_normalized and target_url).                 *)
THEOREM WhatIsCheckedIsAsked == Spec => []TargetIsTheOneChecked
<1>1. IInv => TargetIsTheOneChecked
  BY SentPath DEF TargetIsTheOneChecked
<1> QED
  BY <1>1, PolicyInvariant, PTL

(* The upstream is asked only for what a prefix of the capability grants   *)
(* (HttpPolicy::allows_path).                                              *)
THEOREM NothingOutsideTheGrant == Spec => []StaysWithinGrant
<1>1. IInv => StaysWithinGrant
  <2> SUFFICES ASSUME IInv, target # Nil
               PROVE  \E prefix \in prefixes :
                        Grants(prefix, SubSeq(Resolved(target), Len(Segments(base)) + 1,
                                              Len(Resolved(target))))
    BY DEF StaysWithinGrant
  <2> DEFINE c == Segments(base)
             d == Segments(call.path)
             r == Resolved(target)
  <2>1. /\ call.path \in Seq(Byte) /\ Normalized(call.path) /\ Allows(call.path)
        /\ base \in Seq(Byte) /\ r = c \o d
    BY SentPath
  <2>2. c \in Lists /\ d \in Lists
    BY <2>1, SegmentsType
  <2>3. PICK prefix \in prefixes : Grants(prefix, d)
    BY <2>1, AllowsByGrant DEF IInv
  <2> HIDE DEF c, d, r
  <2>4. SubSeq(r, Len(c) + 1, Len(r)) = d
    BY <2>1, <2>2, RestOfBoth
  <2> QED
    BY <2>3, <2>4 DEF c, d, r
<1> QED
  BY <1>1, PolicyInvariant, PTL

(* An invocation with nothing wrong, for a path that a prefix grants, is   *)
(* sent (invoke and execute_route).                                        *)
THEOREM WhatIsGrantedCanBeAsked == Spec => []GrantIsUsable
<1>1. IInv => GrantIsUsable
  <2> SUFFICES ASSUME IInv, call # Nil, call.flaw = "none", Normalized(call.path),
                      \E prefix \in prefixes : Grants(prefix, Segments(call.path))
               PROVE  target # Nil
    BY DEF GrantIsUsable
  <2>1. call \in Calls /\ (Unobjectionable(call) => target # Nil)
    BY DEF IInv, CallInv
  <2>2. Allows(call.path)
    BY <2>1, CallType, AllowsByGrant DEF IInv
  <2> QED
    BY <2>1, <2>2 DEF Unobjectionable
<1> QED
  BY <1>1, PolicyInvariant, PTL

(* A body is delivered whole and within the limit, or not at all           *)
(* (read_limited).                                                         *)
THEOREM BodiesAreWhole == Spec => []DeliveredWhole
<1>1. IInv => DeliveredWhole
  BY DEF IInv, ResponseInv
<1> QED
  BY <1>1, PolicyInvariant, PTL

(* No body that is delivered holds the key of a route of the session       *)
(* (Broker::forward).                                                      *)
THEOREM KeysStay == Spec => []NoKeyDelivered
<1>1. IInv => NoKeyDelivered
  BY DEF IInv, ResponseInv
<1> QED
  BY <1>1, PolicyInvariant, PTL
=============================================================================
