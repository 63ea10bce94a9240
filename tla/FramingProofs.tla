--------------------------- MODULE FramingProofs ---------------------------
(***************************************************************************)
(* Both readers see the lines of the stream, for streams and pieces of any *)
(* length and any limits.  The inductive invariant says what the bytes in  *)
(* memory are: for the server those of its line so far, unless they are    *)
(* too many, and for the adapter all that it was handed and has not parsed.*)
(***************************************************************************)
EXTENDS Framing, SequenceTheorems, TLAPS

(* No newline among bytes a to b of the stream.                            *)
Plain(a, b) == \A j \in a .. b : input[j] # "nl"

LineInv ==
  /\ first \in 1 .. pos + 1
  /\ Plain(first, pos)
  /\ IF oversized
     THEN line = <<>> /\ pos + 1 - first > Limit
     ELSE line = SubSeq(input, first, pos) /\ pos + 1 - first <= Limit

(* Where the line the server is in begins.                                 *)
FirstInv ==
  IF spans = <<>> THEN first = 1
  ELSE \/ first = spans[Len(spans)].to + 2
       \/ first = Len(input) + 1 /\ spans[Len(spans)].to = Len(input)

EndedInv == ended => first = Len(input) + 1 /\ pos = Len(input)

BufferInv ==
  /\ Parsed \in 0 .. fed
  /\ buffer = SubSeq(input, Parsed + 1, fed)

ServerInv == LineInv /\ FirstInv /\ EndedInv /\ FramesAreLines

AdapterInv == BufferInv /\ LinesAreLines /\ ClosedForTheLine

IInv == TypeOK /\ ServerInv /\ AdapterInv

-----------------------------------------------------------------------------
(* Pieces of the stream, put together.                                     *)
LEMMA Piece ==
  ASSUME NEW s \in Seq(Byte), NEW a \in 1 .. Len(s) + 1, NEW b \in a - 1 .. Len(s)
  PROVE  /\ SubSeq(s, a, b) \in Seq(Byte)
         /\ Len(SubSeq(s, a, b)) = b + 1 - a
         /\ \A i \in 1 .. b + 1 - a : SubSeq(s, a, b)[i] = s[a + i - 1]
<1>1. SubSeq(s, a, b) = [i \in 1 .. b + 1 - a |-> s[a + i - 1]]
  BY SubSeqProperties
<1>2. \A i \in 1 .. b + 1 - a : s[a + i - 1] \in Byte
  OBVIOUS
<1> QED
  BY <1>1, <1>2

(* Two neighbouring pieces.                                                *)
LEMMA Joined ==
  ASSUME NEW s \in Seq(Byte), NEW a \in 1 .. Len(s) + 1, NEW b \in a - 1 .. Len(s),
         NEW c \in b .. Len(s)
  PROVE  SubSeq(s, a, b) \o SubSeq(s, b + 1, c) = SubSeq(s, a, c)
BY ConcatAdjacentSubSeq

(* A piece of a piece.                                                     *)
LEMMA Within ==
  ASSUME NEW s \in Seq(Byte), NEW a \in 1 .. Len(s) + 1, NEW b \in a - 1 .. Len(s),
         NEW i \in 1 .. b + 2 - a, NEW j \in i - 1 .. b + 1 - a
  PROVE  SubSeq(SubSeq(s, a, b), i, j) = SubSeq(s, a + i - 1, a + j - 1)
<1> DEFINE p == SubSeq(s, a, b)
           l == SubSeq(p, i, j)
           r == SubSeq(s, a + i - 1, a + j - 1)
<1>1. /\ p \in Seq(Byte) /\ Len(p) = b + 1 - a
      /\ \A k \in 1 .. b + 1 - a : p[k] = s[a + k - 1]
  BY Piece
<1> HIDE DEF p
<1>2. /\ l \in Seq(Byte) /\ Len(l) = j + 1 - i
      /\ \A k \in 1 .. j + 1 - i : l[k] = p[i + k - 1]
  BY <1>1, Piece
<1>3. /\ r \in Seq(Byte) /\ Len(r) = j + 1 - i
      /\ \A k \in 1 .. j + 1 - i : r[k] = s[a + i - 1 + k - 1]
  <2>1. a + i - 1 \in 1 .. Len(s) + 1 /\ a + j - 1 \in (a + i - 1) - 1 .. Len(s)
    OBVIOUS
  <2>2. (a + j - 1) + 1 - (a + i - 1) = j + 1 - i
    OBVIOUS
  <2> QED
    BY <2>1, <2>2, Piece
<1> HIDE DEF l, r
<1>4. \A k \in 1 .. j + 1 - i : l[k] = r[k]
  <2> TAKE k \in 1 .. j + 1 - i
  <2>1. i + k - 1 \in 1 .. b + 1 - a
    OBVIOUS
  <2>2. p[i + k - 1] = s[a + (i + k - 1) - 1]
    BY <1>1, <2>1
  <2> QED
    BY <1>2, <1>3, <2>2
<1>5. l = r
  BY <1>2, <1>3, <1>4, SeqEqual
<1> QED
  BY <1>5 DEF l, r, p

(* A piece without a newline.                                              *)
LEMMA PlainPiece ==
  ASSUME TypeOK, NEW a \in 1 .. Len(input) + 1, NEW b \in a - 1 .. Len(input)
  PROVE  NoNewline(SubSeq(input, a, b)) <=> Plain(a, b)
<1> DEFINE p == SubSeq(input, a, b)
<1>1. /\ p \in Seq(Byte) /\ Len(p) = b + 1 - a
      /\ \A i \in 1 .. b + 1 - a : p[i] = input[a + i - 1]
  BY Piece DEF TypeOK
<1> HIDE DEF p
<1>2. ASSUME NoNewline(p), NEW j \in a .. b PROVE input[j] # "nl"
  <2>1. j + 1 - a \in 1 .. b + 1 - a /\ a + (j + 1 - a) - 1 = j
    OBVIOUS
  <2>2. p[j + 1 - a] = input[j]
    BY <1>1, <2>1
  <2>3. j + 1 - a \in DOMAIN p
    BY <1>1, <2>1
  <2> QED
    BY <1>2, <2>2, <2>3 DEF NoNewline
<1>3. ASSUME Plain(a, b), NEW i \in DOMAIN p PROVE p[i] # "nl"
  BY <1>1, <1>3 DEF Plain
<1>4. NoNewline(p) <=> Plain(a, b)
  BY <1>2, <1>3 DEF NoNewline, Plain
<1> QED
  BY <1>4 DEF p

(* A piece up to its first newline.                                        *)
LEMMA FirstOfPiece ==
  ASSUME TypeOK, NEW a \in 1 .. Len(input) + 1, NEW b \in a - 1 .. Len(input),
         NEW i, IsFirstNewline(SubSeq(input, a, b), i)
  PROVE  /\ i \in 1 .. b + 1 - a
         /\ input[a + i - 1] = "nl"
         /\ Plain(a, a + i - 2)
         /\ SubSeq(SubSeq(input, a, b), 1, i - 1) = SubSeq(input, a, a + i - 2)
<1> DEFINE p == SubSeq(input, a, b)
<1>1. /\ p \in Seq(Byte) /\ Len(p) = b + 1 - a
      /\ \A k \in 1 .. b + 1 - a : p[k] = input[a + k - 1]
  BY Piece DEF TypeOK
<1>2. IsFirstNewline(p, i)
  OBVIOUS
<1>3. SubSeq(p, 1, i - 1) = SubSeq(input, a, a + i - 2)
  <2>1. i \in 1 .. b + 1 - a
    BY <1>1, <1>2 DEF IsFirstNewline
  <2>2. SubSeq(SubSeq(input, a, b), 1, i - 1) = SubSeq(input, a + 1 - 1, a + (i - 1) - 1)
    <3>1. 1 \in 1 .. b + 2 - a /\ i - 1 \in 1 - 1 .. b + 1 - a
      BY <2>1
    <3> QED
      BY <3>1, Within DEF TypeOK
  <2>3. a + 1 - 1 = a /\ a + (i - 1) - 1 = a + i - 2
    BY <2>1
  <2> QED
    BY <2>2, <2>3
<1> HIDE DEF p
<1>4. i \in 1 .. b + 1 - a /\ p[i] = "nl" /\ \A k \in 1 .. i - 1 : p[k] # "nl"
  BY <1>1, <1>2 DEF IsFirstNewline
<1>5. ASSUME NEW j \in a .. a + i - 2 PROVE input[j] # "nl"
  <2>1. j + 1 - a \in 1 .. i - 1 /\ a + (j + 1 - a) - 1 = j
    BY <1>4
  <2>2. j + 1 - a \in 1 .. b + 1 - a
    BY <1>4, <2>1
  <2>3. p[j + 1 - a] = input[j]
    BY <1>1, <2>1, <2>2
  <2> QED
    BY <1>4, <2>1, <2>3
<1> QED
  BY <1>1, <1>3, <1>4, <1>5 DEF Plain, p

-----------------------------------------------------------------------------
(* Both readers begin with nothing, at the start of the stream.            *)
THEOREM InitInv == Init => IInv
<1> SUFFICES ASSUME Init PROVE IInv
  OBVIOUS
<1>1. input \in Seq(Byte)
  <2>1. PICK n \in 0 .. MaxInput : input \in [1 .. n -> Byte]
    BY DEF Init, Inputs
  <2> QED
    BY <2>1, Sizes
<1>2. SubSeq(input, 1, 0) = <<>>
  BY SubSeqEmpty
<1>3. TypeOK
  <2>1. \A S : <<>> \in Seq(S)
    OBVIOUS
  <2>2. pos \in 0 .. Len(input) /\ fed \in 0 .. Len(input) /\ first \in Nat
    BY <1>1 DEF Init
  <2> QED
    BY <1>1, <2>1, <2>2 DEF TypeOK, Init
<1>4. LineInv /\ FirstInv /\ EndedInv
  BY <1>1, <1>2, Sizes DEF LineInv, FirstInv, EndedInv, Init, Plain
<1>5. FramesAreLines /\ LinesAreLines /\ ClosedForTheLine
  BY DEF FramesAreLines, LinesAreLines, ClosedForTheLine, Init
<1>6. BufferInv
  BY <1>1, <1>2 DEF BufferInv, Parsed, Init
<1> QED
  BY <1>3, <1>4, <1>5, <1>6 DEF IInv, ServerInv, AdapterInv

(* What the server shows of the stream, and the line it makes of it.       *)
LEMMA Shown ==
  ASSUME IInv, NEW n \in 1 .. Len(input) - pos
  PROVE  /\ Available(n) = SubSeq(input, pos + 1, pos + n)
         /\ Len(Available(n)) = n
         /\ pos + 1 \in 1 .. Len(input) + 1
         /\ pos + n \in pos .. Len(input)
<1>1. input \in Seq(Byte) /\ pos \in 0 .. Len(input)
  BY DEF IInv, TypeOK
<1>2. pos + 1 \in 1 .. Len(input) + 1 /\ pos + n \in (pos + 1) - 1 .. Len(input)
  BY <1>1
<1>3. (pos + n) + 1 - (pos + 1) = n
  BY <1>1
<1> QED
  BY <1>1, <1>2, <1>3, Piece DEF Available

(* The line after more of the stream without a newline.                    *)
LEMMA Grown ==
  ASSUME IInv, NEW t \in pos .. Len(input), Plain(pos + 1, t)
  PROVE  /\ Plain(first, t)
         /\ Len(SubSeq(input, pos + 1, t)) = t - pos
         /\ Fits(SubSeq(input, pos + 1, t)) <=> t + 1 - first <= Limit
         /\ ~ oversized => line \o SubSeq(input, pos + 1, t) = SubSeq(input, first, t)
<1>1. /\ input \in Seq(Byte) /\ pos \in 0 .. Len(input) /\ oversized \in BOOLEAN
      /\ first \in 1 .. pos + 1 /\ Plain(first, pos)
      /\ oversized => pos + 1 - first > Limit
      /\ ~ oversized => line = SubSeq(input, first, pos) /\ pos + 1 - first <= Limit
  BY DEF IInv, TypeOK, ServerInv, LineInv
<1>2. Plain(first, t)
  BY <1>1 DEF Plain
<1>3. Len(SubSeq(input, pos + 1, t)) = t - pos
  <2>1. pos + 1 \in 1 .. Len(input) + 1 /\ t \in (pos + 1) - 1 .. Len(input)
    BY <1>1
  <2>2. t + 1 - (pos + 1) = t - pos
    BY <1>1
  <2> QED
    BY <1>1, <2>1, <2>2, Piece
<1>4. ~ oversized => Len(line) = pos + 1 - first
  <2>1. first \in 1 .. Len(input) + 1 /\ pos \in first - 1 .. Len(input)
    BY <1>1
  <2> QED
    BY <1>1, <2>1, Piece
<1>5. Fits(SubSeq(input, pos + 1, t)) <=> t + 1 - first <= Limit
  BY <1>1, <1>3, <1>4, Sizes DEF Fits
<1>6. ~ oversized => line \o SubSeq(input, pos + 1, t) = SubSeq(input, first, t)
  <2>1. first \in 1 .. Len(input) + 1 /\ pos \in first - 1 .. Len(input)
    BY <1>1
  <2> QED
    BY <1>1, <2>1, Joined
<1> QED
  BY <1>2, <1>3, <1>5, <1>6

(* A frame is returned for the line from `first' to t, and means it.       *)
LEMMA Returned ==
  ASSUME IInv, NEW f \in Frames, NEW t \in first - 1 .. Len(input),
         Plain(first, t), input' = input,
         t < Len(input) => input[t + 1] = "nl",
         t = Len(input) => first <= t,
         f = Meaning([from |-> first, to |-> t]),
         Return(f, t)
  PROVE  /\ FramesAreLines'
         /\ frames' \in Seq(Frames) /\ spans' \in Seq(Spans)
         /\ spans' # <<>> /\ spans'[Len(spans')].to = t
<1> DEFINE s == [from |-> first, to |-> t]
           m == Len(spans)
<1>1. /\ input \in Seq(Byte) /\ pos \in 0 .. Len(input)
      /\ first \in 1 .. pos + 1
      /\ frames \in Seq(Frames) /\ spans \in Seq(Spans) /\ Len(frames) = m
      /\ FirstInv /\ FramesAreLines
  BY DEF IInv, TypeOK, ServerInv, LineInv, FramesAreLines
<1>2. s \in Spans /\ s.from = first /\ s.to = t
  BY <1>1 DEF Spans
<1>3. frames' = Append(frames, f) /\ spans' = Append(spans, s)
  BY DEF Return
<1>4. /\ frames' \in Seq(Frames) /\ spans' \in Seq(Spans)
      /\ Len(frames') = m + 1 /\ Len(spans') = m + 1
      /\ frames'[m + 1] = f /\ spans'[m + 1] = s
      /\ \A k \in 1 .. m : frames'[k] = frames[k] /\ spans'[k] = spans[k]
  <2> HIDE DEF s
  <2> QED
    BY <1>1, <1>2, <1>3, AppendProperties
<1> DEFINE From(k) == IF k = 1 THEN 1 ELSE spans[k - 1].to + 2
           Closed(sp) == IF Terminated(sp) THEN input[sp.to + 1] = "nl"
                         ELSE sp.to = Len(input) /\ sp.from <= sp.to
<1>5. \A k \in 1 .. m : /\ spans[k].from = From(k)
                        /\ NoNewline(Bytes(spans[k]))
                        /\ Closed(spans[k])
                        /\ frames[k] = Meaning(spans[k])
  <2>1. DOMAIN spans = 1 .. m
    BY <1>1
  <2> QED
    BY Zenon, <1>1, <2>1 DEF FramesAreLines
<1>6. /\ NoNewline(Bytes(s))
      /\ Closed(s)
  <2>1. Bytes(s) = SubSeq(input, first, t)
    BY DEF Bytes
  <2>2. first \in 1 .. Len(input) + 1
    BY <1>1
  <2>3. NoNewline(SubSeq(input, first, t))
    BY <1>1, <2>2, PlainPiece DEF IInv
  <2>4. t < Len(input) \/ t = Len(input)
    BY <1>1
  <2> QED
    BY <1>2, <2>1, <2>3, <2>4 DEF Terminated
<1>7. first = IF m = 0 THEN 1 ELSE spans[m].to + 2
  <2>1. CASE m = 0
    BY <1>1, <2>1 DEF FirstInv
  <2>2. CASE m # 0 /\ first = spans[m].to + 2
    BY <2>2
  <2>3. CASE m # 0 /\ first = Len(input) + 1
    BY <1>1, <2>3
  <2> QED
    BY <1>1, <2>1, <2>2, <2>3 DEF FirstInv
<1>8. ASSUME NEW k \in 1 .. m + 1
      PROVE  /\ spans'[k].from = IF k = 1 THEN 1 ELSE spans'[k - 1].to + 2
             /\ NoNewline(Bytes(spans'[k]))
             /\ Closed(spans'[k])
             /\ frames'[k] = Meaning(spans'[k])
  <2> HIDE DEF s, Closed
  <2>1. CASE k \in 1 .. m
    <3>1. spans'[k] = spans[k] /\ frames'[k] = frames[k]
      BY <1>4, <2>1
    <3>2. k # 1 => spans'[k - 1] = spans[k - 1]
      BY <1>4, <2>1
    <3> QED
      BY <1>5, <2>1, <3>1, <3>2
  <2>2. CASE k = m + 1
    <3>1. spans'[k] = s /\ frames'[k] = f
      BY <1>4, <2>2
    <3>2. k # 1 => spans'[k - 1] = spans[m]
      BY <1>4, <2>2
    <3>3. f = Meaning(s)
      BY DEF s
    <3>4. s.from = IF k = 1 THEN 1 ELSE spans'[k - 1].to + 2
      BY <1>1, <1>2, <1>7, <2>2, <3>2
    <3> QED
      BY Zenon, <1>6, <3>1, <3>3, <3>4
  <2> QED
    BY <2>1, <2>2
<1>9. FramesAreLines'
  <2>1. DOMAIN spans' = 1 .. m + 1
    BY <1>4
  <2> QED
    BY <1>4, <1>8, <2>1 DEF FramesAreLines, Bytes, Meaning, Terminated
<1> QED
  BY <1>1, <1>2, <1>4, <1>9

-----------------------------------------------------------------------------
(* What a step of the server has to show: the rest is the adapter's.       *)
ServerType ==
  /\ pos \in 0 .. Len(input)
  /\ line \in Seq(Byte)
  /\ oversized \in BOOLEAN
  /\ frames \in Seq(Frames)
  /\ first \in Nat
  /\ spans \in Seq(Spans)
  /\ ended \in BOOLEAN

LEMMA ServerSteps ==
  ASSUME IInv, UNCHANGED <<input, clientVars>>, ServerType', ServerInv'
  PROVE  IInv'
<1>1. TypeOK'
  BY DEF IInv, TypeOK, ServerType, clientVars
<1>2. AdapterInv'
  <2>1. UNCHANGED <<input, fed, buffer, lines, ends, closed>>
    BY DEF clientVars
  <2>2. Parsed' = Parsed
    BY <2>1 DEF Parsed
  <2>3. AdapterInv
    BY DEF IInv
  <2>4. BufferInv'
    BY <2>1, <2>2, <2>3 DEF AdapterInv, BufferInv
  <2>5. LinesAreLines'
    BY <2>1, <2>3 DEF AdapterInv, LinesAreLines, NoNewline
  <2>6. ClosedForTheLine'
    BY <2>1, <2>2, <2>3 DEF AdapterInv, ClosedForTheLine, NoNewline
  <2> QED
    BY <2>4, <2>5, <2>6 DEF AdapterInv
<1> QED
  BY <1>1, <1>2 DEF IInv

(* The line starts anew behind the t bytes consumed.                       *)
LEMMA StartsAnew ==
  ASSUME IInv, NEW t \in 0 .. Len(input), pos' = t, first' = t + 1,
         input' = input, line' = <<>>, oversized' = FALSE
  PROVE  LineInv'
<1>1. input \in Seq(Byte)
  BY DEF IInv, TypeOK
<1>2. t \in Nat
  BY <1>1
<1>3. SubSeq(input, t + 1, t) = <<>>
  BY <1>2, SubSeqEmpty
<1>4. first' \in 1 .. pos' + 1 /\ pos' + 1 - first' <= Limit
  BY <1>2, Sizes
<1>5. \A j \in t + 1 .. t : input'[j] # "nl"
  BY <1>2
<1> QED
  BY <1>3, <1>4, <1>5 DEF LineInv, Plain

(* The frames of the past keep their meaning.                              *)
LEMMA FramesStay ==
  ASSUME FramesAreLines, input' = input, frames' = frames, spans' = spans
  PROVE  FramesAreLines'
<1>1. ASSUME NEW k \in DOMAIN spans
      PROVE  /\ Bytes(spans[k])' = Bytes(spans[k])
             /\ Terminated(spans[k])' <=> Terminated(spans[k])
             /\ Meaning(spans[k])' = Meaning(spans[k])
  BY DEF Bytes, Terminated, Meaning
<1>2. Len(frames') = Len(spans')
  BY DEF FramesAreLines
<1>3. ASSUME NEW k \in DOMAIN spans
      PROVE  /\ spans[k].from = IF k = 1 THEN 1 ELSE spans[k - 1].to + 2
             /\ NoNewline(Bytes(spans[k])')
             /\ IF Terminated(spans[k])'
                THEN input[spans[k].to + 1] = "nl"
                ELSE spans[k].to = Len(input) /\ spans[k].from <= spans[k].to
             /\ frames[k] = Meaning(spans[k])'
  <2>1. /\ spans[k].from = IF k = 1 THEN 1 ELSE spans[k - 1].to + 2
        /\ NoNewline(Bytes(spans[k]))
        /\ IF Terminated(spans[k])
           THEN input[spans[k].to + 1] = "nl"
           ELSE spans[k].to = Len(input) /\ spans[k].from <= spans[k].to
        /\ frames[k] = Meaning(spans[k])
    BY Zenon DEF FramesAreLines
  <2> QED
    BY Zenon, <1>1, <2>1
<1> QED
  BY Zenon, <1>2, <1>3 DEF FramesAreLines

(* A piece without a newline becomes part of the line.                     *)
LEMMA ReadPieceStep ==
  ASSUME IInv, ~ ended, NEW n \in 1 .. Len(input) - pos, ReadPiece(n),
         UNCHANGED <<input, clientVars>>
  PROVE  IInv'
<1> DEFINE t == pos + n
<1>1. /\ input \in Seq(Byte) /\ pos \in 0 .. Len(input) /\ oversized \in BOOLEAN
      /\ first \in 1 .. pos + 1
      /\ oversized => pos + 1 - first > Limit
      /\ input' = input /\ UNCHANGED <<frames, first, spans, ended>>
      /\ pos' = t
  BY DEF IInv, TypeOK, ServerInv, LineInv, ReadPiece
<1>2. Available(n) = SubSeq(input, pos + 1, t) /\ t \in pos .. Len(input)
  BY Shown
<1>3. Plain(pos + 1, t)
  <2>1. pos + 1 \in 1 .. Len(input) + 1 /\ t \in (pos + 1) - 1 .. Len(input)
    BY <1>1, <1>2
  <2>2. NoNewline(SubSeq(input, pos + 1, t))
    BY <1>2 DEF ReadPiece
  <2> QED
    BY <2>1, <2>2, PlainPiece DEF IInv
<1>4. /\ Plain(first, t)
      /\ Fits(Available(n)) <=> t + 1 - first <= Limit
      /\ ~ oversized => line \o Available(n) = SubSeq(input, first, t)
  BY <1>2, <1>3, Grown
<1>5. /\ line' = IF t + 1 - first <= Limit THEN SubSeq(input, first, t) ELSE <<>>
      /\ oversized' = ~ (t + 1 - first <= Limit)
  <2>1. line' = IF t + 1 - first <= Limit THEN line \o Available(n) ELSE <<>>
    BY <1>4 DEF ReadPiece
  <2>2. oversized' = ~ (t + 1 - first <= Limit)
    BY <1>4 DEF ReadPiece
  <2>3. t + 1 - first <= Limit => ~ oversized
    BY <1>1, <1>2, Sizes
  <2> QED
    BY <1>4, <2>1, <2>2, <2>3
<1>6. line' \in Seq(Byte)
  <2>1. first \in 1 .. Len(input) + 1 /\ t \in first - 1 .. Len(input)
    BY <1>1, <1>2
  <2> QED
    BY <1>1, <1>5, <2>1, Piece
<1>7. ServerType'
  <2> HIDE DEF t
  <2>1. frames \in Seq(Frames) /\ first \in Nat /\ spans \in Seq(Spans) /\ ended \in BOOLEAN
    BY DEF IInv, TypeOK
  <2>2. oversized' \in BOOLEAN
    BY <1>5
  <2>3. t \in 0 .. Len(input)
    BY <1>1, <1>2
  <2> QED
    BY <1>1, <1>6, <2>1, <2>2, <2>3 DEF ServerType
<1>8. LineInv'
  <2>1. first \in 1 .. t + 1
    BY <1>1, <1>2
  <2>2. t + 1 - first <= Limit \/ t + 1 - first > Limit
    BY <1>1, <1>2, Sizes
  <2> HIDE DEF t
  <2> QED
    BY <1>1, <1>4, <1>5, <2>1, <2>2 DEF LineInv, Plain
<1>9. FirstInv' /\ EndedInv'
  BY <1>1 DEF IInv, ServerInv, FirstInv, EndedInv
<1>10. FramesAreLines'
  <2>1. FramesAreLines
    BY DEF IInv, ServerInv
  <2> QED
    BY <1>1, <2>1, FramesStay
<1> QED
  BY <1>7, <1>8, <1>9, <1>10, ServerSteps DEF ServerInv

(* The frames made of a line.                                              *)
LEMMA ShortOfLine ==
  ASSUME NEW s \in Seq(Byte)
  PROVE  /\ WithoutReturn(s) \in Seq(Byte)
         /\ Data(s) \in Frames /\ Data(WithoutReturn(s)) \in Frames
         /\ Oversized \in Frames
<1>1. WithoutReturn(s) \in Seq(Byte)
  <2>1. CASE s # <<>> /\ s[Len(s)] = "cr"
    <3>1. 1 \in 1 .. Len(s) + 1 /\ Len(s) - 1 \in 1 - 1 .. Len(s)
      BY <2>1
    <3> QED
      BY <2>1, <3>1, Piece DEF WithoutReturn
  <2>2. CASE ~ (s # <<>> /\ s[Len(s)] = "cr")
    BY <2>2 DEF WithoutReturn
  <2> QED
    BY <2>1, <2>2
<1> QED
  BY <1>1 DEF Data, Oversized, Frames

(* A newline ends the line and makes a frame of it.                        *)
LEMMA ReadNewlineStep ==
  ASSUME IInv, ~ ended, NEW n \in 1 .. Len(input) - pos, ReadNewline(n),
         UNCHANGED <<input, clientVars>>
  PROVE  IInv'
<1>1. PICK i \in 1 .. n :
        LET payload == SubSeq(Available(n), 1, i - 1)
        IN /\ IsFirstNewline(Available(n), i)
           /\ Return(IF Fits(payload) THEN Data(WithoutReturn(line \o payload)) ELSE Oversized,
                     pos + i - 1)
           /\ pos' = pos + i
           /\ first' = pos + i + 1
           /\ UNCHANGED ended
  BY DEF ReadNewline
<1>2. PICK t : t = pos + i - 1
  OBVIOUS
<1>3. /\ input \in Seq(Byte) /\ pos \in 0 .. Len(input) /\ oversized \in BOOLEAN
      /\ first \in 1 .. pos + 1
      /\ input' = input
  BY DEF IInv, TypeOK, ServerInv, LineInv
<1>4. t \in pos .. Len(input) /\ t < Len(input) /\ t + 1 = pos + i
  BY <1>2, <1>3
<1>5. Available(n) = SubSeq(input, pos + 1, pos + n)
  BY Shown
<1>6. /\ input[t + 1] = "nl"
      /\ Plain(pos + 1, t)
      /\ SubSeq(Available(n), 1, i - 1) = SubSeq(input, pos + 1, t)
  <2>1. pos + 1 \in 1 .. Len(input) + 1 /\ pos + n \in (pos + 1) - 1 .. Len(input)
    BY <1>3
  <2>2. IsFirstNewline(SubSeq(input, pos + 1, pos + n), i)
    BY <1>1, <1>5
  <2>3. (pos + 1) + i - 1 = t + 1 /\ (pos + 1) + i - 2 = t
    BY <1>2, <1>3
  <2>4. /\ input[(pos + 1) + i - 1] = "nl"
        /\ Plain(pos + 1, (pos + 1) + i - 2)
        /\ SubSeq(SubSeq(input, pos + 1, pos + n), 1, i - 1)
             = SubSeq(input, pos + 1, (pos + 1) + i - 2)
    BY <2>1, <2>2, FirstOfPiece DEF IInv
  <2> QED
    BY <1>5, <2>3, <2>4
<1>7. /\ Plain(first, t)
      /\ Fits(SubSeq(input, pos + 1, t)) <=> t + 1 - first <= Limit
      /\ ~ oversized => line \o SubSeq(input, pos + 1, t) = SubSeq(input, first, t)
  BY <1>4, <1>6, Grown
<1> DEFINE w == SubSeq(input, first, t)
           f == IF t + 1 - first <= Limit THEN Data(WithoutReturn(w)) ELSE Oversized
<1>8. w \in Seq(Byte) /\ Len(w) = t + 1 - first
  <2>1. first \in 1 .. Len(input) + 1 /\ t \in first - 1 .. Len(input)
    BY <1>3, <1>4
  <2> QED
    BY <1>3, <2>1, Piece
<1>9. t + 1 - first <= Limit => ~ oversized
  BY <1>7 DEF Fits
<1>10. Return(f, t) /\ pos' = t + 1 /\ first' = (t + 1) + 1 /\ ended' = ended
  <2>1. f = IF Fits(SubSeq(input, pos + 1, t))
            THEN Data(WithoutReturn(line \o SubSeq(input, pos + 1, t))) ELSE Oversized
    BY <1>7, <1>9
  <2>2. Return(IF Fits(SubSeq(input, pos + 1, t))
               THEN Data(WithoutReturn(line \o SubSeq(input, pos + 1, t))) ELSE Oversized, t)
    BY <1>1, <1>2, <1>6
  <2> HIDE DEF f
  <2>3. pos' = t + 1 /\ first' = (t + 1) + 1 /\ ended' = ended
    BY <1>1, <1>2, <1>3
  <2> QED
    BY <2>1, <2>2, <2>3
<1>11. f \in Frames
  BY <1>8, ShortOfLine
<1>12. f = Meaning([from |-> first, to |-> t])
  <2>1. Len(w) > Limit <=> ~ (t + 1 - first <= Limit)
    BY <1>3, <1>4, <1>8, Sizes
  <2> QED
    BY <1>4, <2>1 DEF Meaning, Bytes, Terminated
<1> HIDE DEF f, w
<1>13. /\ FramesAreLines'
       /\ frames' \in Seq(Frames) /\ spans' \in Seq(Spans)
       /\ spans' # <<>> /\ spans'[Len(spans')].to = t
  <2>1. t \in first - 1 .. Len(input)
    BY <1>3, <1>4
  <2>2. t < Len(input) => input[t + 1] = "nl"
    BY <1>6
  <2>3. t = Len(input) => first <= t
    BY <1>3, <1>4
  <2> QED
    BY <1>3, <1>7, <1>10, <1>11, <1>12, <2>1, <2>2, <2>3, Returned
<1>14. t + 1 \in 0 .. Len(input) /\ (t + 1) + 1 \in Nat
  BY <1>3, <1>4
<1>15. LineInv'
  BY <1>3, <1>10, <1>14, StartsAnew DEF Return
<1>16. FirstInv'
  <2>1. first' = t + 2
    BY <1>4, <1>10, <1>3
  <2> QED
    BY <1>13, <2>1 DEF FirstInv
<1>17. EndedInv'
  BY <1>10 DEF EndedInv
<1>18. ServerType'
  <2>1. ended' \in BOOLEAN
    BY <1>10 DEF IInv, TypeOK
  <2>2. line' \in Seq(Byte) /\ oversized' \in BOOLEAN
    BY <1>10, EmptySeq DEF Return
  <2>3. pos' \in 0 .. Len(input') /\ first' \in Nat
    BY <1>3, <1>10, <1>14
  <2> QED
    BY <1>13, <2>1, <2>2, <2>3 DEF ServerType
<1> QED
  BY <1>13, <1>15, <1>16, <1>17, <1>18, ServerSteps DEF ServerInv

(* The end of the stream makes a frame of what is left.                    *)
LEMMA ReadEndStep ==
  ASSUME IInv, ~ ended, ReadEnd, UNCHANGED <<input, clientVars>>
  PROVE  IInv'
<1>1. /\ input \in Seq(Byte) /\ pos = Len(input) /\ oversized \in BOOLEAN
      /\ first \in 1 .. pos + 1 /\ first \in Nat /\ line \in Seq(Byte)
      /\ frames \in Seq(Frames) /\ spans \in Seq(Spans) /\ ended \in BOOLEAN
      /\ Plain(first, pos)
      /\ IF oversized
         THEN line = <<>> /\ pos + 1 - first > Limit
         ELSE line = SubSeq(input, first, pos) /\ pos + 1 - first <= Limit
      /\ input' = input /\ pos' = pos
  BY DEF IInv, TypeOK, ServerInv, LineInv, ReadEnd
<1> DEFINE t == Len(input)
           f == IF oversized THEN Oversized ELSE Data(line)
<1>2. t \in Nat /\ t \in 0 .. Len(input) /\ t \in first - 1 .. Len(input)
  BY <1>1
<1>3. ~ oversized => Len(line) = t + 1 - first
  <2>1. first \in 1 .. Len(input) + 1
    BY <1>1
  <2> QED
    BY <1>1, <1>2, <2>1, Piece
<1>4. CASE line # <<>> \/ oversized
  <2>1. Return(f, t) /\ first' = t + 1 /\ ended' = ended
    BY <1>4 DEF ReadEnd
  <2>2. first <= t
    <3>1. CASE oversized
      BY <1>1, <3>1, Sizes
    <3>2. CASE ~ oversized /\ line # <<>>
      <4>1. Len(line) > 0
        BY <1>1, <3>2
      <4> QED
        BY <1>1, <1>3, <3>2, <4>1
    <3> QED
      BY <1>4, <3>1, <3>2
  <2>3. f \in Frames
    BY <1>1, ShortOfLine
  <2>4. f = Meaning([from |-> first, to |-> t])
    <3>1. Len(SubSeq(input, first, t)) = t + 1 - first
      <4>1. first \in 1 .. Len(input) + 1
        BY <1>1
      <4> QED
        BY <1>1, <1>2, <4>1, Piece
    <3>2. ~ (t < Len(input))
      BY <1>2
    <3>3. Len(SubSeq(input, first, t)) > Limit <=> oversized
      BY <1>1, <1>2, <3>1, Sizes
    <3> QED
      BY <1>1, <3>2, <3>3 DEF Meaning, Bytes, Terminated
  <2>5. Plain(first, t)
    BY <1>1
  <2> HIDE DEF f
  <2>6. /\ FramesAreLines'
        /\ frames' \in Seq(Frames) /\ spans' \in Seq(Spans)
        /\ spans' # <<>> /\ spans'[Len(spans')].to = t
    <3>1. t < Len(input) => input[t + 1] = "nl"
      BY <1>2
    <3> HIDE DEF t
    <3> QED
      BY <1>1, <1>2, <2>1, <2>2, <2>3, <2>4, <2>5, <3>1, Returned
  <2>7. LineInv'
    BY <1>1, <1>2, <2>1, StartsAnew DEF Return
  <2>8. FirstInv'
    BY <1>1, <2>1, <2>6 DEF FirstInv
  <2>9. EndedInv'
    BY <1>1, <2>1 DEF EndedInv
  <2>10. ServerType'
    <3>1. line' \in Seq(Byte) /\ oversized' \in BOOLEAN
      BY <2>1, EmptySeq DEF Return
    <3>2. pos' \in 0 .. Len(input') /\ first' \in Nat /\ ended' \in BOOLEAN
      BY <1>1, <1>2, <2>1
    <3> QED
      BY <2>6, <3>1, <3>2 DEF ServerType
  <2> QED
    BY <2>6, <2>7, <2>8, <2>9, <2>10, ServerSteps DEF ServerInv
<1>5. CASE ~ (line # <<>> \/ oversized)
  <2>1. ended' = TRUE /\ UNCHANGED <<line, oversized, frames, first, spans>>
    BY <1>5 DEF ReadEnd
  <2>2. first = t + 1
    BY <1>1, <1>2, <1>3, <1>5
  <2>3. FramesAreLines'
    BY <1>1, <2>1, FramesStay DEF IInv, ServerInv
  <2>4. LineInv'
    BY <1>1, <2>1 DEF LineInv, Plain
  <2>5. FirstInv'
    BY <1>1, <2>1 DEF FirstInv, IInv, ServerInv
  <2>6. EndedInv'
    BY <1>1, <2>1, <2>2 DEF EndedInv
  <2>7. ServerType'
    BY <1>1, <1>2, <2>1 DEF ServerType
  <2> QED
    BY <2>3, <2>4, <2>5, <2>6, <2>7, ServerSteps DEF ServerInv
<1> QED
  BY <1>4, <1>5

-----------------------------------------------------------------------------
(* What a step of the adapter has to show.                                 *)
AdapterType ==
  /\ fed \in 0 .. Len(input)
  /\ buffer \in Seq(Byte)
  /\ lines \in Seq(Seq(Byte))
  /\ ends \in Seq(1 .. fed)
  /\ closed \in BOOLEAN

LEMMA AdapterSteps ==
  ASSUME IInv, UNCHANGED <<input, serverVars>>, AdapterType', AdapterInv'
  PROVE  IInv'
<1>1. UNCHANGED <<input, pos, line, oversized, frames, first, spans, ended>>
  BY DEF serverVars
<1>2. TypeOK'
  BY <1>1 DEF IInv, TypeOK, AdapterType
<1>3. FramesAreLines'
  BY <1>1, FramesStay DEF IInv, ServerInv
<1>4. LineInv'
  BY <1>1 DEF IInv, ServerInv, LineInv, Plain
<1>5. FirstInv' /\ EndedInv'
  BY <1>1 DEF IInv, ServerInv, FirstInv, EndedInv
<1> QED
  BY <1>2, <1>3, <1>4, <1>5 DEF IInv, ServerInv

(* A chunk is appended to the buffer.                                      *)
LEMMA OnDataStep ==
  ASSUME IInv, NEW n \in 1 .. Len(input) - fed, OnData(n), UNCHANGED <<input, serverVars>>
  PROVE  IInv'
<1> DEFINE t == fed + n
<1>1. /\ input \in Seq(Byte) /\ fed \in 0 .. Len(input) /\ input' = input
      /\ Parsed \in 0 .. fed /\ buffer = SubSeq(input, Parsed + 1, fed)
      /\ fed' = t /\ buffer' = buffer \o SubSeq(input, fed + 1, t)
      /\ closed' = (Len(buffer') > ReplyLimit /\ NoNewline(buffer'))
      /\ lines' = lines /\ ends' = ends
  BY DEF IInv, TypeOK, AdapterInv, BufferInv, OnData
<1>2. t \in fed .. Len(input)
  BY <1>1
<1>3. Parsed' = Parsed
  BY <1>1 DEF Parsed
<1>4. buffer' = SubSeq(input, Parsed + 1, t)
  <2>1. Parsed + 1 \in 1 .. Len(input) + 1 /\ fed \in (Parsed + 1) - 1 .. Len(input)
    BY <1>1
  <2> QED
    BY <1>1, <1>2, <2>1, Joined
<1>5. buffer' \in Seq(Byte) /\ Len(buffer') = t - Parsed
  <2>1. Parsed + 1 \in 1 .. Len(input) + 1 /\ t \in (Parsed + 1) - 1 .. Len(input)
    BY <1>1, <1>2
  <2>2. t + 1 - (Parsed + 1) = t - Parsed
    BY <1>1, <1>2
  <2> QED
    BY <1>1, <1>4, <2>1, <2>2, Piece
<1>6. AdapterType'
  <2>1. lines \in Seq(Seq(Byte)) /\ ends \in Seq(1 .. fed)
    BY DEF IInv, TypeOK
  <2>2. ends \in Seq(1 .. t)
    <3>1. 1 .. fed \subseteq 1 .. t
      BY <1>1, <1>2
    <3> QED
      BY <2>1, <3>1, SeqMonotonic
  <2>3. fed' \in 0 .. Len(input') /\ closed' \in BOOLEAN
    BY <1>1, <1>2
  <2> HIDE DEF t
  <2> QED
    BY <1>1, <1>5, <2>1, <2>2, <2>3 DEF AdapterType
<1>7. BufferInv'
  <2>1. Parsed \in 0 .. t
    BY <1>1, <1>2
  <2> HIDE DEF t
  <2> QED
    BY <1>1, <1>3, <1>4, <2>1 DEF BufferInv
<1>8. LinesAreLines'
  BY <1>1 DEF IInv, AdapterInv, LinesAreLines, NoNewline
<1>9. ClosedForTheLine'
  <2>1. SUFFICES ASSUME closed'
                 PROVE  /\ Parsed + ReplyLimit < Len(input)
                        /\ NoNewline(SubSeq(input, Parsed + 1, Parsed + ReplyLimit + 1))
    BY <1>1, <1>3 DEF ClosedForTheLine, NoNewline
  <2>2. Len(buffer') > ReplyLimit /\ NoNewline(SubSeq(input, Parsed + 1, t))
    BY <1>1, <1>4, <2>1
  <2>3. Parsed + ReplyLimit < t /\ Parsed \in Nat /\ t \in Nat
    BY <1>1, <1>2, <1>5, <2>2, Sizes
  <2>4. Plain(Parsed + 1, t)
    <3>1. Parsed + 1 \in 1 .. Len(input) + 1 /\ t \in (Parsed + 1) - 1 .. Len(input)
      BY <1>1, <1>2
    <3> QED
      BY <2>2, <3>1, PlainPiece DEF IInv
  <2>5. Plain(Parsed + 1, Parsed + ReplyLimit + 1)
    BY <2>3, <2>4, Sizes DEF Plain
  <2>6. /\ Parsed + 1 \in 1 .. Len(input) + 1
        /\ Parsed + ReplyLimit + 1 \in (Parsed + 1) - 1 .. Len(input)
    BY <1>1, <1>2, <2>3, Sizes
  <2>7. NoNewline(SubSeq(input, Parsed + 1, Parsed + ReplyLimit + 1))
    BY <2>5, <2>6, PlainPiece DEF IInv
  <2> QED
    BY <1>1, <1>2, <2>3, <2>7, Sizes
<1> QED
  BY <1>6, <1>7, <1>8, <1>9, AdapterSteps DEF AdapterInv

(* A line is taken out of the buffer, or is too long.                      *)
LEMMA OnLineStep ==
  ASSUME IInv, OnLine, UNCHANGED <<input, serverVars>>
  PROVE  IInv'
<1>1. PICK i \in DOMAIN buffer :
       /\ IsFirstNewline(buffer, i)
       /\ IF i - 1 > ReplyLimit
          THEN closed' = TRUE /\ UNCHANGED <<buffer, lines, ends>>
          ELSE /\ lines' = Append(lines, SubSeq(buffer, 1, i - 1))
               /\ buffer' = SubSeq(buffer, i + 1, Len(buffer))
               /\ ends' = Append(ends, Parsed + i)
               /\ UNCHANGED closed
  BY Zenon DEF OnLine
<1> DEFINE p == Parsed
<1>2. /\ input \in Seq(Byte) /\ fed \in 0 .. Len(input) /\ input' = input
      /\ p \in 0 .. fed /\ buffer = SubSeq(input, p + 1, fed)
      /\ lines \in Seq(Seq(Byte)) /\ ends \in Seq(1 .. fed) /\ closed \in BOOLEAN
      /\ fed' = fed /\ ~ closed
      /\ buffer \in Seq(Byte)
      /\ LinesAreLines
  BY DEF IInv, TypeOK, AdapterInv, BufferInv, OnLine
<1> HIDE DEF p
<1>3. p + 1 \in 1 .. Len(input) + 1 /\ fed \in (p + 1) - 1 .. Len(input)
  BY <1>2
<1>4. Len(buffer) = fed - p
  <2>1. fed + 1 - (p + 1) = fed - p
    BY <1>2
  <2> QED
    BY <1>2, <1>3, <2>1, Piece
<1>5. /\ i \in 1 .. fed - p /\ p + i \in 1 .. fed
      /\ input[p + i] = "nl"
      /\ Plain(p + 1, p + i - 1)
      /\ SubSeq(buffer, 1, i - 1) = SubSeq(input, p + 1, p + i - 1)
  <2>1. IsFirstNewline(SubSeq(input, p + 1, fed), i)
    BY <1>1, <1>2
  <2>2. /\ i \in 1 .. fed + 1 - (p + 1)
        /\ input[(p + 1) + i - 1] = "nl"
        /\ Plain(p + 1, (p + 1) + i - 2)
        /\ SubSeq(SubSeq(input, p + 1, fed), 1, i - 1) = SubSeq(input, p + 1, (p + 1) + i - 2)
    BY <1>3, <2>1, FirstOfPiece DEF IInv
  <2>3. /\ i \in 1 .. fed - p /\ p + i \in 1 .. fed
        /\ (p + 1) + i - 1 = p + i /\ (p + 1) + i - 2 = p + i - 1
    BY <1>2, <2>2
  <2> QED
    BY <1>2, <2>2, <2>3
<1> DEFINE N == Len(input)
<1>8. /\ p \in Nat /\ fed \in Nat /\ N \in Nat /\ i \in Nat /\ ReplyLimit \in Nat
      /\ fed <= N /\ 1 <= i /\ p + i <= fed
  <2>1. N \in Nat
    BY <1>2
  <2>2. fed \in 0 .. N /\ p \in 0 .. fed /\ i \in 1 .. fed - p
    BY <1>2, <1>5
  <2> HIDE DEF N
  <2>3. fed \in Nat /\ fed <= N
    BY <2>1, <2>2
  <2>4. p \in Nat
    BY <2>2, <2>3
  <2>5. i \in Nat /\ 1 <= i /\ p + i <= fed
    BY <2>2, <2>3, <2>4
  <2> QED
    BY <2>1, <2>3, <2>4, <2>5, Sizes
<1> HIDE DEF N
<1>6. CASE i - 1 > ReplyLimit
  <2>1. closed' = TRUE /\ UNCHANGED <<buffer, lines, ends>>
    BY <1>1, <1>6
  <2>2. Parsed' = p
    BY <2>1 DEF Parsed, p
  <2>3. AdapterType'
    BY <1>2, <2>1 DEF AdapterType
  <2>4. BufferInv'
    BY <1>2, <2>1, <2>2 DEF BufferInv
  <2>5. LinesAreLines'
    BY <1>2, <2>1 DEF LinesAreLines, NoNewline
  <2>6. p + ReplyLimit < N /\ p + ReplyLimit + 1 <= p + i - 1
    BY <1>6, <1>8
  <2>7. Plain(p + 1, p + ReplyLimit + 1)
    <3>1. p + 1 .. p + ReplyLimit + 1 \subseteq p + 1 .. p + i - 1
      BY <1>8, <2>6
    <3> QED
      BY <1>5, <3>1 DEF Plain
  <2>8. NoNewline(SubSeq(input, p + 1, p + ReplyLimit + 1))
    <3>1. p + ReplyLimit + 1 \in (p + 1) - 1 .. N
      BY <1>8, <2>6
    <3> QED
      BY <1>3, <2>7, <3>1, PlainPiece DEF IInv, N
  <2>9. ClosedForTheLine'
    BY <1>2, <2>2, <2>6, <2>8 DEF ClosedForTheLine, NoNewline, N
  <2> QED
    BY <2>3, <2>4, <2>5, <2>9, AdapterSteps DEF AdapterInv
<1>7. CASE ~ (i - 1 > ReplyLimit)
  <2> DEFINE l == SubSeq(input, p + 1, p + i - 1)
             e == p + i
             m == Len(ends)
  <2>1. /\ lines' = Append(lines, l)
        /\ buffer' = SubSeq(buffer, i + 1, Len(buffer))
        /\ ends' = Append(ends, e)
        /\ closed' = closed
    BY <1>1, <1>5, <1>7 DEF p
  <2>2. l \in Seq(Byte) /\ Len(l) = i - 1
    <3>1. p + i - 1 \in (p + 1) - 1 .. N /\ (p + i - 1) + 1 - (p + 1) = i - 1
      BY <1>8
    <3> QED
      BY <1>2, <1>3, <3>1, Piece DEF N
  <2>3. /\ buffer' = SubSeq(input, e + 1, fed)
        /\ buffer' \in Seq(Byte)
    <3>1. /\ i + 1 \in 1 .. fed + 2 - (p + 1)
          /\ Len(buffer) \in (i + 1) - 1 .. fed + 1 - (p + 1)
      BY <1>4, <1>8
    <3>2. SubSeq(SubSeq(input, p + 1, fed), i + 1, Len(buffer))
            = SubSeq(input, (p + 1) + (i + 1) - 1, (p + 1) + Len(buffer) - 1)
      BY <1>2, <1>3, <3>1, Within
    <3>3. (p + 1) + (i + 1) - 1 = e + 1 /\ (p + 1) + Len(buffer) - 1 = fed
      BY <1>4, <1>8
    <3>4. e + 1 \in 1 .. N + 1 /\ fed \in (e + 1) - 1 .. N
      BY <1>8
    <3> HIDE DEF e
    <3>5. SubSeq(input, e + 1, fed) \in Seq(Byte)
      BY <1>2, <3>4, Piece DEF N
    <3> QED
      BY <1>2, <2>1, <3>2, <3>3, <3>5
  <2>4. e \in Nat /\ e \in 1 .. fed /\ e \in 1 .. N
    BY <1>8
  <2> HIDE DEF l, e
  <2>5. /\ ends' \in Seq(1 .. fed) /\ Len(ends') = m + 1 /\ ends' # <<>>
        /\ ends'[m + 1] = e
        /\ \A k \in 1 .. m : ends'[k] = ends[k]
    <3> DEFINE S == 1 .. fed
    <3>1. ends \in Seq(S) /\ e \in S /\ ends' = Append(ends, e)
      BY <1>2, <2>1, <2>4
    <3> HIDE DEF S
    <3>2. /\ ends' \in Seq(S) /\ Len(ends') = m + 1 /\ ends' # <<>>
          /\ ends'[m + 1] = e
          /\ \A k \in 1 .. m : ends'[k] = ends[k]
      BY <3>1, AppendProperties
    <3> QED
      BY <3>2 DEF S
  <2>6. /\ lines' \in Seq(Seq(Byte)) /\ Len(lines) = m /\ Len(lines') = m + 1
        /\ lines'[m + 1] = l
        /\ \A k \in 1 .. m : lines'[k] = lines[k]
    <3>1. Len(lines) = m
      BY <1>2 DEF LinesAreLines
    <3> QED
      BY <1>2, <2>1, <2>2, <3>1, AppendProperties
  <2>7. Parsed' = e
    BY <2>5 DEF Parsed
  <2>8. AdapterType'
    BY <1>2, <2>1, <2>3, <2>5, <2>6 DEF AdapterType
  <2>9. BufferInv'
    BY <1>2, <2>3, <2>4, <2>7 DEF BufferInv
  <2>10. ClosedForTheLine'
    BY <1>2, <2>1 DEF ClosedForTheLine
  <2>11. p = IF m = 0 THEN 0 ELSE ends[m]
    BY <1>2 DEF p, Parsed
  <2>12. NoNewline(l)
    <3>1. p + i - 1 \in (p + 1) - 1 .. N
      BY <1>8
    <3> QED
      BY <1>3, <1>5, <3>1, PlainPiece DEF IInv, l, N
  <2> DEFINE From(k) == IF k = 1 THEN 1 ELSE ends[k - 1] + 1
  <2>13. \A k \in 1 .. m :
           /\ ends[k] \in DOMAIN input /\ input[ends[k]] = "nl"
           /\ lines[k] = SubSeq(input, From(k), ends[k] - 1)
           /\ NoNewline(lines[k])
           /\ Len(lines[k]) <= ReplyLimit
    <3>1. DOMAIN lines = 1 .. m
      BY <1>2, <2>6
    <3> QED
      BY Zenon, <1>2, <3>1 DEF LinesAreLines
  <2>14. ASSUME NEW k \in 1 .. m + 1
         PROVE  /\ ends'[k] \in DOMAIN input /\ input[ends'[k]] = "nl"
                /\ lines'[k]
                     = SubSeq(input, IF k = 1 THEN 1 ELSE ends'[k - 1] + 1, ends'[k] - 1)
                /\ NoNewline(lines'[k])
                /\ Len(lines'[k]) <= ReplyLimit
    <3>1. CASE k \in 1 .. m
      <4>1. /\ ends'[k] = ends[k] /\ lines'[k] = lines[k]
            /\ From(k) = IF k = 1 THEN 1 ELSE ends'[k - 1] + 1
        BY <2>5, <2>6, <3>1
      <4> HIDE DEF From
      <4> QED
        BY Zenon, <2>13, <3>1, <4>1
    <3>2. CASE k = m + 1
      <4>1. ends'[k] = e /\ lines'[k] = l
        BY <2>5, <2>6, <3>2
      <4>2. p + 1 = IF k = 1 THEN 1 ELSE ends'[k - 1] + 1
        <5>1. m \in Nat
          BY <1>2
        <5>2. CASE m = 0
          BY <2>11, <3>2, <5>2
        <5>3. CASE m # 0
          <6>1. ends'[k - 1] = ends[m] /\ k # 1
            BY <2>5, <3>2, <5>1, <5>3
          <6> QED
            BY <2>11, <5>3, <6>1
        <5> QED
          BY <5>2, <5>3
      <4>3. e \in DOMAIN input /\ input[e] = "nl"
        BY <1>2, <1>5, <2>4 DEF e, N
      <4>4. l = SubSeq(input, p + 1, e - 1)
        BY <1>8 DEF l, e
      <4>5. Len(l) <= ReplyLimit
        BY <1>5, <1>7, <2>2, Sizes
      <4> QED
        BY Zenon, <2>12, <4>1, <4>2, <4>3, <4>4, <4>5
    <3> QED
      BY <1>2, <3>1, <3>2
  <2>15. LinesAreLines'
    <3>1. Len(lines') = Len(ends') /\ DOMAIN lines' = 1 .. m + 1
      BY <2>5, <2>6
    <3> QED
      BY Zenon, <1>2, <2>14, <3>1 DEF LinesAreLines
  <2> QED
    BY <2>8, <2>9, <2>10, <2>15, AdapterSteps DEF AdapterInv
<1> QED
  BY <1>6, <1>7

-----------------------------------------------------------------------------
(* Every step of either reader keeps the invariant.                        *)
LEMMA NextInv == IInv /\ [Next]_vars => IInv'
<1> SUFFICES ASSUME IInv, [Next]_vars PROVE IInv'
  OBVIOUS
<1>1. ASSUME ReadFrame PROVE IInv'
  <2>1. ~ ended /\ UNCHANGED <<input, clientVars>>
    BY <1>1 DEF ReadFrame
  <2>2. ASSUME NEW n \in 1 .. Len(input) - pos, ReadPiece(n) PROVE IInv'
    BY <2>1, <2>2, ReadPieceStep
  <2>3. ASSUME NEW n \in 1 .. Len(input) - pos, ReadNewline(n) PROVE IInv'
    BY <2>1, <2>3, ReadNewlineStep
  <2>4. ASSUME ReadEnd PROVE IInv'
    BY <2>1, <2>4, ReadEndStep
  <2> QED
    BY <1>1, <2>2, <2>3, <2>4 DEF ReadFrame
<1>2. ASSUME Receive PROVE IInv'
  <2>1. UNCHANGED <<input, serverVars>>
    BY <1>2 DEF Receive
  <2>2. ASSUME NEW n \in 1 .. Len(input) - fed, OnData(n) PROVE IInv'
    BY <2>1, <2>2, OnDataStep
  <2>3. ASSUME OnLine PROVE IInv'
    BY <2>1, <2>3, OnLineStep
  <2> QED
    BY <1>2, <2>2, <2>3 DEF Receive
<1>3. ASSUME UNCHANGED vars PROVE IInv'
  <2>1. UNCHANGED <<input, serverVars>> /\ UNCHANGED clientVars
    BY <1>3 DEF vars
  <2>2. UNCHANGED <<fed, buffer, lines, ends, closed>> /\ input' = input
    BY <2>1 DEF clientVars
  <2>3. Parsed' = Parsed
    BY <2>2 DEF Parsed
  <2>4. AdapterType'
    BY <2>2 DEF IInv, TypeOK, AdapterType
  <2>5. BufferInv' /\ ClosedForTheLine'
    BY <2>2, <2>3 DEF IInv, AdapterInv, BufferInv, ClosedForTheLine, NoNewline
  <2>6. LinesAreLines'
    BY <2>2 DEF IInv, AdapterInv, LinesAreLines, NoNewline
  <2> QED
    BY <2>1, <2>4, <2>5, <2>6, AdapterSteps DEF AdapterInv
<1> QED
  BY <1>1, <1>2, <1>3 DEF Next

(* What is in memory is the stretch of the stream that the reader is in.   *)
THEOREM FramingInvariant == Spec => []IInv
<1>1. Init => IInv
  BY InitInv
<1>2. IInv /\ [Next]_vars => IInv'
  BY NextInv
<1> QED
  BY <1>1, <1>2, PTL DEF Spec

(* Every frame of the server is a line of the stream and means what that   *)
(* line does, wherever the stream was cut; none of it is left behind at    *)
(* the end; and a line keeps the limit while it is read (read_frame).      *)
THEOREM FramesFollowTheStream == Spec => []ServerReadsLines
<1>1. ASSUME IInv PROVE FramesAreLines /\ NothingLeft /\ LineBounded
  <2>1. /\ input \in Seq(Byte) /\ pos \in 0 .. Len(input) /\ spans \in Seq(Spans)
        /\ LineInv /\ FirstInv /\ EndedInv /\ FramesAreLines
    BY <1>1 DEF IInv, TypeOK, ServerInv
  <2>2. ASSUME ended, spans = <<>> PROVE input = <<>>
    BY <2>1, <2>2 DEF EndedInv, FirstInv
  <2>3. ASSUME ended, spans # <<>> PROVE spans[Len(spans)].to >= Len(input) - 1
    <3>1. first = Len(input) + 1
      BY <2>1, <2>3 DEF EndedInv
    <3>2. spans[Len(spans)].to \in Nat
      <4>1. Len(spans) \in 1 .. Len(spans)
        BY <2>1, <2>3, EmptySeq
      <4>2. spans[Len(spans)] \in Spans
        BY <2>1, <4>1, ElementOfSeq
      <4> QED
        BY <4>2 DEF Spans
    <3> QED
      BY <2>1, <2>3, <3>1, <3>2 DEF FirstInv
  <2>4. LineBounded
    <3>1. CASE oversized
      BY <2>1, <3>1, Sizes DEF LineInv, LineBounded
    <3>2. CASE ~ oversized
      <4>1. /\ line = SubSeq(input, first, pos) /\ pos + 1 - first <= Limit
            /\ first \in 1 .. pos + 1
        BY <2>1, <3>2 DEF LineInv
      <4>2. first \in 1 .. Len(input) + 1 /\ pos \in first - 1 .. Len(input)
        BY <2>1, <4>1
      <4>3. Len(SubSeq(input, first, pos)) = pos + 1 - first
        BY <2>1, <4>2, Piece
      <4> QED
        BY <4>1, <4>3 DEF LineBounded
    <3> QED
      BY <3>1, <3>2
  <2> QED
    BY <2>1, <2>2, <2>3, <2>4 DEF NothingLeft
<1>2. IInv => ServerReadsLines
  BY <1>1 DEF ServerReadsLines
<1> QED
  BY <1>2, FramingInvariant, PTL

(* The adapter's lines are lines of the stream within its limit, and it    *)
(* gives the session up only for one that is not (#onData).                *)
THEOREM LinesFollowTheStream == Spec => []AdapterReadsLines
<1>1. IInv => AdapterReadsLines
  BY DEF IInv, AdapterInv, AdapterReadsLines
<1> QED
  BY <1>1, FramingInvariant, PTL
=============================================================================
