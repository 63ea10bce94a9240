------------------------------ MODULE Framing ------------------------------
(***************************************************************************)
(* One stream of bytes cut into lines, twice: by `read_frame' of the       *)
(* capability server, which keeps no more than its limit and goes on after *)
(* a line that is too long, and by the adapter's ProtocolClient, which     *)
(* gives up at one.  Either is handed the stream in pieces that begin and  *)
(* end anywhere; what it makes of the lines must not depend on the cuts.   *)
(*                                                                         *)
(* A byte is a newline, a carriage return or another one.                  *)
(***************************************************************************)
EXTENDS Naturals, Sequences

CONSTANTS Limit,       \* MAX_PROTOCOL_LINE_BYTES of the server
          ReplyLimit,  \* MAX_FRAME_BYTES of the adapter
          MaxInput     \* bound: bytes in the stream

ASSUME Sizes == Limit \in Nat /\ ReplyLimit \in Nat /\ MaxInput \in Nat

VARIABLES input,      \* the stream: what its writer writes until it ends
          pos,        \* how many bytes the server has consumed
          line,       \* Vec `line' of read_frame
          oversized,  \* `oversized' of read_frame
          frames,     \* the frames read_frame has returned
          first,      \* history: where the line the server is in begins
          spans,      \* history: the bytes each frame stands for
          ended,      \* read_frame has returned Frame::Eof
          fed,        \* how many bytes the adapter was handed
          buffer,     \* ProtocolClient.#buffer
          lines,      \* the lines given to #onLine
          ends,       \* history: where the newline of each of them is
          closed      \* the client was closed for a line that is too long

serverVars == <<pos, line, oversized, frames, first, spans, ended>>
clientVars == <<fed, buffer, lines, ends, closed>>
vars == <<input, serverVars, clientVars>>

-----------------------------------------------------------------------------
Byte == {"x", "cr", "nl"}

Frames == [kind : {"data", "oversized"}, bytes : Seq(Byte)]

Spans == [from : Nat, to : Nat]

TypeOK ==
  /\ input \in Seq(Byte)
  /\ pos \in 0 .. Len(input)
  /\ line \in Seq(Byte)
  /\ oversized \in BOOLEAN
  /\ frames \in Seq(Frames)
  /\ first \in Nat
  /\ spans \in Seq(Spans)
  /\ ended \in BOOLEAN
  /\ fed \in 0 .. Len(input)
  /\ buffer \in Seq(Byte)
  /\ lines \in Seq(Seq(Byte))
  /\ ends \in Seq(1 .. fed)
  /\ closed \in BOOLEAN

Inputs == UNION {[1 .. n -> Byte] : n \in 0 .. MaxInput}

Init ==
  /\ input \in Inputs
  /\ pos = 0 /\ line = <<>> /\ oversized = FALSE
  /\ frames = <<>> /\ first = 1 /\ spans = <<>> /\ ended = FALSE
  /\ fed = 0 /\ buffer = <<>> /\ lines = <<>> /\ ends = <<>> /\ closed = FALSE

IsFirstNewline(s, i) ==
  /\ i \in DOMAIN s /\ s[i] = "nl"
  /\ \A j \in 1 .. i - 1 : s[j] # "nl"

NoNewline(s) == \A j \in DOMAIN s : s[j] # "nl"

-----------------------------------------------------------------------------
(* read_frame, one round of its loop at a time: fill_buf shows at least    *)
(* one of the bytes to come, as many as the writer happened to write.      *)
Available(n) == SubSeq(input, pos + 1, pos + n)

Fits(payload) == ~oversized /\ Len(line) + Len(payload) <= Limit

(* No newline in sight: all of it belongs to the line.                     *)
ReadPiece(n) ==
  /\ NoNewline(Available(n))
  /\ line' = IF Fits(Available(n)) THEN line \o Available(n) ELSE <<>>
  /\ oversized' = ~Fits(Available(n))
  /\ pos' = pos + n
  /\ UNCHANGED <<frames, first, spans, ended>>

Return(frame, to) ==
  /\ frames' = Append(frames, frame)
  /\ spans' = Append(spans, [from |-> first, to |-> to])
  /\ line' = <<>>
  /\ oversized' = FALSE

Oversized == [kind |-> "oversized", bytes |-> <<>>]

Data(bytes) == [kind |-> "data", bytes |-> bytes]

WithoutReturn(s) ==
  IF s # <<>> /\ s[Len(s)] = "cr" THEN SubSeq(s, 1, Len(s) - 1) ELSE s

\* Mutant: the carriage return is looked for in the last piece only.
ReadNewlineByPiece(n) ==
  \E i \in 1 .. n :
    LET payload == SubSeq(Available(n), 1, i - 1)
    IN /\ IsFirstNewline(Available(n), i)
       /\ Return(IF Fits(payload) THEN Data(line \o WithoutReturn(payload)) ELSE Oversized,
                 pos + i - 1)
       /\ pos' = pos + i
       /\ first' = pos + i + 1
       /\ UNCHANGED ended

(* The line ends with the first newline, and the rest is not consumed.     *)
ReadNewline(n) ==
  \E i \in 1 .. n :
    LET payload == SubSeq(Available(n), 1, i - 1)
    IN /\ IsFirstNewline(Available(n), i)
       /\ Return(IF Fits(payload) THEN Data(WithoutReturn(line \o payload)) ELSE Oversized,
                 pos + i - 1)
       /\ pos' = pos + i
       /\ first' = pos + i + 1
       /\ UNCHANGED ended

(* The stream has ended: what is left is a frame as it is, if anything is. *)
ReadEnd ==
  /\ pos = Len(input)
  /\ IF line # <<>> \/ oversized
     THEN /\ Return(IF oversized THEN Oversized ELSE Data(line), Len(input))
          /\ first' = Len(input) + 1
          /\ UNCHANGED ended
     ELSE /\ ended' = TRUE
          /\ UNCHANGED <<line, oversized, frames, first, spans>>
  /\ UNCHANGED pos

ReadFrame ==
  /\ ~ended
  /\ (\E n \in 1 .. Len(input) - pos : ReadPiece(n) \/ ReadNewline(n)) \/ ReadEnd
  /\ UNCHANGED <<input, clientVars>>

-----------------------------------------------------------------------------
\* Mutant: a chunk over the limit ends the session although its lines are short.
OnDataStrict(n) ==
  /\ ~closed /\ NoNewline(buffer)
  /\ fed' = fed + n
  /\ buffer' = buffer \o SubSeq(input, fed + 1, fed + n)
  /\ closed' = (Len(buffer') > ReplyLimit)
  /\ UNCHANGED <<lines, ends>>

(* #onData: a chunk is appended to what is left of those before; the       *)
(* buffer may be longer than the limit if there is a newline in it.        *)
OnData(n) ==
  /\ ~closed /\ NoNewline(buffer)
  /\ fed' = fed + n
  /\ buffer' = buffer \o SubSeq(input, fed + 1, fed + n)
  /\ closed' = (Len(buffer') > ReplyLimit /\ NoNewline(buffer'))
  /\ UNCHANGED <<lines, ends>>

(* How many bytes the adapter has parsed.                                  *)
Parsed == IF ends = <<>> THEN 0 ELSE ends[Len(ends)]

(* One round of its loop: the handler goes on until no newline is left.    *)
OnLine ==
  /\ ~closed
  /\ \E i \in DOMAIN buffer :
       /\ IsFirstNewline(buffer, i)
       /\ IF i - 1 > ReplyLimit
          THEN closed' = TRUE /\ UNCHANGED <<buffer, lines, ends>>
          ELSE /\ lines' = Append(lines, SubSeq(buffer, 1, i - 1))
               /\ buffer' = SubSeq(buffer, i + 1, Len(buffer))
               /\ ends' = Append(ends, Parsed + i)
               /\ UNCHANGED closed
  /\ UNCHANGED fed

Receive ==
  /\ (\E n \in 1 .. Len(input) - fed : OnData(n)) \/ OnLine
  /\ UNCHANGED <<input, serverVars>>

Next == ReadFrame \/ Receive

Spec == Init /\ [][Next]_vars

-----------------------------------------------------------------------------
(* The lines of the stream, in terms of the stream alone.                  *)
Bytes(span) == SubSeq(input, span.from, span.to)

Terminated(span) == span.to < Len(input)

(* What the server is meant to make of one: as long as the limit at most,  *)
(* its carriage return included, which is then dropped.                    *)
Meaning(span) ==
  IF Len(Bytes(span)) > Limit THEN Oversized
  ELSE Data(IF Terminated(span) THEN WithoutReturn(Bytes(span)) ELSE Bytes(span))

(* Every frame is a whole line and means the same wherever the stream was  *)
(* cut (read_frame with any BufRead).                                      *)
FramesAreLines ==
  /\ Len(frames) = Len(spans)
  /\ \A k \in DOMAIN spans :
       /\ spans[k].from = IF k = 1 THEN 1 ELSE spans[k - 1].to + 2
       /\ NoNewline(Bytes(spans[k]))
       /\ IF Terminated(spans[k])
          THEN input[spans[k].to + 1] = "nl"
          ELSE spans[k].to = Len(input) /\ spans[k].from <= spans[k].to
       /\ frames[k] = Meaning(spans[k])

(* At the end of the stream nothing of it is left, the last line with or   *)
(* without a newline included.                                             *)
NothingLeft ==
  ended =>
    IF spans = <<>> THEN input = <<>>
    ELSE spans[Len(spans)].to >= Len(input) - 1

(* However long a line is, the server keeps no more of it than the limit.  *)
LineBounded == Len(line) <= Limit

(* The server's frames are the lines of its input: each of them, once, with*)
(* what it means, whatever the cuts, and no more in memory than the limit. *)
ServerReadsLines == FramesAreLines /\ NothingLeft /\ LineBounded

(* The adapter's lines are those of the stream too, none of them longer    *)
(* than its limit (#onData with any chunks).                               *)
LinesAreLines ==
  /\ Len(lines) = Len(ends)
  /\ \A k \in DOMAIN lines :
       LET from == IF k = 1 THEN 1 ELSE ends[k - 1] + 1
       IN /\ ends[k] \in DOMAIN input /\ input[ends[k]] = "nl"
          /\ lines[k] = SubSeq(input, from, ends[k] - 1)
          /\ NoNewline(lines[k])
          /\ Len(lines[k]) <= ReplyLimit

(* The session is given up for a line that is too long and for no other,   *)
(* whatever came in the same chunk (both tests of #onData).                *)
ClosedForTheLine ==
  closed =>
    /\ Parsed + ReplyLimit < Len(input)
    /\ NoNewline(SubSeq(input, Parsed + 1, Parsed + ReplyLimit + 1))

(* The adapter reads the lines of the stream until one is too long.        *)
AdapterReadsLines == LinesAreLines /\ ClosedForTheLine
=============================================================================
