------------------------------- MODULE Decode -------------------------------
(***************************************************************************)
(* The reference decoder: what src/src/istream.rs makes of a sequence of   *)
(* bytes that is there as a whole, with nothing suspended and nothing      *)
(* carried.  It reads one item after the other; `Run(s)[n]' is where it is *)
(* after n of them.  `Decode(s)' answers the callbacks, the verdict, and   *)
(* where the bytes ran out: the depth, the item that would be resumed, and *)
(* the bytes of an item too short to be read.                              *)
(***************************************************************************)
EXTENDS Format

(***************************************************************************)
(* Where the decoder is: how many bytes it has read, how many sequences    *)
(* are open, the array or payload that comes next (none before a field),   *)
(* and the callbacks so far.  Without a verdict it goes on.                *)
(***************************************************************************)
Going(at, depth, item, events) ==
  [verdict |-> "none", at |-> at, depth |-> depth, item |-> item, events |-> events]

\* The outcomes: bytes malformed; bytes that end before the next item is decided.
Malformed(at, depth, item, events) ==
  [verdict |-> "InvalidMsg", at |-> at, depth |-> depth, item |-> item, events |-> events]
RanOut(s, at, depth, item, events) ==
  [verdict |-> IF at = Len(s) /\ depth = 0 /\ item = NoResume THEN "Complete" ELSE "Incomplete",
   at |-> at, depth |-> depth, item |-> item, events |-> events]

\* An element of an array, or the one float of a scalar field.
Element(s, at, depth, item, events) ==
  LET r == IF item.kind = "int" THEN ReadVarint(s, at + 1)
           ELSE IF Len(s) - at < FloatLen(item.type) THEN ReadMore
           ELSE ReadOk(0, FloatLen(item.type))
      event == IF item.kind = "fix"
                 THEN OnFloat(item.id, item.type, SubSeq(s, at + 1, at + r.len))
               ELSE IF item.type = KindSigned
                 THEN OnSigned(item.id, ZigZagDecode(r.value))
               ELSE OnUnsigned(item.id, r.value)
  IN  IF item.remaining = 0 THEN Going(at, depth, NoResume, events)
      ELSE IF r.status = "more" THEN RanOut(s, at, depth, item, events)
      ELSE IF r.status = "invalid" THEN Malformed(at, depth, item, events)
      ELSE Going(at + r.len, depth, [item EXCEPT !.remaining = @ - 1], Append(events, event))

\* A string or blob: what is there of it.
Payload(s, at, depth, item, events) ==
  LET n == IF item.total <= Len(s) - at THEN item.total ELSE Len(s) - at
      told == IF n = 0 /\ item.total > 0 THEN events
              ELSE Append(events,
                     OnChunk(item.id, item.type, item.total, 0, SubSeq(s, at + 1, at + n)))
  IN  IF n = item.total THEN Going(at + n, depth, NoResume, told)
      ELSE RanOut(s, at + n, depth, [item EXCEPT !.remaining = item.total - n], told)

\* A field: all of it, or its head when a payload or elements follow; h is its header,
\* w the value, count or fixlen word behind it, x the fixlen word of an array.
Headed(s, at, depth, events, h, w, x) ==
  LET id == h.value \div 8
      type == h.value % 8
      atW == at + h.len
      atX == atW + w.len
      len == w.value \div 8
      sub == w.value % 8
      width == x.value \div 8
      el == x.value % 8
      kind == CASE type = T_VARINTARRAY_UNSIGNED -> KindUnsigned
                [] type = T_VARINTARRAY_SIGNED -> KindSigned
                [] OTHER -> IF el = Fp64 THEN KindFp64 ELSE KindFp32
      short == RanOut(s, at, depth, NoResume, events)
      bad == Malformed(at, depth, NoResume, events)
      fixlen(item) == Going(atX, depth, item, Append(events, OnFixlenBegin(id, sub, len)))
      array(p, item) == Going(p, depth, item, Append(events, OnArrayBegin(id, kind, w.value)))
  IN
  CASE h.status = "more" -> short
    [] h.status = "invalid" -> bad
    [] h.status = "ok" /\ id > IdMax -> bad
    [] h.status = "ok" /\ id <= IdMax /\ type = T_SEQUENCE_START ->
         IF depth >= MaxDepth THEN bad
         ELSE Going(atW, depth + 1, NoResume, Append(events, OnSequenceBegin(id)))
    [] h.status = "ok" /\ id <= IdMax /\ type = T_SEQUENCE_END ->
         IF depth = 0 THEN bad
         ELSE Going(atW, depth - 1, NoResume, Append(events, OnSequenceEnd))
    [] OTHER ->
  CASE w.status = "more" -> short
    [] w.status = "invalid" -> bad
    [] w.status = "ok" /\ type = T_VARINT_UNSIGNED ->
         Going(atX, depth, NoResume, Append(events, OnUnsigned(id, w.value)))
    [] w.status = "ok" /\ type = T_VARINT_SIGNED ->
         Going(atX, depth, NoResume, Append(events, OnSigned(id, ZigZagDecode(w.value))))
    [] w.status = "ok" /\ type = T_FIXLEN ->
         IF len > FixlenMax \/ sub \notin FixlenTypes THEN bad
         ELSE IF sub \in {Str, Blob} THEN fixlen(Resume("payload", id, sub, len, len))
         ELSE IF len # FloatLen(sub) THEN bad
         ELSE fixlen(Resume("fix", id, sub, 0, 1))
    [] w.status = "ok" /\ type \in IntArrays ->
         IF w.value > ArrayMax THEN bad
         ELSE array(atX, Resume("int", id, kind, 0, w.value))
    [] w.status = "ok" /\ type = T_FIXLENARRAY ->
         IF w.value > ArrayMax \/ x.status = "invalid" THEN bad
         ELSE IF x.status = "more" THEN short
         ELSE IF el \notin Floats \/ width # FloatLen(el) THEN bad
         ELSE array(atX + x.len, Resume("fix", id, el, 0, w.value))

Field(s, at, depth, events) ==
  LET h == ReadVarint(s, at + 1)
      w == ReadVarint(s, at + h.len + 1)
      x == ReadVarint(s, at + h.len + w.len + 1)
  IN  Headed(s, at, depth, events, h, w, x)

\* One item further; a verdict is final.
Step(s, c) ==
  IF c.verdict # "none" THEN c
  ELSE IF c.item.kind = "none" THEN Field(s, c.at, c.depth, c.events)
  ELSE IF c.item.kind = "payload" THEN Payload(s, c.at, c.depth, c.item, c.events)
  ELSE Element(s, c.at, c.depth, c.item, c.events)

Run(s) ==
  LET run[n \in Nat] == IF n = 0 THEN Going(0, 0, NoResume, <<>>) ELSE Step(s, run[n - 1])
  IN  run

\* A field reads a byte at least, and so does an element; the end of an array or an
\* empty payload reads none, but is the end of what a field announced.
Decode(s) ==
  LET c == Run(s)[2 * Len(s) + 1]
  IN  [verdict |-> c.verdict, depth |-> c.depth, events |-> c.events,
       resume |-> c.item, rest |-> SubSeq(s, c.at + 1, Len(s))]
=============================================================================
