----------------------------- MODULE PayloadAcc -----------------------------
(***************************************************************************)
(* The payload accumulator of src/src/payload.rs: it puts a string or blob *)
(* that arrives in chunks back together and hands it back once.            *)
(***************************************************************************)
EXTENDS Integers, Sequences

VARIABLES
  buf, complete,  \* the fields of the PayloadAcc struct
  returned        \* what the last feed returned: <<>> (None) or <<bytes>>

accVars == <<buf, complete, returned>>

AccInit == buf = <<>> /\ complete = FALSE /\ returned = <<>>

(***************************************************************************)
(* feed, in its three ways to go.                                          *)
(***************************************************************************)
\* Mutant: what an abandoned payload left is not dropped.
KeptStale(offset, chunk) == buf \o chunk

\* A first chunk drops what the previous payload left.
Kept(offset, chunk) == (IF offset = 0 THEN <<>> ELSE buf) \o chunk

\* Mutant: the whole buffer is handed back.
CutNot(bytes, total) == bytes

\* An over-delivering source must not widen the field.
Cut(bytes, total) == SubSeq(bytes, 1, total)

\* Mutant: a chunk behind a complete payload is fed like any other.
IgnoresNone(offset) == FALSE

\* A further chunk of a payload that was handed back already.
Ignores(offset) == offset # 0 /\ complete

\* The whole field is in its first chunk: handed back from there, nothing is kept.
FeedWhole(total, offset, chunk) ==
  /\ offset = 0 /\ Len(chunk) >= total
  /\ buf' = <<>> /\ complete' = TRUE
  /\ returned' = <<Cut(chunk, total)>>

FeedIgnored(total, offset, chunk) ==
  /\ Ignores(offset)
  /\ returned' = <<>> /\ UNCHANGED <<buf, complete>>

FeedMore(total, offset, chunk) ==
  /\ ~Ignores(offset) /\ (offset = 0 => Len(chunk) < total)
  /\ buf' = Kept(offset, chunk)
  /\ complete' = (Len(buf') >= total)
  /\ returned' = IF Len(buf') >= total THEN <<Cut(buf', total)>> ELSE <<>>

Feed(total, offset, chunk) ==
  \/ FeedWhole(total, offset, chunk)
  \/ FeedIgnored(total, offset, chunk)
  \/ FeedMore(total, offset, chunk)

Reset ==
  /\ buf' = <<>> /\ complete' = FALSE
  /\ UNCHANGED returned
=============================================================================
