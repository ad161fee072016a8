-------------------------- MODULE IStreamChunking --------------------------
(***************************************************************************)
(* The streaming decoder against the reference one: where the chunks were  *)
(* cut does not matter.                                                    *)
(***************************************************************************)
EXTENDS IStream, Decode

\* Callbacks with the chunks of a payload put together again.
Join(done, e) ==
  IF e.name = "chunk" /\ e.offset > 0
    THEN [done EXCEPT ![Len(done)].data = @ \o e.data]
    ELSE Append(done, e)

Joined(es) ==
  LET joined[n \in 0..Len(es)] == IF n = 0 THEN <<>> ELSE Join(joined[n - 1], es[n])
  IN  joined[Len(es)]

\* After every feed, however the bytes fed so far were cut (empty chunks included),
\* the decoder has told exactly what one feed of them all would have told, gives the
\* same verdict, and is left in the same state, down to the carried bytes and the
\* item to resume: nothing about the cuts is remembered.
ChunkingInvisible ==
  pc = "idle" =>
    LET d == Decode(fed)
    IN  /\ result = d.verdict
        /\ Joined(events) = d.events
        /\ ~invalid => /\ carry = d.rest /\ resume = d.resume /\ depth = d.depth
=============================================================================
