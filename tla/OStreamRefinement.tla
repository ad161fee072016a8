------------------------- MODULE OStreamRefinement -------------------------
(***************************************************************************)
(* OStream implements Encoder.  The code forgets the sequences whose       *)
(* header is out and what they hold, so the tree of the message is kept as *)
(* history beside it; what a receiver is told is not history: it is what   *)
(* the reference decoder makes of the bytes on the wire.                   *)
(***************************************************************************)
EXTENDS OStream, Decode
LOCAL INSTANCE SequencesExt

VARIABLES
  root, frames,   \* the message as a tree (see Encoder)
  torn,           \* a failed call left part of a header or field on the wire
  told            \* what the decoder makes of the wire, when it is not torn

traceVars == <<root, frames, torn, told>>

refinementVars == <<vars, traceVars>>

\* What a receiver is to be told of the field that is being written.
Tells ==
  IF call.asked = <<>> THEN <<>> ELSE
  LET id == call.asked[2]
      type == call.asked[3]
      vs == call.asked[4]
      subtype == IF type = KindFp32 THEN Fp32 ELSE Fp64
      width == FloatLen(subtype)
      count == IF type \in {KindFp32, KindFp64} THEN Len(vs) \div width ELSE Len(vs)
      element(i) ==
        CASE type = KindUnsigned -> OnUnsigned(id, vs[i])
          [] type = KindSigned -> OnSigned(id, vs[i])
          [] type \in {KindFp32, KindFp64} ->
               OnFloat(id, subtype, SubSeq(vs, (i - 1) * width + 1, i * width))
  IN  CASE call.asked[1] = "scalar" -> <<element(1)>>
        [] call.asked[1] = "array" ->
             <<OnArrayBegin(id, type, count)>> \o [i \in 1..count |-> element(i)]
        [] call.asked[1] = "fixlen" ->
             <<OnFixlenBegin(id, type, Len(vs)),
               IF type \in {Fp32, Fp64} THEN OnFloat(id, type, vs)
               ELSE OnChunk(id, type, Len(vs), 0, vs)>>

E == INSTANCE Encoder WITH
       asked <- Tells,
       SequenceIds <- Ids,
       Opens <- OnSequenceBegin,
       Closes <- OnSequenceEnd,
       DepthMax <- MaxDepth

TraceInit == Init /\ root = <<>> /\ frames = <<>> /\ torn = FALSE /\ told = <<>>

(***************************************************************************)
(* The history a step adds.                                                *)
(***************************************************************************)
Opened == depth' > depth
Dropped == depth' < depth /\ pc = "idle"
Returned == pc = "body" /\ pc' = "idle" /\ todo = <<>>
Failed == pc # "idle" /\ pc' = "idle" /\ todo # <<>>

\* Whether the failing call was cut inside an item rather than between two (an
\* element, being one varint, never equals a body).
CutInside == todo # IF pc = "commit" THEN SequenceHeader(pending[written + 1]) ELSE call.body

\* The open sequences whose header is on the wire.
Committed == depth - Len(pending) + written

Remember ==
  CASE torn -> UNCHANGED <<root, frames, torn>>
    [] ~torn /\ Opened -> E!Begin(Last(pending')) /\ UNCHANGED torn
    [] ~torn /\ Dropped -> frames' = Front(frames) /\ UNCHANGED <<root, torn>>
    [] ~torn /\ Returned ->
         /\ IF call.kind = "content" THEN E!Put(frames, Tells) ELSE E!Close
         /\ UNCHANGED torn
    [] ~torn /\ Failed ->
         /\ torn' = CutInside
         /\ frames' = [i \in DOMAIN frames |->
                        [frames[i] EXCEPT !.kept = @ \/ (~CutInside /\ i = Committed)]]
         /\ UNCHANGED root
    [] OTHER -> UNCHANGED <<root, frames, torn>>

TraceNext ==
  /\ Next
  /\ Remember
  /\ told' = IF torn' THEN <<>> ELSE IF pc' = "idle" THEN Decode(Wire').events ELSE told

TraceSpec == TraceInit /\ [][TraceNext]_refinementVars

-----------------------------------------------------------------------------
\* The stream keeps the encoder's promise: whatever the buffers, sinks and
\* handovers, what a receiver of its bytes is told is the message's tree, fields in
\* call order, sequences shown only with content or kept (lazy framing); a failed
\* call either adds committed enclosing sequences only or is known to be torn.
ImplementsEncoder == E!Spec

\* At rest, and unless a failed call tore an item, the wire is a sequence of whole
\* items that a decoder accepts, inside as many sequences as are open and not held
\* back; so a message whose sequences are all closed is complete.
WireIsWhole ==
  pc = "idle" /\ ~torn =>
    LET d == Decode(Wire)
    IN  /\ d.verdict # "InvalidMsg"
        /\ d.rest = <<>> /\ d.resume = NoResume
        /\ d.depth = depth - Len(pending)
=============================================================================
