------------------------------ MODULE Receiver ------------------------------
(***************************************************************************)
(* What sits above the decoder: a visitor as the generator emits it, for   *)
(* message { name: string = NameId; tags: array<string> = TagsId }, with   *)
(* one PayloadAcc for both fields and the placement of src/src/seq.rs, and *)
(* the consumer that owns decoder and visitor and passes the verdict on.   *)
(*                                                                         *)
(* The decoder calls the visitor in the middle of a feed and cannot be     *)
(* stopped by it: a verdict the visitor raises is seen when the feed has   *)
(* returned, and until then further callbacks come.  The visitors of the   *)
(* tests differ in what they do with a payload behind a verdict: some look *)
(* at the verdict first, most do not.  This one takes it like any other,   *)
(* so nothing shown here rests on its stopping.                            *)
(***************************************************************************)
EXTENDS IStreamChunking, WrapperArray
LOCAL INSTANCE FiniteSetsExt
LOCAL INSTANCE SequencesExt

CONSTANTS
  NameId, TagsId,
  NameBound, TagsBound, TagBound,  \* bounds on a name, on a tag's index, on a tag
  TagsCapacity,                    \* slots of the tags' container
  Lead, Trail                      \* the two bytes of a character; others stand alone

ASSUME BoundsAssumption ==
  /\ NameId \in Nat /\ TagsId \in Nat
  /\ NameBound \in Bound /\ TagsBound \in Bound /\ TagBound \in Bound
  /\ TagsCapacity \in Nat

VARIABLES
  name, tags,                           \* the destination
  accBuf, accComplete, accReturned,     \* its accumulator
  open,                                 \* ids of the open sequences, outermost first
  verdict,                              \* the first verdict the visitor raised, or "Ok"
  busy,                                 \* the decoder is in a feed
  latched, answer,                      \* the consumer's terminal verdict; what it answered
  seen,                                 \* how many of the callbacks the visitor has handled
  offered                               \* history: bytes the caller has offered

acc == <<accBuf, accComplete, accReturned>>
destination == <<name, tags>>
visitorVars == <<destination, acc, open, verdict, seen>>
consumerVars == <<busy, latched, answer, offered>>
receiverVars == <<vars, visitorVars, consumerVars>>

Acc == INSTANCE PayloadAcc
         WITH buf <- accBuf, complete <- accComplete, returned <- accReturned

\* core::str::from_utf8
IsText(bytes) ==
  \A i \in DOMAIN bytes :
    /\ bytes[i] = Lead => i < Len(bytes) /\ bytes[i + 1] = Trail
    /\ bytes[i] = Trail => i > 1 /\ bytes[i - 1] = Lead

Start ==
  /\ name = <<>> /\ tags = <<>> /\ open = <<>> /\ verdict = "Ok" /\ seen = 0
  /\ busy = FALSE /\ latched = "none" /\ answer = "Complete" /\ offered = 0

ReceiverInit == Init /\ Start /\ Acc!AccInit

(***************************************************************************)
(* The consumer.                                                           *)
(***************************************************************************)
\* Once rejected, a message stays rejected and its bytes are not looked at.
ConsumerFeed(n) ==
  /\ ~busy /\ offered' = n
  /\ IF latched # "none"
       THEN answer' = latched /\ UNCHANGED <<vars, busy>>
       ELSE Feed(SubSeq(message, offered + 1, n)) /\ busy' = TRUE /\ UNCHANGED answer
  /\ UNCHANGED <<visitorVars, latched>>

\* The visitor's verdict was decided first, and so comes before the decoder's.
FeedReturned ==
  /\ busy /\ pc = "idle" /\ seen = Len(events)
  /\ busy' = FALSE
  /\ answer' = IF verdict # "Ok" THEN verdict ELSE result
  /\ latched' = IF answer' \in {"Complete", "Incomplete"} THEN latched ELSE answer'
  /\ UNCHANGED <<vars, visitorVars, offered>>

\* The message, whole or given up, is decoded again into a destination at its defaults;
\* the accumulator need not be reset.
NextMessage ==
  /\ ~busy
  /\ Reset
  /\ name' = <<>> /\ tags' = <<>> /\ open' = <<>> /\ verdict' = "Ok" /\ seen' = 0
  /\ latched' = "none" /\ answer' = "Complete" /\ offered' = 0
  /\ Acc!Reset \/ UNCHANGED acc
  /\ UNCHANGED busy

\* The decoder runs to its next callback.
Decoder ==
  /\ busy /\ seen = Len(events)
  /\ Steps
  /\ UNCHANGED <<visitorVars, consumerVars>>

(***************************************************************************)
(* The visitor.                                                            *)
(***************************************************************************)
IsName(e, path) == e.type = Str /\ path = <<>> /\ e.id = NameId
IsTag(e, path) == e.type = Str /\ path = <<TagsId>>

\* What a length word says of the field, if it is one of the message's.
Announced(e, path) ==
  CASE IsName(e, path) -> CheckLen(e.value, NameBound)
    [] IsTag(e, path) /\ CheckIndex(e.id, TagsBound) # "Ok" -> CheckIndex(e.id, TagsBound)
    [] IsTag(e, path) /\ CheckIndex(e.id, TagsBound) = "Ok" -> CheckLen(e.value, TagBound)
    [] OTHER -> "Ok"

Handles(callback) ==
  /\ seen < Len(events) /\ events[seen + 1].name = callback
  /\ seen' = seen + 1
  /\ UNCHANGED <<vars, consumerVars>>

event == events[seen + 1]

\* Mutant: a later verdict replaces the one that was raised first.
RaisedLast(v) == IF v # "Ok" THEN v ELSE verdict

\* A verdict counts only where none was raised before it.
Raised(v) == IF verdict = "Ok" THEN v ELSE verdict

FixlenBegin ==
  /\ Handles("fixlen_begin")
  /\ verdict' = Raised(Announced(event, open))
  /\ UNCHANGED <<destination, acc, open>>

\* A chunk of a field of the message.
Takes == IsName(event, open) \/ IsTag(event, open)

\* Mutant: text is judged chunk by chunk.
JudgedChunk(bytes) == event.data

\* Text is judged when it is whole.
Judged(bytes) == bytes

\* The chunk that completes a payload brings its value.
Place(bytes) ==
  LET slot == IF open = <<>> THEN "Ok" ELSE Reservation(tags, TagsCapacity, event.id, TagsBound)
  IN  IF ~IsText(Judged(bytes)) \/ slot # "Ok"
        THEN /\ verdict' = Raised(IF ~IsText(Judged(bytes)) THEN "InvalidMsg" ELSE slot)
             /\ UNCHANGED destination
        ELSE /\ name' = IF open = <<>> THEN bytes ELSE name
             /\ tags' = IF open = <<>> THEN tags
                        ELSE [Grown(tags, event.id + 1) EXCEPT ![event.id + 1] = bytes]
             /\ UNCHANGED verdict

Chunk ==
  /\ Handles("chunk")
  /\ IF ~Takes
       THEN UNCHANGED <<destination, acc, verdict>>
       ELSE /\ Acc!Feed(event.value, event.offset, event.data)
            /\ IF accReturned' = <<>> THEN UNCHANGED <<destination, verdict>>
               ELSE Place(accReturned'[1])
  /\ UNCHANGED open

\* Mutant: an array goes on where the earlier one ended.
SequenceBegunAgain ==
  /\ Handles("sequence_begin")
  /\ open' = Append(open, event.id)
  /\ UNCHANGED <<destination, acc, verdict>>

\* A repeated array replaces the earlier one.
SequenceBegun ==
  /\ Handles("sequence_begin")
  /\ open' = Append(open, event.id)
  /\ tags' = IF open' = <<TagsId>> THEN <<>> ELSE tags
  /\ UNCHANGED <<name, acc, verdict>>

SequenceEnded ==
  /\ Handles("sequence_end")
  /\ open' = Front(open)
  /\ UNCHANGED <<destination, acc, verdict>>

\* Fields the message does not have.
Skipped ==
  /\ \E n \in {"unsigned", "signed", "float", "array_begin"} : Handles(n)
  /\ UNCHANGED <<destination, acc, open, verdict>>

Visitor == FixlenBegin \/ Chunk \/ SequenceBegun \/ SequenceEnded \/ Skipped

ReceiverNext ==
  \/ NextMessage
  \/ \E n \in offered..Len(message) : ConsumerFeed(n)
  \/ Decoder \/ Visitor \/ FeedReturned

ReceiverSpec == ReceiverInit /\ [][ReceiverNext]_receiverVars

-----------------------------------------------------------------------------
(***************************************************************************)
(* Properties.  What the caller offered, and what the reference decoder    *)
(* makes of it in one piece.                                               *)
(***************************************************************************)
reference == Decode(SubSeq(message, 1, offered))

\* The sequences open behind a callback, and at the i-th.
Behind(path, e) ==
  IF e.name = "sequence_begin" THEN Append(path, e.id)
  ELSE IF e.name = "sequence_end" THEN Front(path)
  ELSE path

PathAt(es, i) ==
  LET path[n \in Nat] == IF n = 0 THEN <<>> ELSE Behind(path[n - 1], es[n])
  IN  path[i - 1]

Whole(e) == e.name = "chunk" /\ Len(e.data) = e.value
Names(es) == {i \in DOMAIN es : Whole(es[i]) /\ IsName(es[i], PathAt(es, i))}
Tags(es) == {i \in DOMAIN es : Whole(es[i]) /\ IsTag(es[i], PathAt(es, i))}

\* What the i-th callback says of the message: a length word out of bounds, a text that
\* is none, an element that does not fit the container.
Breach(es, i) ==
  IF es[i].name = "fixlen_begin" THEN Announced(es[i], PathAt(es, i))
  ELSE IF i \in Names(es) \cup Tags(es) /\ ~IsText(es[i].data) THEN "InvalidMsg"
  ELSE IF i \in Tags(es) /\ es[i].id >= TagsCapacity THEN "Argument"
  ELSE "Ok"

FirstVerdict(d) ==
  LET breaches == {i \in DOMAIN d.events : Breach(d.events, i) # "Ok"}
  IN  IF breaches = {} THEN d.verdict ELSE Breach(d.events, Min(breaches))

\* The last occurrence counts, of a field and of an element in the last array.
NameOf(es) == IF Names(es) = {} THEN <<>> ELSE es[Max(Names(es))].data
TagsOf(es) ==
  LET begins == {i \in DOMAIN es : es[i].name = "sequence_begin" /\ es[i].id = TagsId
                                   /\ PathAt(es, i) = <<>>}
      elements == {i \in Tags(es) : i > Max(begins)}
      ofId(n) == {i \in elements : es[i].id = n}
  IN  IF begins = {} \/ elements = {} THEN <<>>
      ELSE [n \in 1..(Max({es[i].id : i \in elements}) + 1) |->
              IF ofId(n - 1) = {} THEN <<>> ELSE es[Max(ofId(n - 1))].data]

\* The answer to every feed is the verdict the bytes offered so far have as one piece,
\* however they were cut: a bound is answered at the length word, also where the payload
\* never comes, dominates what the decoder says of later bytes, and is not taken back
\* (README.md:101-111, istream.rs:158-182).
VerdictIsChunkFree == ~busy => answer = FirstVerdict(reference)

\* Unless the message was rejected, the destination holds after every feed what the bytes
\* so far carry, however they were cut: payloads put together from their chunks, text
\* judged whole, each tag at its index, nothing left of an earlier message.
DestinationIsMessage ==
  ~busy /\ latched = "none" =>
    name = NameOf(reference.events) /\ tags = TagsOf(reference.events)
=============================================================================
