----------------------------- MODULE MCIStream -----------------------------
(***************************************************************************)
(* Instances of IStreamChunking for TLC.                                   *)
(***************************************************************************)
EXTENDS IStreamChunking
LOCAL INSTANCE SequencesExt

\* Every sequence of so many bytes of an alphabet that has each wire type, fixlen
\* words of each kind (10: a string of one byte, 8: an fp32), and a continuation.
Alphabet == {0, 2, 3, 5, 6, 7, 8, 10, 129}
\* The first byte is a header, and as headers 8 and 10 are 0 and 2 with another id.
AllShort == {s \in [1..4 -> Alphabet] : s[1] \notin {8, 10}}

Cat(parts) == FlattenSeq(parts)

\* Whole messages for varints of up to three bytes, with a cut possible inside
\* headers, values, counts and words (some longer than they need to be); floats of
\* two bytes; payloads, empty ones included; arrays of each kind; sequences.
Messages ==
  { Cat(<< <<128, 1, 133, 129, 1>>, <<6>>, <<9, 255, 255, 1>>, <<7>> >>),
    Cat(<< <<2, 26>>, <<65, 66, 67>>, <<10, 3>>, <<2, 2>>, <<130, 1, 139, 128, 0>>, <<9>> >>),
    Cat(<< <<2, 8, 77>>, <<130, 129, 0, 145, 0>>, <<1, 2>>, <<0, 1>> >>),
    Cat(<< <<3, 3>>, <<1, 130, 131, 1, 5>>, <<132, 1, 2>>, <<1, 129, 1>>, <<11, 0>> >>),
    Cat(<< <<133, 1, 2, 17>>, <<1, 2, 3, 4>>, <<5, 0, 8>>, <<5, 2, 8>>, <<1, 2>>, <<0, 0>> >>),
    \* The longest prefix that is carried.
    Cat(<< <<133, 129, 0, 129, 128, 0, 145, 128, 0>>, <<1, 2>>, <<6, 14, 7, 7>> >>),
    \* Malformed: a varint too wide in a header, a value, an element, a word; a string
    \* in a float array; too deep; an end too many; too many elements; an id and a
    \* length over the limit; a float of the wrong length; an unknown subtype.
    <<129, 129, 2, 0>>, <<0, 128, 128, 2>>, <<3, 2, 1, 129, 128, 2>>, <<5, 1, 129, 129, 2>>,
    <<5, 1, 10, 65>>, <<6, 6, 6, 6, 7>>, <<6, 7, 7, 0>>, <<3, 4, 0>>, <<5, 4, 8>>,
    <<144, 1, 0>>, <<2, 42, 0>>, <<2, 16, 1>>, <<2, 12, 1>> }

AllInputs == AllShort \cup Messages
=============================================================================
