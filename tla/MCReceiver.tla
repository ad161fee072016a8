----------------------------- MODULE MCReceiver -----------------------------
(***************************************************************************)
(* Instances of Receiver for TLC: a name of up to three bytes, tags of up  *)
(* to two at indices below three, and a container of two slots.            *)
(***************************************************************************)
EXTENDS Receiver

MCNameBound == Schema(3)
MCTagsBound == Schema(3)
MCTagBound == Cap(2)

\* A string field: its header, its word, its bytes.
Text(n, bytes) == <<8 * n + 2, 8 * Len(bytes) + 2>> \o bytes
Array(elements) == <<22>> \o elements \o <<7>>

MCMessages ==
  { \* Both fields, a character cut or whole, a gap filled later, a repeated element.
    Text(1, <<65, 195, 164>>) \o Array(Text(1, <<195, 164>>) \o Text(0, <<66>>)),
    Array(Text(0, <<65, 66>>) \o Text(0, <<67>>)) \o Text(1, <<>>),
    \* Both fields repeated.
    Text(1, <<65, 66>>) \o Array(Text(1, <<65>>)) \o Array(Text(0, <<>>)) \o Text(1, <<67>>),
    \* Fields that are not the message's: another subtype, another place, other types.
    <<11, 1, 9, 10, 11, 65>> \o <<30>> \o Text(1, <<66>>) \o <<7>> \o Text(1, <<195, 164>>),
    <<9, 3, 10, 8, 0>> \o <<22, 22>> \o Text(0, <<65>>) \o <<7>> \o Text(1, <<66, 67>>) \o <<7>>,
    \* Rejected: each bound, with more behind it, another breach too; text cut short, parts
    \* of text swapped; a full container; malformed before and behind a breach.
    Text(1, <<65, 66, 67, 68>>) \o Text(1, <<69>>),
    Array(Text(0, <<65, 66, 67>>) \o Text(1, <<65>>)),
    Array(Text(0, <<65, 66, 67>>) \o Text(3, <<195>>)),
    Array(Text(0, <<65>>) \o Text(3, <<66>>)) \o Text(1, <<67>>),
    Text(1, <<65, 195, 66>>) \o Text(1, <<67>>),
    Array(Text(0, <<164, 195>>)),
    Array(Text(2, <<65>>) \o Text(0, <<66>>)),
    Array(Text(3, <<>>) \o <<7>>) \o <<7, 7>>,
    <<7>> \o Text(1, <<65, 66, 67, 68>>) }
=============================================================================
