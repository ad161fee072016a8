--------------------------- MODULE PayloadSource ---------------------------
(***************************************************************************)
(* A payload accumulator and its source, which is whoever owns it.  A      *)
(* payload is offered from its start in any pieces, may be given up for    *)
(* another at any time, and may be offered longer than it was announced;   *)
(* chunks of some other payload may come in between, and the owner may     *)
(* reset the accumulator in the middle.                                    *)
(***************************************************************************)
EXTENDS PayloadAcc
LOCAL INSTANCE SequencesExt

CONSTANTS
  Bytes,
  Payloads,       \* what sources deliver
  Extras,         \* what a source may append to a payload's last chunk, or send behind it
  Strays,         \* chunks of other payloads, not their first
  ArrivedBound    \* bound: no further chunk once more bytes were offered or have arrived

ASSUME SourceAssumption ==
  /\ Payloads \subseteq Seq(Bytes)
  /\ Extras \subseteq Seq(Bytes)
  /\ Strays \subseteq [total : Nat, offset : Nat \ {0}, chunk : Seq(Bytes)]
  /\ ArrivedBound \in Nat

VARIABLES
  \* The payload being delivered, how much of it was offered, and whether nothing but
  \* its chunks came since its first one.
  payload, at, alone,
  \* History since the last start of a payload or reset: what arrived, what was handed back.
  arrived, given

sourceVars == <<payload, at, alone, arrived, given>>
vars == <<accVars, sourceVars>>

Init ==
  /\ AccInit
  /\ payload = <<>> /\ at = 0 /\ alone = FALSE /\ arrived = <<>> /\ given = <<>>

\* The first n bytes of p, with more behind them when that is all of p.
Piece(p, from, n, extra) == SubSeq(p, from + 1, n) \o (IF n = Len(p) THEN extra ELSE <<>>)

Start(p, n, extra) ==
  LET chunk == Piece(p, 0, n, extra)
  IN  /\ Feed(Len(p), 0, chunk)
      /\ payload' = p /\ at' = Len(chunk) /\ alone' = TRUE
      /\ arrived' = chunk /\ given' = returned'

\* The next bytes of the payload, up to the n-th, or bytes behind its end.
Continue(n, extra) ==
  LET chunk == IF at < Len(payload) THEN Piece(payload, at, n, extra) ELSE extra
  IN  /\ at > 0 /\ at <= ArrivedBound /\ Len(arrived) <= ArrivedBound
      /\ Feed(Len(payload), at, chunk)
      /\ at' = at + Len(chunk)
      /\ arrived' = arrived \o chunk /\ given' = given \o returned'
      /\ UNCHANGED <<payload, alone>>

Stray(s) ==
  /\ Len(arrived) <= ArrivedBound
  /\ Feed(s.total, s.offset, s.chunk)
  /\ alone' = FALSE
  /\ arrived' = arrived \o s.chunk /\ given' = given \o returned'
  /\ UNCHANGED <<payload, at>>

ResetCall ==
  /\ Reset
  /\ alone' = FALSE /\ arrived' = <<>> /\ given' = <<>>
  /\ UNCHANGED <<payload, at>>

Next ==
  \/ \E p \in Payloads, extra \in Extras : \E n \in 0..Len(p) : Start(p, n, extra)
  \/ \E extra \in Extras : \E n \in at..Len(payload) \cup {Len(payload)} : Continue(n, extra)
  \/ \E s \in Strays : Stray(s)
  \/ ResetCall

Spec == Init /\ [][Next]_vars

-----------------------------------------------------------------------------
(***************************************************************************)
(* Properties.                                                             *)
(***************************************************************************)
\* Type invariant; what is held never exceeds what arrived, whatever was announced.
TypeOK ==
  /\ Len(buf) <= Len(arrived)
  /\ buf \in Seq(Bytes) /\ complete \in BOOLEAN /\ alone \in BOOLEAN
  /\ payload \in Seq(Bytes) /\ at \in Nat /\ arrived \in Seq(Bytes)
  /\ returned \in Seq(Seq(Bytes)) /\ given \in Seq(Seq(Bytes))

\* A payload whose chunks come without others in between is handed back whole, once,
\* with the chunk that completes it, however it was cut and whatever was abandoned,
\* over-delivered or sent behind it (feed's contract).
PayloadHandedBack ==
  alone => given = IF at >= Len(payload) THEN <<payload>> ELSE <<>>

\* Whatever is fed, in any order: between two starts (or resets) at most one value is
\* handed back, and it is the first bytes that arrived since, none older.
NothingStale ==
  Len(given) <= 1 /\ \A i \in DOMAIN given : IsPrefix(given[i], arrived)

\* What payload.rs:159-163 says of buffered(): non-zero exactly while a split payload
\* is incomplete.
BufferedWhileSplit ==
  alone => (buf # <<>> <=> at \in 1..(Len(payload) - 1))
=============================================================================
