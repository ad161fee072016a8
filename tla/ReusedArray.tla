---------------------------- MODULE ReusedArray ----------------------------
(***************************************************************************)
(* A wrapper array that is decoded into the destination of an earlier      *)
(* decode: the reuse_* functions of src/src/seq.rs, step by step, and the  *)
(* protocol their caller keeps.                                            *)
(*                                                                         *)
(* The container still holds the earlier decode's slots.  `live' counts    *)
(* those that belong to this one, so what a reader of the finished array   *)
(* sees is FreshArray.                                                     *)
(***************************************************************************)
EXTENDS WrapperArray
LOCAL INSTANCE SequencesExt

CONSTANTS
  Values, ElemIds, Bounds,  \* what the caller may pass
  Capacities,               \* slots a container can hold; a growable one, any number
  SlotBound, LogBound       \* bounds: values in a slot, calls for one array

ASSUME ArrayAssumption ==
  /\ ElemIds \subseteq Nat /\ Bounds \subseteq Bound /\ Capacities \subseteq Nat
  /\ SlotBound \in Nat /\ LogBound \in Nat

VARIABLES
  slots, live, capacity,  \* the container and the caller's live count
  decoding,               \* between the caller's reset and its truncate
  pc,                     \* "idle", or where a call of reuse_slot is
  call,                   \* its REPLACE, id and the length it found; j, the loop's index
  j,
  before,                 \* history: container and live count when the call came; or <<>>
  handed, result, log     \* as in FreshArray

container == <<slots, live>>
locals == <<pc, call, j, before>>
observed == <<handed, result, log>>
vars == <<container, capacity, decoding, locals, observed>>

NoCall == [replace |-> FALSE, id |-> 0, len |-> 0]

Init ==
  /\ slots = <<>> /\ live = 0 /\ capacity \in Capacities
  /\ decoding = FALSE /\ pc = "idle" /\ call = NoCall /\ j = 0 /\ before = <<>>
  /\ handed = 0 /\ result = "Ok" /\ log = <<>>

(***************************************************************************)
(* The caller's protocol.                                                  *)
(***************************************************************************)
NewArray ==
  /\ pc = "idle"
  /\ live' = 0 /\ handed' = 0 /\ result' = "Ok" /\ log' = <<>> /\ before' = <<>>
  /\ UNCHANGED <<slots, capacity, pc, call, j>>

\* Before the decode, and at each occurrence of the wrapper, the live count is zeroed.
BeginDecode == ~decoding /\ decoding' = TRUE /\ NewArray
BeginWrapper == decoding /\ UNCHANGED decoding /\ NewArray

\* Mutant: only a decode that succeeded is truncated.
TruncatedIfOk == IF result = "Ok" THEN SubSeq(slots, 1, live) ELSE slots

\* truncate(live)
Truncated == SubSeq(slots, 1, live)

\* After the decode, whatever it returned: a slot past live is the earlier message's.
EndDecode ==
  /\ decoding /\ pc = "idle"
  /\ decoding' = FALSE /\ slots' = Truncated
  /\ handed' = 0 /\ result' = "Ok" /\ before' = <<>>
  /\ UNCHANGED <<live, capacity, pc, call, j, log>>

\* The caller fills the slot it was handed.
Write(v) ==
  /\ decoding /\ pc = "idle" /\ handed # 0 /\ Len(log) < LogBound
  /\ Len(slots[handed]) < SlotBound
  /\ slots' = [slots EXCEPT ![handed] = Append(@, v)]
  /\ log' = Append(log, [op |-> "write", id |-> handed - 1, value |-> <<v>>])
  /\ UNCHANGED <<live, capacity, decoding, locals, handed, result>>

(***************************************************************************)
(* reuse_slot.                                                             *)
(***************************************************************************)
Return(r, i) ==
  /\ pc' = "idle" /\ call' = NoCall /\ j' = 0 /\ result' = r /\ handed' = i

HandOver(replace, id) ==
  /\ Return("Ok", id + 1)
  /\ before' = <<>>
  /\ log' = Append(log, [op |-> IF replace THEN "replace" ELSE "merge",
                         id |-> id, value |-> <<>>])

Refuse(r) ==
  /\ Return(r, 0)
  /\ UNCHANGED <<container, log>>

WhenReset(reset, i) == IF reset THEN [slots EXCEPT ![i] = Default] ELSE slots

\* Mutant: a container grows until it is full.
RefusesFull(len) == Len(slots) = capacity

\* Mutant: off by one, a push past the capacity.
RefusesLate(len) == len > capacity + 1

\* A fixed container refuses what it cannot hold before it grows at all.
Refuses(len) == len > capacity

Enter(replace, id) ==
  /\ call' = [replace |-> replace, id |-> id, len |-> Len(slots)]
  /\ pc' = "grow" /\ j' = live
  /\ UNCHANGED <<container, observed>>

\* Mutant: a slot an earlier decode left is handed back as it is.
StaleNever(i) == FALSE

\* The steady state's slot is an earlier decode's.
Stale(i) == i = live

ReuseCall(replace, id, bound) ==
  /\ decoding /\ pc = "idle" /\ Len(log) < LogBound
  /\ UNCHANGED <<capacity, decoding>>
  /\ IF CheckIndex(id, bound) # "Ok"
       THEN Refuse(CheckIndex(id, bound)) /\ before' = container
       ELSE IF id < Len(slots) /\ id <= live
              THEN /\ slots' = WhenReset(Stale(id) \/ replace, id + 1)
                   /\ live' = IF id = live THEN id + 1 ELSE live
                   /\ HandOver(replace, id)
              ELSE Enter(replace, id) /\ before' = container

ReuseElem(id, bound) == ReuseCall(FALSE, id, bound)
ReuseLeaf(id, bound) == ReuseCall(TRUE, id, bound)
ReuseRow(id, bound) == ReuseCall(TRUE, id, bound)

\* grow_to: a push loop, entered when the slots do not reach the id.
Grow ==
  /\ pc = "grow" /\ Len(slots) <= call.id
  /\ UNCHANGED <<capacity, decoding, before>>
  /\ IF Refuses(call.id + 1)
       THEN Refuse("Argument")
       ELSE /\ slots' = Append(slots, Default)
            /\ UNCHANGED <<live, pc, call, j, observed>>

\* Mutant: the first slot of the gap is passed over.
GapFromNext == (j + 1)..((IF call.len < call.id THEN call.len ELSE call.id) - 1)

\* The gap's slots that an earlier decode left, from the j-th on.
Gap == j..((IF call.len < call.id THEN call.len ELSE call.id) - 1)

ResetGap ==
  /\ pc = "grow" /\ Len(slots) > call.id /\ Gap # {}
  /\ slots' = WhenReset(TRUE, j + 1) /\ j' = j + 1
  /\ UNCHANGED <<live, capacity, decoding, pc, call, before, observed>>

Reserved ==
  /\ pc = "grow" /\ Len(slots) > call.id /\ Gap = {}
  /\ slots' = WhenReset(call.id < call.len, call.id + 1)
  /\ live' = call.id + 1
  /\ HandOver(call.replace, call.id)
  /\ UNCHANGED <<capacity, decoding>>

Next ==
  \/ BeginDecode \/ BeginWrapper \/ EndDecode
  \/ \E v \in Values : Write(v)
  \/ \E id \in ElemIds, bound \in Bounds :
       ReuseElem(id, bound) \/ ReuseLeaf(id, bound) \/ ReuseRow(id, bound)
  \/ Grow \/ ResetGap \/ Reserved

Spec == Init /\ [][Next]_vars

-----------------------------------------------------------------------------
(***************************************************************************)
(* Properties.                                                             *)
(***************************************************************************)
\* Type invariant, with reuse_slot's debug_assert: the live count stays within the
\* container, and the container within its capacity.
TypeOK ==
  /\ slots \in Seq(Seq(Values)) /\ capacity \in Capacities
  /\ live \in 0..Len(slots) /\ Len(slots) <= capacity
  /\ decoding \in BOOLEAN /\ pc \in {"idle", "grow"} /\ j \in Nat
  /\ call \in [replace : BOOLEAN, id : Nat, len : Nat]
  /\ handed \in 0..live /\ result \in Verdicts

\* A call that fails, on the bound or because the container is full, leaves the
\* container and the live count as it found them (reuse_elem's Errors).
RefusalChangesNothing == pc = "idle" /\ result # "Ok" => container = before

\* A reused destination decodes to what a fresh one would (seq.rs:118-121): what is below
\* the live count is FreshArray's container through every call, and the whole container
\* once the decode is over.
F == INSTANCE FreshArray WITH slots <- IF decoding THEN SubSeq(slots, 1, live) ELSE slots
DecodesAsFresh == F!Spec
=============================================================================
