---------------------------- MODULE WrapperArray ----------------------------
(***************************************************************************)
(* What the functions of src/src/seq.rs share: an element id, or an        *)
(* announced length, compared with the one bound that governs it, the      *)
(* schema's or the receiver's, and a container that grows to an id.        *)
(***************************************************************************)
EXTENDS Integers, Sequences

\* Bound: a breach of the schema is a malformed message, one of a cap is policy, and
\* a cap of 0 states none.
Schema(n) == [kind |-> "schema", n |-> n]
Cap(n) == [kind |-> "cap", n |-> n]
Bound == [kind : {"schema", "cap"}, n : Nat]

Judge(bound, breached) ==
  CASE bound.kind = "schema" /\ breached -> "InvalidMsg"
    [] bound.kind = "cap" /\ bound.n = 0 -> "Argument"
    [] bound.kind = "cap" /\ bound.n # 0 /\ breached -> "LimitExceeded"
    [] OTHER -> "Ok"

\* An index must be below the bound, a length may reach it.
CheckIndex(id, bound) == Judge(bound, id >= bound.n)
CheckLen(len, bound) == Judge(bound, len > bound.n)

Verdicts == {"Ok", "InvalidMsg", "LimitExceeded", "Argument"}

\* The element default: a slot is a sequence of the values written into it.
Default == <<>>

\* grow_to: fresh defaults up to len slots, where there are fewer.
Grown(slots, len) ==
  [i \in 1..(IF len > Len(slots) THEN len ELSE Len(slots)) |->
     IF i <= Len(slots) THEN slots[i] ELSE Default]

\* Mutant: nothing is ever full.
ReservationUnbounded(slots, capacity, id, bound) == CheckIndex(id, bound)

\* What a reservation answers: the index is judged first, then a container may be full.
Reservation(slots, capacity, id, bound) ==
  IF CheckIndex(id, bound) # "Ok" THEN CheckIndex(id, bound)
  ELSE IF Len(slots) <= id /\ id + 1 > capacity THEN "Argument"
  ELSE "Ok"
=============================================================================
