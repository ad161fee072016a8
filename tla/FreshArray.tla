----------------------------- MODULE FreshArray -----------------------------
(***************************************************************************)
(* A wrapper array that is decoded into a destination that starts empty:   *)
(* the reserve_* functions and place_elem of src/src/seq.rs.  The wrapper  *)
(* carries no length; each element comes with its id.  A call reserves the *)
(* slot of an id and hands it back, and the caller writes into it.         *)
(*                                                                         *)
(* A slot holds what was written into it: a sequence of values, empty for  *)
(* the element default (a string's chunks, a struct's fields, a row).      *)
(***************************************************************************)
EXTENDS WrapperArray
LOCAL INSTANCE SequencesExt
LOCAL INSTANCE FiniteSetsExt

CONSTANTS
  Values, ElemIds, Bounds,  \* what the caller may pass
  Capacities,               \* slots a container can hold; a growable one, any number
  SlotBound, LogBound       \* bounds: values in a slot, calls for one array

ASSUME ArrayAssumption ==
  /\ ElemIds \subseteq Nat /\ Bounds \subseteq Bound /\ Capacities \subseteq Nat
  /\ SlotBound \in Nat /\ LogBound \in Nat

VARIABLES
  slots,          \* the container
  capacity,       \* the slots it can hold
  handed,         \* the slot the last reservation handed back, from 1; or 0
  result,         \* what the last call returned
  log             \* history: what was reserved and written since the array began

vars == <<slots, capacity, handed, result, log>>

Entry(op, id, value) == [op |-> op, id |-> id, value |-> value]

Init ==
  /\ slots = <<>> /\ capacity \in Capacities
  /\ handed = 0 /\ result = "Ok" /\ log = <<>>

\* A new message has a new destination; a repeated array replaces the earlier one.
Begin ==
  /\ slots' = <<>> /\ handed' = 0 /\ result' = "Ok" /\ log' = <<>>
  /\ UNCHANGED capacity

\* The message is over, whatever its verdict; the array stays.
End ==
  /\ handed' = 0 /\ result' = "Ok"
  /\ UNCHANGED <<slots, capacity, log>>

\* Mutant: a repeated element is appended to the earlier one.
BecomesBoth(op, old, values) == old \o values

\* What becomes of a slot that is reserved: a struct is merged into, a leaf or a row replaced.
Becomes(op, old, values) == IF op = "merge" THEN old ELSE values

\* Reserve the slot of an id.
Reserve(op, id, bound, values) ==
  LET i == id + 1
      old == Grown(slots, i)
  IN  /\ Len(log) < LogBound
      /\ result' = Reservation(slots, capacity, id, bound)
      /\ IF result' = "Ok"
           THEN /\ slots' = [old EXCEPT ![i] = Becomes(op, @, values)]
                /\ handed' = i
                /\ log' = Append(log, Entry(op, id, values))
           ELSE handed' = 0 /\ UNCHANGED <<slots, log>>
      /\ UNCHANGED capacity

ReserveElem(id, bound) == Reserve("merge", id, bound, <<>>)
ReserveRow(id, bound) == Reserve("replace", id, bound, <<>>)
PlaceElem(id, bound, v) == Reserve("replace", id, bound, <<v>>)

\* The caller writes into the slot it was handed.
Write(v) ==
  /\ handed # 0 /\ Len(log) < LogBound
  /\ Len(slots[handed]) < SlotBound
  /\ slots' = [slots EXCEPT ![handed] = Append(@, v)]
  /\ log' = Append(log, Entry("write", handed - 1, <<v>>))
  /\ UNCHANGED <<capacity, handed, result>>

Next ==
  \/ Begin \/ End
  \/ \E id \in ElemIds, bound \in Bounds :
       \/ ReserveElem(id, bound)
       \/ ReserveRow(id, bound)
       \/ \E v \in Values : PlaceElem(id, bound, v)
  \/ \E v \in Values : Write(v)

Spec == Init /\ [][Next]_vars

-----------------------------------------------------------------------------
(***************************************************************************)
(* Properties.                                                             *)
(***************************************************************************)
\* Type invariant; the container is never over its capacity.
TypeOK ==
  /\ slots \in Seq(Seq(Values)) /\ capacity \in Capacities /\ Len(slots) <= capacity
  /\ handed \in 0..Len(slots) /\ result \in Verdicts

\* What was written for an id since it was last replaced.
Arrived(id) ==
  LET replacedAfter(k) ==
        \E l \in (k + 1)..Len(log) : log[l].id = id /\ log[l].op = "replace"
  IN  FlattenSeq([k \in DOMAIN log |->
                    IF log[k].id = id /\ ~replacedAfter(k) THEN log[k].value ELSE <<>>])

\* The index rules of seq.rs:50-71: the length is the highest accepted id + 1, each
\* element is at the index its id names, gaps hold the default, a repeated leaf or row
\* replaces and a re-opened element merges, and a refused id leaves no trace.
ArrayIsWhatArrived ==
  /\ Len(slots) = Max({0} \cup {log[k].id + 1 : k \in DOMAIN log})
  /\ \A i \in DOMAIN slots : slots[i] = Arrived(i - 1)
=============================================================================
