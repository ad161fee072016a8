-------------------------- MODULE ReusedArrayProofs --------------------------
(***************************************************************************)
(* What holds of ReusedArray for any ids, bounds, values and capacities:   *)
(* the container's invariants, that a refused call changes nothing, and    *)
(* that the array is decoded as into a fresh destination.                  *)
(*                                                                         *)
(* The argument is what lies behind the live count in the middle of a      *)
(* call: slots that grow_to pushed hold the default, and so do those of    *)
(* the gap the loop has been through; only what is left of the gap and the *)
(* reserved slot may still be an earlier decode's.                         *)
(***************************************************************************)
EXTENDS ReusedArray, TLAPS, SequenceTheorems

Slots == Seq(Seq(Values))

\* Outside a decode, nothing lies behind the live count.
NothingBehind == ~decoding => pc = "idle" /\ live = Len(slots)

\* A call that grows was let through by its bound, and reserves at or behind live.
GrowingCall ==
  pc = "grow" =>
    /\ call.id \in ElemIds /\ live <= call.id /\ Len(log) < LogBound
    /\ \E bound \in Bounds : CheckIndex(call.id, bound) = "Ok"
    /\ live <= call.len /\ call.len <= Len(slots)

\* The slots behind live that hold the default.
ResetSoFar ==
  pc = "grow" =>
    /\ live <= j /\ (j <= live \/ (j <= call.len /\ j <= call.id))
    /\ \A i \in 1..Len(slots) :
         (live < i /\ i <= j) \/ call.len < i => slots[i] = Default

\* Nothing was changed by a call that is, or is to be, refused.
NothingChanged ==
  /\ pc = "grow" /\ call.id + 1 > capacity => container = before
  /\ pc = "idle" /\ result # "Ok" => handed = 0

IInv ==
  /\ TypeOK /\ NothingBehind /\ GrowingCall /\ ResetSoFar /\ NothingChanged
  /\ RefusalChangesNothing

-----------------------------------------------------------------------------
(***************************************************************************)
(* Slots.                                                                  *)
(***************************************************************************)
LEMMA DefaultType == Default \in Seq(Values)
BY DEF Default

LEMMA Numbers ==
  ASSUME TypeOK
  PROVE  /\ slots \in Slots /\ Len(slots) \in Nat /\ capacity \in Nat
         /\ live \in Nat /\ handed \in Nat
<1>1. slots \in Slots /\ live \in 0..Len(slots) /\ handed \in 0..live /\ capacity \in Capacities
  BY DEF TypeOK, Slots
<1>2. Len(slots) \in Nat
  BY <1>1, LenProperties DEF Slots
<1> QED  BY <1>1, <1>2, ArrayAssumption

LEMMA WhenResetType ==
  ASSUME slots \in Slots, NEW reset \in BOOLEAN, NEW i \in 1..Len(slots)
  PROVE  /\ WhenReset(reset, i) \in Slots
         /\ Len(WhenReset(reset, i)) = Len(slots)
         /\ \A k \in 1..Len(slots) :
              WhenReset(reset, i)[k] = IF reset /\ k = i THEN Default ELSE slots[k]
<1>1. CASE reset
  BY <1>1, DefaultType, ExceptSeq DEF WhenReset, Slots
<1>2. CASE ~reset
  BY <1>2 DEF WhenReset
<1> QED  BY <1>1, <1>2

LEMMA AppendDefault ==
  ASSUME slots \in Slots
  PROVE  /\ Append(slots, Default) \in Slots
         /\ Len(Append(slots, Default)) = Len(slots) + 1
         /\ \A k \in 1..(Len(slots) + 1) :
              Append(slots, Default)[k] = IF k <= Len(slots) THEN slots[k] ELSE Default
BY DefaultType DEF Slots

LEMMA FrontType ==
  ASSUME NEW s \in Slots, NEW n \in 0..Len(s)
  PROVE  /\ SubSeq(s, 1, n) \in Slots
         /\ Len(SubSeq(s, 1, n)) = n
         /\ \A k \in 1..n : SubSeq(s, 1, n)[k] = s[k]
<1>1. n \in Int /\ \A k \in 1..n : s[k] \in Seq(Values)
  BY ElementOfSeq DEF Slots
<1> QED  BY <1>1, SubSeqProperties DEF Slots

LEMMA GrownType ==
  ASSUME NEW s \in Slots, NEW n \in Nat
  PROVE  /\ Grown(s, n) \in Slots
         /\ Len(Grown(s, n)) = IF n > Len(s) THEN n ELSE Len(s)
         /\ \A k \in 1..Len(Grown(s, n)) :
              Grown(s, n)[k] = IF k <= Len(s) THEN s[k] ELSE Default
<1> DEFINE m == IF n > Len(s) THEN n ELSE Len(s)
<1>1. m \in Nat /\ Len(s) \in Nat
  BY LenProperties DEF Slots
<1>2. Grown(s, n) = [k \in 1..m |-> IF k <= Len(s) THEN s[k] ELSE Default]
  BY DEF Grown
<1>3. \A k \in 1..m : (IF k <= Len(s) THEN s[k] ELSE Default) \in Seq(Values)
  BY <1>1, DefaultType, ElementOfSeq DEF Slots
<1> HIDE DEF m
<1>4. Grown(s, n) \in [1..m -> Seq(Values)]
  BY <1>2, <1>3
<1>5. Grown(s, n) \in Slots /\ Len(Grown(s, n)) = m
  BY <1>1, <1>4 DEF Slots
<1> QED  BY <1>2, <1>5 DEF m

LEMMA VerdictType ==
  ASSUME NEW id, NEW bound
  PROVE  CheckIndex(id, bound) \in Verdicts
BY DEF CheckIndex, Judge, Verdicts

-----------------------------------------------------------------------------
(***************************************************************************)
(* The invariant is inductive.                                             *)
(***************************************************************************)
LEMMA InitInv == Init => IInv
<1> SUFFICES ASSUME Init PROVE IInv
  OBVIOUS
<1> USE ArrayAssumption DEF Init, NoCall
<1>1. slots \in Slots /\ Len(slots) = 0 /\ capacity \in Nat
  BY EmptySeq DEF Slots
<1>2. TypeOK
  <2>1. call \in [replace : BOOLEAN, id : Nat, len : Nat] /\ decoding \in BOOLEAN
    OBVIOUS
  <2> QED  BY <1>1, <2>1 DEF TypeOK, Verdicts, Slots
<1>3. NothingBehind /\ GrowingCall /\ ResetSoFar /\ NothingChanged /\ RefusalChangesNothing
  BY <1>1 DEF NothingBehind, GrowingCall, ResetSoFar, NothingChanged, RefusalChangesNothing
<1> QED  BY <1>2, <1>3 DEF IInv

LEMMA NewArrayInv ==
  ASSUME IInv, BeginDecode \/ BeginWrapper
  PROVE  IInv'
<1> USE DEF IInv, BeginDecode, BeginWrapper, NewArray
<1>1. TypeOK'
  <2>1. decoding' \in BOOLEAN
    BY DEF TypeOK
  <2> QED  BY <2>1, Numbers DEF TypeOK, Verdicts
<1>2. (NothingBehind /\ GrowingCall /\ ResetSoFar /\ NothingChanged /\ RefusalChangesNothing)'
  BY DEF NothingBehind, GrowingCall, ResetSoFar, NothingChanged, RefusalChangesNothing
<1> QED  BY <1>1, <1>2

LEMMA EndDecodeInv ==
  ASSUME IInv, EndDecode
  PROVE  IInv'
<1> USE DEF IInv, EndDecode
<1>1. slots' \in Slots /\ Len(slots') = live
  BY FrontType, Numbers DEF Truncated, TypeOK, Slots
<1>2. TypeOK'
  <2>1. decoding' \in BOOLEAN
    OBVIOUS
  <2> QED  BY <1>1, <2>1, Numbers DEF TypeOK, Verdicts, Slots
<1>3. (NothingBehind /\ GrowingCall /\ ResetSoFar /\ NothingChanged /\ RefusalChangesNothing)'
  BY <1>1 DEF NothingBehind, GrowingCall, ResetSoFar, NothingChanged, RefusalChangesNothing
<1> QED  BY <1>2, <1>3

LEMMA WriteInv ==
  ASSUME IInv, NEW v \in Values, Write(v)
  PROVE  IInv'
<1> USE DEF IInv, Write
<1>1. slots \in Slots /\ handed \in 1..Len(slots) /\ handed <= live
  BY DEF TypeOK, Slots
<1>2. Append(slots[handed], v) \in Seq(Values)
  BY <1>1, ElementOfSeq DEF Slots
<1>3. slots' \in Slots /\ Len(slots') = Len(slots)
  BY <1>1, <1>2, ExceptSeq DEF Slots
<1>4. TypeOK'
  BY <1>3 DEF TypeOK, locals, Slots
<1>5. NothingBehind' /\ GrowingCall' /\ ResetSoFar'
  BY <1>3 DEF NothingBehind, GrowingCall, ResetSoFar, locals
<1>6. NothingChanged' /\ RefusalChangesNothing'
  BY DEF NothingChanged, RefusalChangesNothing, locals
<1> QED  BY <1>4, <1>5, <1>6

LEMMA RefuseInv ==
  ASSUME IInv, NEW r \in Verdicts \ {"Ok"}, Refuse(r), UNCHANGED <<capacity, decoding>>,
         before' = container
  PROVE  IInv'
<1> USE DEF IInv, Refuse, Return, NoCall, container
<1>1. TypeOK'
  <2>1. decoding' \in BOOLEAN /\ call' \in [replace : BOOLEAN, id : Nat, len : Nat]
    BY DEF TypeOK
  <2> QED  BY <2>1, Numbers DEF TypeOK
<1>2. (NothingBehind /\ GrowingCall /\ ResetSoFar)'
  BY DEF NothingBehind, GrowingCall, ResetSoFar
<1>3. NothingChanged' /\ RefusalChangesNothing'
  BY DEF NothingChanged, RefusalChangesNothing
<1> QED  BY <1>1, <1>2, <1>3

LEMMA HandOverInv ==
  ASSUME IInv, NEW replace \in BOOLEAN, NEW id \in Nat, HandOver(replace, id), decoding,
         slots' \in Slots, Len(slots') = Len(slots), live' \in Nat,
         id < live', live' <= Len(slots), UNCHANGED <<capacity, decoding>>
  PROVE  IInv'
<1> USE DEF IInv, HandOver, Return, NoCall
<1>1. TypeOK'
  <2>1. decoding' \in BOOLEAN /\ call' \in [replace : BOOLEAN, id : Nat, len : Nat]
    BY DEF TypeOK
  <2>2. handed' \in 0..live' /\ result' \in Verdicts
    BY DEF Verdicts
  <2> QED  BY <2>1, <2>2, Numbers DEF TypeOK, Slots
<1>2. (NothingBehind /\ GrowingCall /\ ResetSoFar)'
  BY DEF NothingBehind, GrowingCall, ResetSoFar
<1>3. NothingChanged' /\ RefusalChangesNothing'
  BY DEF NothingChanged, RefusalChangesNothing
<1> QED  BY <1>1, <1>2, <1>3

LEMMA EnterInv ==
  ASSUME IInv, NEW replace \in BOOLEAN, NEW id \in ElemIds, NEW bound \in Bounds, decoding,
         pc = "idle", Len(log) < LogBound, CheckIndex(id, bound) = "Ok",
         ~(id < Len(slots) /\ id <= live),
         Enter(replace, id), before' = container, UNCHANGED <<capacity, decoding>>
  PROVE  IInv'
<1> USE DEF IInv, Enter, container, observed
<1>1. TypeOK'
  <2>1. decoding' \in BOOLEAN /\ id \in Nat
    BY ArrayAssumption DEF TypeOK
  <2>2. call' \in [replace : BOOLEAN, id : Nat, len : Nat]
    BY <2>1, Numbers
  <2> QED  BY <2>1, <2>2, Numbers DEF TypeOK
<1>2. NothingBehind' /\ GrowingCall'
  <2>1. id \in Nat /\ live <= id /\ live <= Len(slots)
    BY Numbers, ArrayAssumption DEF TypeOK
  <2> QED  BY <2>1, Numbers DEF NothingBehind, GrowingCall
<1>3. ResetSoFar'
  BY Numbers DEF ResetSoFar
<1>4. NothingChanged' /\ RefusalChangesNothing'
  BY DEF NothingChanged, RefusalChangesNothing
<1> QED  BY <1>1, <1>2, <1>3, <1>4

LEMMA ReuseCallInv ==
  ASSUME IInv, NEW replace \in BOOLEAN, NEW id \in ElemIds, NEW bound \in Bounds,
         ReuseCall(replace, id, bound)
  PROVE  IInv'
<1> USE DEF ReuseCall
<1>1. CASE CheckIndex(id, bound) # "Ok"
  BY <1>1, RefuseInv, VerdictType
<1>2. CASE CheckIndex(id, bound) = "Ok" /\ id < Len(slots) /\ id <= live
  <2>1. id \in Nat /\ id + 1 \in 1..Len(slots) /\ slots \in Slots /\ live \in 0..Len(slots)
    BY <1>2, Numbers, ArrayAssumption DEF IInv, TypeOK
  <2> DEFINE reset == Stale(id) \/ replace
  <2>2. reset \in BOOLEAN /\ slots' = WhenReset(reset, id + 1)
    BY <1>2
  <2> HIDE DEF reset
  <2>3. slots' \in Slots /\ Len(slots') = Len(slots)
    BY <2>1, <2>2, WhenResetType
  <2>4. live' \in Nat /\ id < live' /\ live' <= Len(slots)
    BY <1>2, <2>1, Numbers DEF IInv
  <2> QED  BY <1>2, <2>1, <2>3, <2>4, HandOverInv
<1>3. CASE CheckIndex(id, bound) = "Ok" /\ ~(id < Len(slots) /\ id <= live)
  BY <1>3, EnterInv
<1> QED  BY <1>1, <1>2, <1>3

LEMMA GrowInv ==
  ASSUME IInv, Grow
  PROVE  IInv'
<1> USE DEF IInv
<1>1. CASE Refuses(call.id + 1)
  \* The slots are full only when nothing has been pushed yet.
  <2>1. pc = "grow" /\ container = before /\ before' = container
    BY <1>1, Numbers DEF Grow, NothingChanged, Refuses, GrowingCall, TypeOK
  <2> QED  BY <1>1, <2>1, RefuseInv DEF Grow, Verdicts
<1>2. CASE ~Refuses(call.id + 1)
  <2> USE <1>2 DEF Grow, observed
  <2>1. call.id \in Nat /\ Len(slots) + 1 <= capacity
    BY Numbers DEF TypeOK, Refuses
  <2>2. slots' \in Slots /\ Len(slots') = Len(slots) + 1
    BY AppendDefault, Numbers
  <2>3. TypeOK'
    <3>1. decoding' \in BOOLEAN /\ call' \in [replace : BOOLEAN, id : Nat, len : Nat]
      BY DEF TypeOK
    <3> QED  BY <2>1, <2>2, <3>1, Numbers DEF TypeOK, Slots
  <2>4. NothingBehind' /\ GrowingCall'
    BY <2>1, <2>2, Numbers DEF NothingBehind, GrowingCall, TypeOK
  <2>5. ResetSoFar'
    <3>1. live <= j /\ (j <= live \/ (j <= call.len /\ j <= call.id))
      BY DEF ResetSoFar
    <3>2. ASSUME NEW i \in 1..(Len(slots) + 1), (live < i /\ i <= j) \/ call.len < i
          PROVE  slots'[i] = Default
      <4>1. slots'[i] = IF i <= Len(slots) THEN slots[i] ELSE Default
        BY AppendDefault, Numbers
      <4>2. CASE i <= Len(slots)
        BY <3>2, <4>1, <4>2, Numbers DEF ResetSoFar
      <4>3. CASE ~(i <= Len(slots))
        BY <4>1, <4>3
      <4> QED  BY <4>2, <4>3
    <3> QED  BY <2>2, <3>1, <3>2 DEF ResetSoFar
  <2>6. NothingChanged' /\ RefusalChangesNothing'
    BY DEF NothingChanged, RefusalChangesNothing, Refuses
  <2> QED  BY <2>3, <2>4, <2>5, <2>6
<1> QED  BY <1>1, <1>2

LEMMA ResetGapInv ==
  ASSUME IInv, ResetGap
  PROVE  IInv'
<1> USE DEF IInv, ResetGap, observed
<1>1. /\ call.id \in Nat /\ call.len \in Nat /\ j \in Nat /\ j < call.id /\ j < call.len
      /\ call.len <= Len(slots) /\ j + 1 \in 1..Len(slots) /\ live <= j
  BY Numbers DEF TypeOK, Gap, GrowingCall, ResetSoFar
<1>2. /\ slots' \in Slots /\ Len(slots') = Len(slots)
      /\ \A k \in 1..Len(slots) : slots'[k] = IF k = j + 1 THEN Default ELSE slots[k]
  BY <1>1, WhenResetType, Numbers
<1>3. TypeOK'
  <2>1. decoding' \in BOOLEAN /\ call' \in [replace : BOOLEAN, id : Nat, len : Nat]
    BY DEF TypeOK
  <2>2. handed' = handed /\ result' = result /\ j' \in Nat
    BY <1>1
  <2> QED  BY <1>2, <2>1, <2>2, Numbers DEF TypeOK, Slots
<1>4. NothingBehind' /\ GrowingCall'
  BY <1>1, <1>2, Numbers DEF NothingBehind, GrowingCall
<1>5. ResetSoFar'
  <2>1. ASSUME NEW i \in 1..Len(slots), (live < i /\ i <= j + 1) \/ call.len < i
        PROVE  slots'[i] = Default
    <3>1. CASE i = j + 1
      BY <1>2, <3>1
    <3>2. CASE i # j + 1
      <4>1. (live < i /\ i <= j) \/ call.len < i
        BY <1>1, <2>1, <3>2, Numbers
      <4> QED  BY <1>2, <3>2, <4>1 DEF ResetSoFar
    <3> QED  BY <3>1, <3>2
  <2>2. live' <= j' /\ j' <= call'.len /\ j' <= call'.id
    BY <1>1, Numbers
  <2>3. \A i \in 1..Len(slots') : (live' < i /\ i <= j') \/ call'.len < i => slots'[i] = Default
    BY <1>2, <2>1
  <2> QED  BY <2>2, <2>3 DEF ResetSoFar
<1>6. NothingChanged' /\ RefusalChangesNothing'
  BY <1>1, Numbers DEF NothingChanged, RefusalChangesNothing, TypeOK
<1> QED  BY <1>3, <1>4, <1>5, <1>6

LEMMA ReservedInv ==
  ASSUME IInv, Reserved
  PROVE  IInv'
<1> USE DEF IInv, Reserved
<1>1. /\ call.id \in Nat /\ call.replace \in BOOLEAN /\ decoding
      /\ call.id + 1 \in 1..Len(slots)
  BY Numbers DEF TypeOK, NothingBehind
<1>2. (call.id < call.len) \in BOOLEAN
  OBVIOUS
<1>3. slots' \in Slots /\ Len(slots') = Len(slots)
  BY <1>1, <1>2, WhenResetType, Numbers
<1>4. live' \in Nat /\ call.id < live' /\ live' <= Len(slots)
  BY <1>1, Numbers
<1> QED  BY <1>1, <1>3, <1>4, HandOverInv

LEMMA NextInv ==
  ASSUME IInv, Next
  PROVE  IInv'
<1>1. ASSUME NEW id \in ElemIds, NEW bound \in Bounds,
             ReuseElem(id, bound) \/ ReuseLeaf(id, bound) \/ ReuseRow(id, bound)
      PROVE  IInv'
  BY <1>1, ReuseCallInv DEF ReuseElem, ReuseLeaf, ReuseRow
<1> QED
  BY <1>1, NewArrayInv, EndDecodeInv, WriteInv, GrowInv, ResetGapInv, ReservedInv DEF Next

LEMMA StutterInv ==
  ASSUME IInv, UNCHANGED vars
  PROVE  IInv'
<1> USE DEF vars, container, locals, observed
<1>1. TypeOK'
  BY DEF IInv, TypeOK
<1>2. (NothingBehind /\ GrowingCall /\ ResetSoFar)'
  BY DEF IInv, NothingBehind, GrowingCall, ResetSoFar
<1>3. NothingChanged' /\ RefusalChangesNothing'
  BY DEF IInv, NothingChanged, RefusalChangesNothing
<1> QED  BY <1>1, <1>2, <1>3 DEF IInv

\* Between any two steps of a call, what lies behind the live count is accounted for.
THEOREM ReusedInvariant == Spec => []IInv
<1>1. IInv /\ [Next]_vars => IInv'
  BY NextInv, StutterInv
<1> QED  BY InitInv, <1>1, PTL DEF Spec

\* The live count never passes the container's length, nor that its capacity, at any
\* step of any call, whatever an earlier decode left behind.
THEOREM ReusedTypeCorrect == Spec => []TypeOK
BY ReusedInvariant, PTL DEF IInv

\* A refused call, on its bound or on a full container, finds and leaves the same slots:
\* it is decided before the first slot is pushed or reset.
THEOREM RefusalsCorrect == Spec => []RefusalChangesNothing
BY ReusedInvariant, PTL DEF IInv

-----------------------------------------------------------------------------
(***************************************************************************)
(* The array is decoded as into a fresh destination.                       *)
(***************************************************************************)
\* What the finished array will hold: the refinement mapping of F.
Seen == IF decoding THEN SubSeq(slots, 1, live) ELSE slots

SeenIsLive ==
  /\ Seen \in Slots /\ Len(Seen) = live
  /\ \A k \in 1..live : Seen[k] = slots[k]

LEMMA SeenType == IInv => SeenIsLive
<1> SUFFICES ASSUME IInv PROVE SeenIsLive
  OBVIOUS
<1> USE DEF SeenIsLive
<1>1. slots \in Slots /\ live \in 0..Len(slots)
  BY Numbers DEF IInv, TypeOK
<1>2. CASE decoding
  BY <1>1, <1>2, FrontType DEF Seen
<1>3. CASE ~decoding
  BY <1>1, <1>3 DEF Seen, IInv, NothingBehind
<1> QED  BY <1>2, <1>3

LEMMA SameOperators ==
  /\ \A id, bound : F!CheckIndex(id, bound) = CheckIndex(id, bound)
  /\ \A s, n : F!Grown(s, n) = Grown(s, n)
BY DEF F!CheckIndex, F!Judge, F!Grown, F!Default, CheckIndex, Judge, Grown, Default

\* A step that keeps the live slots keeps what is seen.
LEMMA SameSeen ==
  ASSUME IInv, IInv', decoding' = decoding, live' = live,
         \A k \in 1..live : slots'[k] = slots[k]
  PROVE  Seen' = Seen
<1>1. Seen \in Slots /\ Len(Seen) = live /\ \A k \in 1..live : Seen[k] = slots[k]
  BY SeenType DEF SeenIsLive
<1>2. Seen' \in Slots /\ Len(Seen') = live' /\ \A k \in 1..live' : Seen'[k] = slots'[k]
  <2>1. SeenIsLive'
    BY SeenType, PTL
  <2> QED  BY <2>1 DEF SeenIsLive
<1> QED  BY <1>1, <1>2, SeqEqual DEF Slots

LEMMA RefuseRefines ==
  ASSUME IInv, NEW id \in ElemIds, NEW bound \in Bounds, Len(log) < LogBound,
         NEW r, Refuse(r), r # "Ok", UNCHANGED <<capacity, decoding>>,
         \/ r = CheckIndex(id, bound)
         \/ /\ r = "Argument" /\ CheckIndex(id, bound) = "Ok"
            /\ live <= id /\ id + 1 > capacity
  PROVE  F!ReserveElem(id, bound)
<1>1. F!Reservation(Seen, capacity, id, bound) = r
  BY SameOperators, SeenType DEF F!Reservation, SeenIsLive
<1>2. Seen' = Seen
  BY DEF Seen, Refuse, container
<1> QED
  BY <1>1, <1>2 DEF F!ReserveElem, F!Reserve, Refuse, Return, Seen

LEMMA HandOverRefines ==
  ASSUME IInv, IInv', decoding, NEW replace \in BOOLEAN, NEW id \in ElemIds, NEW bound \in Bounds,
         CheckIndex(id, bound) = "Ok", Len(log) < LogBound,
         HandOver(replace, id), UNCHANGED <<capacity, decoding>>, id + 1 <= Len(slots),
         live' = IF id < live THEN live ELSE id + 1,
         \A k \in 1..live' :
           slots'[k] = IF k <= live /\ ~(replace /\ k = id + 1) THEN slots[k] ELSE Default
  PROVE  F!ReserveElem(id, bound) \/ F!ReserveRow(id, bound)
<1> DEFINE op == IF replace THEN "replace" ELSE "merge"
           old == Grown(Seen, id + 1)
           e == F!Becomes(op, old[id + 1], <<>>)
           new == [old EXCEPT ![id + 1] = e]
<1>1. id \in Nat /\ live \in Nat /\ live' \in Nat /\ id + 1 \in 1..live'
  BY Numbers, ArrayAssumption DEF IInv
<1>2. Seen \in Slots /\ Len(Seen) = live /\ \A k \in 1..live : Seen[k] = slots[k]
  BY SeenType DEF SeenIsLive
<1>3. Seen' \in Slots /\ Len(Seen') = live' /\ \A k \in 1..live' : Seen'[k] = slots'[k]
  <2>1. SeenIsLive'
    BY SeenType, PTL
  <2> QED  BY <2>1 DEF SeenIsLive
<1>4. /\ old \in Slots /\ Len(old) = live'
      /\ \A k \in 1..live' : old[k] = IF k <= live THEN slots[k] ELSE Default
  BY <1>1, <1>2, GrownType
<1>5. e = IF replace THEN Default ELSE old[id + 1]
  BY DEF F!Becomes, Default
<1> HIDE DEF old, e
<1>6. e \in Seq(Values)
  BY <1>1, <1>4, <1>5, DefaultType, ElementOfSeq DEF Slots
<1>7. /\ new \in Slots /\ Len(new) = live'
      /\ \A k \in 1..live' : new[k] = IF k = id + 1 THEN e ELSE old[k]
  BY <1>1, <1>4, <1>6, ExceptSeq DEF Slots
<1>8. \A k \in 1..live' : Seen'[k] = new[k]
  BY <1>1, <1>3, <1>4, <1>5, <1>7
<1> HIDE DEF new
<1>9. Seen' = new
  BY <1>3, <1>7, <1>8, SeqEqual DEF Slots
<1>10. F!Reservation(Seen, capacity, id, bound) = "Ok"
  BY <1>1, SameOperators, Numbers DEF F!Reservation, IInv, TypeOK
<1>11. F!Reserve(op, id, bound, <<>>)
  BY <1>9, <1>10, SameOperators
     DEF new, e, old, Seen, F!Reserve, F!Entry, HandOver, Return
<1> QED  BY <1>11 DEF F!ReserveElem, F!ReserveRow

LEMMA ReuseCallRefines ==
  ASSUME IInv, IInv', NEW replace \in BOOLEAN, NEW id \in ElemIds, NEW bound \in Bounds,
         ReuseCall(replace, id, bound)
  PROVE  F!ReserveElem(id, bound) \/ F!ReserveRow(id, bound) \/ UNCHANGED F!vars
<1> USE DEF ReuseCall
<1>1. CASE CheckIndex(id, bound) # "Ok"
  BY <1>1, RefuseRefines
<1>2. CASE CheckIndex(id, bound) = "Ok" /\ id < Len(slots) /\ id <= live
  <2> DEFINE reset == Stale(id) \/ replace
  <2>1. id \in Nat /\ id + 1 \in 1..Len(slots) /\ slots \in Slots /\ live \in 0..Len(slots)
    BY <1>2, Numbers, ArrayAssumption DEF IInv, TypeOK
  <2>2. reset \in BOOLEAN /\ slots' = WhenReset(reset, id + 1)
    BY <1>2
  <2> HIDE DEF reset
  <2>3. \A k \in 1..Len(slots) : slots'[k] = IF reset /\ k = id + 1 THEN Default ELSE slots[k]
    BY <2>1, <2>2, WhenResetType
  <2>4. live' = IF id < live THEN live ELSE id + 1
    BY <1>2, <2>1
  <2>5. \A k \in 1..live' :
          slots'[k] = IF k <= live /\ ~(replace /\ k = id + 1) THEN slots[k] ELSE Default
    BY <1>2, <2>1, <2>3, <2>4 DEF reset, Stale
  <2> QED  BY <1>2, <2>1, <2>4, <2>5, HandOverRefines
<1>3. CASE CheckIndex(id, bound) = "Ok" /\ ~(id < Len(slots) /\ id <= live)
  BY <1>3 DEF Enter, F!vars, container, observed
<1> QED  BY <1>1, <1>2, <1>3

LEMMA GrowRefines ==
  ASSUME IInv, IInv', Grow
  PROVE  \/ \E id \in ElemIds, bound \in Bounds : F!ReserveElem(id, bound)
         \/ UNCHANGED F!vars
<1>1. /\ call.id \in ElemIds /\ live <= call.id /\ Len(log) < LogBound
      /\ \E bound \in Bounds : CheckIndex(call.id, bound) = "Ok"
  BY DEF IInv, GrowingCall, Grow
<1>2. CASE Refuses(call.id + 1)
  <2>1. PICK bound \in Bounds : CheckIndex(call.id, bound) = "Ok"
    BY <1>1
  <2>2. Refuse("Argument") /\ call.id + 1 > capacity
    BY <1>2 DEF Grow, Refuses
  <2>3. F!ReserveElem(call.id, bound)
    BY <1>1, <2>1, <2>2, RefuseRefines DEF Grow
  <2> QED  BY <1>1, <2>3
<1>3. CASE ~Refuses(call.id + 1)
  <2>1. decoding' = decoding /\ live' = live /\ UNCHANGED <<capacity, handed, result, log>>
    BY <1>3 DEF Grow, observed
  <2>2. /\ slots \in Slots /\ Len(slots) \in Nat /\ live \in Nat /\ live <= Len(slots)
        /\ slots' = Append(slots, Default)
    BY <1>3, Numbers DEF Grow, IInv, TypeOK
  <2>3. \A k \in 1..live : slots'[k] = slots[k]
    BY <2>2, AppendDefault
  <2>4. Seen' = Seen
    BY <2>1, <2>3, SameSeen
  <2> QED  BY <2>1, <2>4 DEF F!vars, Seen
<1> QED  BY <1>2, <1>3

LEMMA ResetGapRefines ==
  ASSUME IInv, IInv', ResetGap
  PROVE  UNCHANGED F!vars
<1>1. /\ j \in Nat /\ live \in Nat /\ live <= j /\ j + 1 \in 1..Len(slots) /\ live <= Len(slots)
      /\ slots \in Slots
  BY Numbers DEF IInv, TypeOK, ResetGap, Gap, GrowingCall, ResetSoFar
<1>2. decoding' = decoding /\ live' = live /\ UNCHANGED <<capacity, handed, result, log>>
  BY DEF ResetGap, observed
<1>3. \A k \in 1..Len(slots) : slots'[k] = IF k = j + 1 THEN Default ELSE slots[k]
  BY <1>1, WhenResetType DEF ResetGap
<1>4. \A k \in 1..live : slots'[k] = slots[k]
  BY <1>1, <1>3
<1>5. Seen' = Seen
  BY <1>2, <1>4, SameSeen
<1> QED  BY <1>2, <1>5 DEF F!vars, Seen

LEMMA ReservedRefines ==
  ASSUME IInv, IInv', Reserved
  PROVE  \E id \in ElemIds, bound \in Bounds : F!ReserveElem(id, bound) \/ F!ReserveRow(id, bound)
<1> DEFINE reset == call.id < call.len
<1>1. /\ call.id \in ElemIds /\ live <= call.id /\ Len(log) < LogBound /\ decoding
      /\ \E bound \in Bounds : CheckIndex(call.id, bound) = "Ok"
  BY DEF IInv, GrowingCall, NothingBehind, Reserved
<1>2. /\ call.id \in Nat /\ call.len \in Nat /\ call.replace \in BOOLEAN /\ live \in Nat /\ j \in Nat
      /\ slots \in Slots /\ Len(slots) \in Nat /\ call.id + 1 \in 1..Len(slots)
  BY Numbers DEF IInv, TypeOK, Reserved
<1>3. reset \in BOOLEAN /\ slots' = WhenReset(reset, call.id + 1)
  BY DEF Reserved
<1>4. \A k \in 1..Len(slots) : slots'[k] = IF reset /\ k = call.id + 1 THEN Default ELSE slots[k]
  <2> HIDE DEF reset
  <2> QED  BY <1>2, <1>3, WhenResetType
<1>5. live' = call.id + 1 /\ live' = IF call.id < live THEN live ELSE call.id + 1
  BY <1>1, <1>2 DEF Reserved
\* Nothing an earlier decode left is seen: the loop is through the gap.
<1>6. \A k \in 1..live' :
        slots'[k] = IF k <= live /\ ~(call.replace /\ k = call.id + 1) THEN slots[k] ELSE Default
  <2> SUFFICES ASSUME NEW k \in 1..(call.id + 1)
               PROVE  slots'[k] = IF k <= live THEN slots[k] ELSE Default
    BY <1>1, <1>2, <1>5
  <2>1. CASE k <= live
    BY <1>1, <1>2, <1>4, <2>1
  <2>2. CASE k = call.id + 1
    <3>1. CASE reset
      BY <1>1, <1>2, <1>4, <2>2, <3>1
    <3>2. CASE ~reset
      BY <1>1, <1>2, <1>4, <2>2, <3>2 DEF IInv, ResetSoFar, Reserved
    <3> QED  BY <3>1, <3>2
  <2>3. CASE live < k /\ k <= call.id
    <3>1. k <= j \/ call.len < k
      <4>1. j \notin Gap
        BY DEF Reserved
      <4> QED  BY <1>2, <2>3, <4>1 DEF Gap
    <3> QED  BY <1>2, <1>4, <2>3, <3>1 DEF IInv, ResetSoFar, Reserved
  <2> QED  BY <1>2, <2>1, <2>2, <2>3
<1>7. PICK bound \in Bounds : CheckIndex(call.id, bound) = "Ok"
  BY <1>1
<1>8. F!ReserveElem(call.id, bound) \/ F!ReserveRow(call.id, bound)
  BY <1>1, <1>2, <1>5, <1>6, <1>7, HandOverRefines DEF Reserved
<1> QED  BY <1>1, <1>8

LEMMA ProtocolRefines ==
  ASSUME IInv, IInv'
  PROVE  /\ BeginDecode \/ BeginWrapper => F!Begin
         /\ EndDecode => F!End
<1>1. slots \in Slots /\ live \in 0..Len(slots)
  BY Numbers DEF IInv, TypeOK
<1>2. ASSUME BeginDecode \/ BeginWrapper PROVE F!Begin
  <2>1. decoding' /\ slots' = slots /\ live' = 0
    BY <1>2 DEF BeginDecode, BeginWrapper, NewArray
  <2>2. Seen' = <<>>
    BY <1>1, <2>1, FrontType, EmptySeq DEF Seen, Slots
  <2> QED  BY <1>2, <2>2 DEF F!Begin, Seen, BeginDecode, BeginWrapper, NewArray
<1>3. ASSUME EndDecode PROVE F!End
  BY <1>3 DEF F!End, EndDecode, Truncated
<1> QED  BY <1>2, <1>3

LEMMA WriteRefines ==
  ASSUME IInv, IInv', NEW v \in Values, Write(v)
  PROVE  F!Write(v)
<1>1. /\ slots \in Slots /\ live \in Nat /\ handed \in 1..live /\ handed \in 1..Len(slots)
      /\ decoding
  BY Numbers DEF IInv, TypeOK, Write
<1>2. Seen \in Slots /\ Len(Seen) = live /\ \A k \in 1..live : Seen[k] = slots[k]
  BY SeenType DEF SeenIsLive
<1>3. Seen' \in Slots /\ Len(Seen') = live' /\ \A k \in 1..live' : Seen'[k] = slots'[k]
  <2>1. SeenIsLive'
    BY SeenType, PTL
  <2> QED  BY <2>1 DEF SeenIsLive
<1> DEFINE e == Append(slots[handed], v)
           new == [Seen EXCEPT ![handed] = e]
<1>4. e \in Seq(Values)
  BY <1>1, ElementOfSeq DEF Slots
<1>5. slots' = [slots EXCEPT ![handed] = e] /\ live' = live
  BY DEF Write
<1>6. new = [Seen EXCEPT ![handed] = Append(@, v)]
  BY <1>1, <1>2
<1> HIDE DEF e
<1>7. /\ new \in Slots /\ Len(new) = live
      /\ \A k \in 1..live : new[k] = IF k = handed THEN e ELSE Seen[k]
  BY <1>1, <1>2, <1>4, ExceptSeq DEF Slots
<1>8. \A k \in 1..live : slots'[k] = IF k = handed THEN e ELSE slots[k]
  BY <1>1, <1>4, <1>5, ExceptSeq DEF Slots, IInv, TypeOK
<1> HIDE DEF new
<1>9. Seen' = new
  <2>1. \A k \in 1..live : Seen'[k] = new[k]
    BY <1>2, <1>3, <1>5, <1>7, <1>8
  <2>2. Len(Seen') = live /\ Len(new) = live
    BY <1>3, <1>5, <1>7
  <2> QED  BY <1>3, <1>7, <2>1, <2>2, SeqEqual DEF Slots
<1> QED
  BY <1>1, <1>2, <1>6, <1>9 DEF F!Write, F!Entry, Write, Seen

LEMMA InitRefines == Init => F!Init
<1> SUFFICES ASSUME Init PROVE F!Init
  OBVIOUS
<1> QED  BY DEF Init, F!Init

LEMMA NextRefines ==
  ASSUME IInv, IInv', [Next]_vars
  PROVE  [F!Next]_(F!vars)
<1>1. CASE BeginDecode \/ BeginWrapper \/ EndDecode
  BY <1>1, ProtocolRefines DEF F!Next
<1>2. ASSUME NEW v \in Values, Write(v) PROVE F!Next
  BY <1>2, WriteRefines DEF F!Next
<1>3. ASSUME NEW id \in ElemIds, NEW bound \in Bounds,
             ReuseElem(id, bound) \/ ReuseLeaf(id, bound) \/ ReuseRow(id, bound)
      PROVE  F!Next \/ UNCHANGED F!vars
  <2>1. F!ReserveElem(id, bound) \/ F!ReserveRow(id, bound) \/ UNCHANGED F!vars
    BY <1>3, ReuseCallRefines DEF ReuseElem, ReuseLeaf, ReuseRow
  <2> QED  BY <2>1 DEF F!Next
<1>4. CASE Grow
  BY <1>4, GrowRefines DEF F!Next
<1>5. CASE ResetGap
  BY <1>5, ResetGapRefines
<1>6. CASE Reserved
  BY <1>6, ReservedRefines DEF F!Next
<1>7. CASE UNCHANGED vars
  BY <1>7 DEF vars, container, locals, observed, F!vars
<1> QED  BY <1>1, <1>2, <1>3, <1>4, <1>5, <1>6, <1>7 DEF Next

\* A message decoded into the destination of an earlier one, whatever that left in it,
\* decodes to what a fresh destination would hold (seq.rs:118-121): every step of
\* ReusedArray is one of FreshArray on the live slots, or none.
THEOREM ReusedIsFresh == Spec => DecodesAsFresh
<1>1. IInv /\ IInv' /\ [Next]_vars => [F!Next]_(F!vars)
  BY NextRefines
<1> QED  BY InitRefines, ReusedInvariant, <1>1, PTL DEF Spec, DecodesAsFresh, F!Spec
=============================================================================
