-------------------------- MODULE FreshArrayProofs --------------------------
(***************************************************************************)
(* What holds of FreshArray for any ids, bounds, values and capacities:    *)
(* the array is what arrived, element by element.                          *)
(*                                                                         *)
(* The array is a summary of the log that each call updates; the property  *)
(* speaks of the whole log.  So the argument is what one more entry does   *)
(* to what arrived for an id: nothing to another id's, which has one more  *)
(* piece without values, and to its own either a piece more at the end or, *)
(* when it replaces, no piece but its own.                                 *)
(***************************************************************************)
EXTENDS FreshArray, SequenceTheorems, TLAPS
LOCAL INSTANCE SequencesExt
LOCAL INSTANCE FiniteSetsExt
LOCAL Order == INSTANCE WellFoundedInduction

Slots == Seq(Seq(Values))
Entries == [op : {"merge", "replace", "write"}, id : Nat, value : Seq(Values)]

\* One more than the ids that were accepted, and 0.
Reaches == {0} \cup {log[k].id + 1 : k \in DOMAIN log}

\* The length is the furthest that was reached.
LengthIsReach == Len(slots) \in Reaches /\ \A n \in Reaches : n <= Len(slots)

\* Every slot is what arrived for its id.
SlotsAreArrived == \A i \in DOMAIN slots : slots[i] = Arrived(i - 1)

\* The inductive invariant: the property, step by step, and the type of the log.
IInv == TypeOK /\ log \in Seq(Entries) /\ LengthIsReach /\ SlotsAreArrived

-----------------------------------------------------------------------------
(***************************************************************************)
(* Induction, and pieces in a row.                                         *)
(***************************************************************************)
\* The order of the numbers.
Below == {pair \in Nat \X Nat : pair[1] < pair[2]}

\* A set of numbers that holds 0 and the successor of each of its elements holds all.
LEMMA Induction ==
  ASSUME NEW S \in SUBSET Nat, 0 \in S, \A n \in S : n + 1 \in S
  PROVE  S = Nat
<1> SUFFICES ASSUME Nat \ S # {} PROVE FALSE
  OBVIOUS
<1>1. Order!IsWellFoundedOn(Below, Nat)
  BY Order!NatLessThanWellFounded DEF Order!OpToRel, Below
<1>2. PICK m \in Nat \ S : \A n \in Nat \ S : <<n, m>> \notin Below
  BY <1>1, Order!WFMin
<1>3. m # 0 /\ m - 1 \in Nat
  BY <1>2
<1> DEFINE pair == <<m - 1, m>>
<1>4. pair \in Nat \X Nat /\ pair[1] < pair[2]
  BY <1>3
<1>5. pair \in Below
  <2> HIDE DEF pair
  <2> QED  BY <1>4 DEF Below
<1>6. m - 1 \in S
  BY <1>2, <1>3, <1>5
<1>7. m - 1 + 1 = m
  BY <1>3
<1> QED  BY <1>2, <1>6, <1>7

\* f joins up the first pieces of s, one more at a time, up to m of them, or all.
Joins(f, s, m) == \A i \in 1..m : f[i] = IF i = 1 THEN s[i] ELSE f[i - 1] \o s[i]
IsJoin(f, s) == f = [i \in 1..Len(s) |-> IF i = 1 THEN s[i] ELSE f[i - 1] \o s[i]]

\* Each join is the one before it and its own piece.
LEMMA JoinStep ==
  ASSUME NEW f, NEW s, NEW m \in Nat, Joins(f, s, m), NEW i \in Nat, i + 1 <= m
  PROVE  f[i + 1] = IF i = 0 THEN s[1] ELSE f[i] \o s[i + 1]
<1>1. i + 1 \in 1..m /\ i + 1 - 1 = i /\ ((i + 1 = 1) <=> (i = 0))
  OBVIOUS
<1>2. f[i + 1] = IF i + 1 = 1 THEN s[i + 1] ELSE f[i + 1 - 1] \o s[i + 1]
  BY <1>1 DEF Joins
<1> QED  BY <1>1, <1>2

\* What joins up all pieces joins up the first ones.
LEMMA JoinJoins ==
  ASSUME NEW f, NEW s, IsJoin(f, s)
  PROVE  Joins(f, s, Len(s))
BY DEF IsJoin, Joins

\* The joins exist.
LEMMA JoinExists ==
  ASSUME NEW s \in Slots
  PROVE  \E f \in [1..Len(s) -> Seq(Values)] : IsJoin(f, s)
<1> DEFINE S == {m \in Nat : m <= Len(s) => \E f \in [1..m -> Seq(Values)] : Joins(f, s, m)}
<1>1. Len(s) \in Nat /\ \A i \in 1..Len(s) : s[i] \in Seq(Values)
  BY LenProperties, ElementOfSeq DEF Slots
<1>2. 0 \in S
  <2> DEFINE f == [i \in 1..0 |-> <<>>]
  <2>1. f \in [1..0 -> Seq(Values)] /\ Joins(f, s, 0)
    BY DEF Joins
  <2> QED  BY <2>1
<1>3. ASSUME NEW m \in S PROVE m + 1 \in S
  <2> SUFFICES ASSUME m + 1 <= Len(s)
               PROVE  \E f \in [1..(m + 1) -> Seq(Values)] : Joins(f, s, m + 1)
    OBVIOUS
  <2>1. PICK f \in [1..m -> Seq(Values)] : Joins(f, s, m)
    BY <1>1
  <2> DEFINE next == IF m = 0 THEN s[1] ELSE f[m] \o s[m + 1]
             g == [i \in 1..(m + 1) |-> IF i = m + 1 THEN next ELSE f[i]]
  <2>2. m \in Nat /\ s[m + 1] \in Seq(Values)
    BY <1>1
  <2>3. next \in Seq(Values)
    <3>1. CASE m = 0
      BY <2>2, <3>1
    <3>2. CASE m # 0
      <4>1. f[m] \in Seq(Values)
        BY <2>2, <3>2
      <4> QED  BY <2>2, <3>2, <4>1, ConcatProperties
    <3> QED  BY <3>1, <3>2
  <2>4. g \in [1..(m + 1) -> Seq(Values)]
    <3> HIDE DEF next
    <3> QED  BY <2>2, <2>3
  <2>5. Joins(g, s, m + 1)
    <3> SUFFICES ASSUME NEW i \in 1..(m + 1)
                 PROVE  g[i] = IF i = 1 THEN s[i] ELSE g[i - 1] \o s[i]
      BY DEF Joins
    <3> HIDE DEF next
    <3>1. CASE i = m + 1
      <4>1. g[i] = next /\ (i = 1 <=> m = 0) /\ i - 1 = m
        BY <2>2, <3>1
      <4>2. m # 0 => g[m] = f[m]
        BY <2>2
      <4> QED  BY <3>1, <4>1, <4>2 DEF next
    <3>2. CASE i \in 1..m
      <4>1. g[i] = f[i] /\ (i # 1 => g[i - 1] = f[i - 1])
        BY <2>2, <3>2
      <4>2. f[i] = IF i = 1 THEN s[i] ELSE f[i - 1] \o s[i]
        BY <2>1, <3>2 DEF Joins
      <4> QED  BY <4>1, <4>2
    <3> QED  BY <2>2, <3>1, <3>2
  <2> QED  BY <2>4, <2>5
<1> HIDE DEF S
<1>4. S = Nat
  BY <1>2, <1>3, Induction DEF S
<1>5. PICK f \in [1..Len(s) -> Seq(Values)] : Joins(f, s, Len(s))
  BY <1>1, <1>4 DEF S
<1>6. IsJoin(f, s)
  BY <1>5 DEF IsJoin, Joins
<1> QED  BY <1>5, <1>6

\* Joins of sequences with the same first pieces agree on them.
LEMMA JoinUnique ==
  ASSUME NEW s \in Slots, NEW t \in Slots, NEW f, NEW g, IsJoin(f, s), IsJoin(g, t),
         Len(s) <= Len(t), \A i \in 1..Len(s) : t[i] = s[i]
  PROVE  \A i \in 1..Len(s) : f[i] = g[i]
<1> DEFINE S == {i \in Nat : i \in 1..Len(s) => f[i] = g[i]}
<1>1. Len(s) \in Nat /\ Len(t) \in Nat
  BY LenProperties DEF Slots
<1>2. 0 \in S
  BY <1>1
<1>3. ASSUME NEW i \in S PROVE i + 1 \in S
  <2> SUFFICES ASSUME i + 1 \in 1..Len(s) PROVE f[i + 1] = g[i + 1]
    OBVIOUS
  <2>1. Joins(f, s, Len(s)) /\ Joins(g, t, Len(t))
    BY JoinJoins
  <2>2. /\ f[i + 1] = IF i = 0 THEN s[1] ELSE f[i] \o s[i + 1]
        /\ g[i + 1] = IF i = 0 THEN t[1] ELSE g[i] \o t[i + 1]
    BY <1>1, <2>1, JoinStep
  <2>3. t[i + 1] = s[i + 1] /\ (i # 0 => f[i] = g[i])
    BY <1>1
  <2> QED  BY <2>2, <2>3
<1> HIDE DEF S
<1>4. S = Nat
  BY <1>2, <1>3, Induction DEF S
<1> QED  BY <1>1, <1>4 DEF S

\* The recursion of FlattenSeq is well founded.
LEMMA FlattenIsJoin ==
  ASSUME NEW s \in Slots, Len(s) # 0
  PROVE  \E f \in [1..Len(s) -> Seq(Values)] : IsJoin(f, s) /\ FlattenSeq(s) = f[Len(s)]
<1> DEFINE f == CHOOSE f : IsJoin(f, s)
<1>1. FlattenSeq(s) = f[Len(s)]
  BY DEF FlattenSeq, IsJoin
<1>2. PICK g \in [1..Len(s) -> Seq(Values)] : IsJoin(g, s)
  BY JoinExists
<1>3. IsJoin(f, s)
  BY <1>2
<1> HIDE DEF f
<1>4. Len(s) \in Nat /\ Len(s) <= Len(s)
  BY LenProperties DEF Slots
<1>5. \A i \in 1..Len(s) : f[i] = g[i]
  BY <1>2, <1>3, <1>4, JoinUnique
<1>6. f \in [1..Len(s) -> Seq(Values)]
  BY <1>2, <1>3, <1>5 DEF IsJoin
<1> QED  BY <1>1, <1>3, <1>6

\* Nothing in a row is nothing.
LEMMA FlattenNone ==
  ASSUME NEW s \in Slots, Len(s) = 0
  PROVE  FlattenSeq(s) = <<>>
<1>1. s = <<>>
  BY EmptySeq DEF Slots
<1> QED  BY <1>1 DEF FlattenSeq

\* The joins of pieces of values hold values.
LEMMA FlattenType ==
  ASSUME NEW s \in Slots
  PROVE  FlattenSeq(s) \in Seq(Values)
<1>1. Len(s) \in Nat
  BY LenProperties DEF Slots
<1>2. CASE Len(s) = 0
  BY <1>2, FlattenNone, EmptySeq
<1>3. CASE Len(s) # 0
  BY <1>1, <1>3, FlattenIsJoin
<1> QED  BY <1>2, <1>3

\* One piece more is joined to those before it.
LEMMA FlattenAppend ==
  ASSUME NEW s \in Slots, NEW t \in Seq(Values)
  PROVE  FlattenSeq(Append(s, t)) = FlattenSeq(s) \o t
<1> DEFINE n == Len(s)
           u == Append(s, t)
<1>1. /\ n \in Nat /\ u \in Slots /\ Len(u) = n + 1 /\ u[n + 1] = t
      /\ \A i \in 1..n : u[i] = s[i]
  BY LenProperties, AppendProperties DEF Slots
<1> HIDE DEF u
<1>2. PICK g \in [1..Len(u) -> Seq(Values)] : IsJoin(g, u) /\ FlattenSeq(u) = g[Len(u)]
  BY <1>1, FlattenIsJoin
<1>3. g[n + 1] = IF n = 0 THEN u[1] ELSE g[n] \o u[n + 1]
  BY <1>1, <1>2, JoinJoins, JoinStep
<1>4. CASE n = 0
  <2>1. FlattenSeq(s) = <<>> /\ <<>> \o t = t
    BY <1>4, FlattenNone, ConcatEmptySeq
  <2> QED  BY <1>1, <1>2, <1>3, <1>4, <2>1 DEF u
<1>5. CASE n # 0
  <2>1. PICK f \in [1..n -> Seq(Values)] : IsJoin(f, s) /\ FlattenSeq(s) = f[n]
    BY <1>5, FlattenIsJoin
  <2>2. \A i \in 1..n : f[i] = g[i]
    <3>1. n <= Len(u)
      BY <1>1
    <3> QED  BY <1>1, <1>2, <2>1, <3>1, JoinUnique
  <2>3. f[n] = g[n]
    BY <1>1, <1>5, <2>2
  <2>4. g[n + 1] = g[n] \o t
    BY <1>1, <1>3, <1>5
  <2> QED  BY <1>1, <1>2, <2>1, <2>3, <2>4 DEF u
<1> QED  BY <1>4, <1>5

\* Pieces without values are nothing.
LEMMA FlattenEmpty ==
  ASSUME NEW s \in Slots, \A i \in 1..Len(s) : s[i] = <<>>
  PROVE  FlattenSeq(s) = <<>>
<1>1. Len(s) \in Nat
  BY LenProperties DEF Slots
<1>2. CASE Len(s) = 0
  BY <1>2, FlattenNone
<1>3. CASE Len(s) # 0
  <2>1. PICK f \in [1..Len(s) -> Seq(Values)] : IsJoin(f, s) /\ FlattenSeq(s) = f[Len(s)]
    BY <1>3, FlattenIsJoin
  <2> DEFINE S == {i \in Nat : i \in 1..Len(s) => f[i] = <<>>}
  <2>2. 0 \in S
    BY <1>1
  <2>3. <<>> \o <<>> = <<>>
    BY EmptySeq, ConcatEmptySeq
  <2>4. ASSUME NEW i \in S PROVE i + 1 \in S
    <3> SUFFICES ASSUME i + 1 \in 1..Len(s) PROVE f[i + 1] = <<>>
      OBVIOUS
    <3>1. Joins(f, s, Len(s))
      BY <2>1, JoinJoins
    <3>2. i \in Nat /\ i + 1 <= Len(s)
      BY <1>1
    <3>3. f[i + 1] = IF i = 0 THEN s[1] ELSE f[i] \o s[i + 1]
      BY <1>1, <3>1, <3>2, JoinStep
    <3>4. s[i + 1] = <<>> /\ (i # 0 => f[i] = <<>>) /\ (i = 0 => s[1] = <<>>)
      BY <1>1
    <3> QED  BY <2>3, <3>3, <3>4
  <2> HIDE DEF S
  <2>5. S = Nat
    BY <2>2, <2>4, Induction DEF S
  <2> QED  BY <1>1, <1>3, <2>1, <2>5 DEF S
<1> QED  BY <1>2, <1>3

-----------------------------------------------------------------------------
(***************************************************************************)
(* What one more entry does to what arrived.                               *)
(***************************************************************************)
\* In a log, the pieces of an id: what replaces it, and what no replacement follows.
Replaces(entries, id, k) == entries[k].id = id /\ entries[k].op = "replace"
Kept(entries, id, k) ==
  entries[k].id = id /\ ~\E l \in (k + 1)..Len(entries) : Replaces(entries, id, l)
PiecesOf(entries, id) ==
  [k \in DOMAIN entries |-> IF Kept(entries, id, k) THEN entries[k].value ELSE <<>>]

ArrivedIsPieces == \A id : Arrived(id) = FlattenSeq(PiecesOf(log, id))

\* What arrived for an id (seq.rs:50-71), as a function of the log alone.
LEMMA ArrivedIs == ArrivedIsPieces
BY DEF ArrivedIsPieces, Arrived, PiecesOf, Kept, Replaces

\* The pieces of an id are as many as the entries, and hold values.
LEMMA PiecesType ==
  ASSUME NEW entries \in Seq(Entries), NEW id
  PROVE  /\ PiecesOf(entries, id) \in Slots /\ Len(PiecesOf(entries, id)) = Len(entries)
         /\ \A k \in 1..Len(entries) :
              PiecesOf(entries, id)[k] = IF Kept(entries, id, k) THEN entries[k].value ELSE <<>>
<1> DEFINE p == PiecesOf(entries, id)
<1>1. /\ Len(entries) \in Nat /\ DOMAIN entries = 1..Len(entries)
      /\ \A k \in 1..Len(entries) : entries[k] \in Entries
  BY LenProperties, ElementOfSeq
<1>2. \A k \in 1..Len(entries) : entries[k].value \in Seq(Values)
  BY <1>1 DEF Entries
<1>3. p = [k \in 1..Len(entries) |-> IF Kept(entries, id, k) THEN entries[k].value ELSE <<>>]
  BY <1>1 DEF PiecesOf
<1>4. p \in [1..Len(entries) -> Seq(Values)]
  BY <1>2, <1>3, EmptySeq
<1>5. p \in Slots /\ Len(p) = Len(entries)
  <2> HIDE DEF p
  <2> QED  BY <1>1, <1>4 DEF Slots
<1> QED  BY <1>3, <1>5

\* An id without an entry.
LEMMA NoneArrived ==
  ASSUME log \in Seq(Entries), NEW id, \A k \in 1..Len(log) : log[k].id # id
  PROVE  Arrived(id) = <<>>
<1>1. /\ PiecesOf(log, id) \in Slots
      /\ \A k \in 1..Len(PiecesOf(log, id)) : PiecesOf(log, id)[k] = <<>>
  BY PiecesType DEF Kept
<1> QED  BY <1>1, ArrivedIs, FlattenEmpty DEF ArrivedIsPieces

\* What a sequence with one piece more looks like.
LEMMA AppendIs ==
  ASSUME NEW s \in Slots, NEW t \in Seq(Values), NEW u \in Slots, Len(u) = Len(s) + 1,
         u[Len(s) + 1] = t, \A k \in 1..Len(s) : u[k] = s[k]
  PROVE  u = Append(s, t)
<1> DEFINE a == Append(s, t)
<1>1. /\ a \in Slots /\ Len(a) = Len(s) + 1 /\ a[Len(s) + 1] = t /\ Len(s) \in Nat
      /\ \A k \in 1..Len(s) : a[k] = s[k]
  BY LenProperties, AppendProperties DEF Slots
<1> HIDE DEF a
<1>2. \A k \in 1..Len(u) : u[k] = a[k]
  BY <1>1
<1>3. u = a
  BY <1>1, <1>2, SeqEqual DEF Slots
<1> QED  BY <1>3 DEF a

\* One more entry: of another id, of a write or a merge, or of a replacement.
LEMMA ArrivedGrows ==
  ASSUME log \in Seq(Entries), NEW e \in Entries, log' = Append(log, e), NEW id
  PROVE  /\ Arrived(id) \in Seq(Values)
         /\ Arrived(id)' = IF e.id # id THEN Arrived(id)
                           ELSE IF e.op = "replace" THEN e.value
                           ELSE Arrived(id) \o e.value
<1> DEFINE n == Len(log)
           p == PiecesOf(log, id)
           new == Append(log, e)
           q == PiecesOf(new, id)
           empty == [k \in 1..n |-> <<>>]
<1>1. /\ n \in Nat /\ new \in Seq(Entries) /\ Len(new) = n + 1 /\ new[n + 1] = e
      /\ \A k \in 1..n : new[k] = log[k]
  BY LenProperties, AppendProperties
<1>2. /\ p \in Slots /\ Len(p) = n
      /\ \A k \in 1..n : p[k] = IF Kept(log, id, k) THEN log[k].value ELSE <<>>
  BY PiecesType
<1>3. /\ q \in Slots /\ Len(q) = n + 1
      /\ \A k \in 1..(n + 1) : q[k] = IF Kept(new, id, k) THEN new[k].value ELSE <<>>
  <2> HIDE DEF new
  <2> QED  BY <1>1, PiecesType
<1>4. Arrived(id) = FlattenSeq(p) /\ Arrived(id)' = FlattenSeq(q)
  <2>1. ArrivedIsPieces /\ ArrivedIsPieces'
    BY ArrivedIs, PTL
  <2> QED  BY <2>1 DEF ArrivedIsPieces
<1>5. FlattenSeq(p) \in Seq(Values)
  BY <1>2, FlattenType
<1>6. e.value \in Seq(Values)
  BY DEF Entries
<1> HIDE DEF new
\* An earlier piece stays unless the new entry replaces it; the last one is the entry's.
<1>7. \A k \in 1..n : Kept(new, id, k) <=> Kept(log, id, k) /\ ~(e.id = id /\ e.op = "replace")
  <2> TAKE k \in 1..n
  <2>1. \A l \in (k + 1)..n : Replaces(new, id, l) <=> Replaces(log, id, l)
    BY <1>1 DEF Replaces
  <2>2. Replaces(new, id, n + 1) <=> (e.id = id /\ e.op = "replace")
    BY <1>1 DEF Replaces
  <2>3. (\E l \in (k + 1)..(n + 1) : Replaces(new, id, l))
          <=> (\E l \in (k + 1)..n : Replaces(log, id, l)) \/ (e.id = id /\ e.op = "replace")
    <3>1. \A l \in (k + 1)..(n + 1) : l = n + 1 \/ l \in (k + 1)..n
      BY <1>1
    <3>2. n + 1 \in (k + 1)..(n + 1) /\ \A l \in (k + 1)..n : l \in (k + 1)..(n + 1)
      BY <1>1
    <3> QED  BY <2>1, <2>2, <3>1, <3>2
  <2> QED  BY <1>1, <2>3 DEF Kept
<1>8. Kept(new, id, n + 1) <=> e.id = id
  BY <1>1 DEF Kept
<1>9. q[n + 1] = IF e.id = id THEN e.value ELSE <<>>
  BY <1>1, <1>3, <1>8
<1> HIDE DEF p, q, new
<1>10. CASE e.id = id /\ e.op = "replace"
  <2>1. empty \in Slots /\ Len(empty) = n /\ \A k \in 1..n : empty[k] = <<>>
    BY <1>1, EmptySeq DEF Slots
  <2>2. q = Append(empty, e.value)
    <3> HIDE DEF empty
    <3>1. \A k \in 1..n : q[k] = <<>>
      BY <1>1, <1>3, <1>7, <1>10
    <3> QED  BY <1>1, <1>3, <1>6, <1>9, <1>10, <2>1, <3>1, AppendIs
  <2>3. FlattenSeq(q) = <<>> \o e.value
    <3> HIDE DEF empty
    <3> QED  BY <1>6, <2>1, <2>2, FlattenAppend, FlattenEmpty
  <2> QED  BY <1>4, <1>5, <1>6, <1>10, <2>3, ConcatEmptySeq
<1>11. CASE ~(e.id = id /\ e.op = "replace")
  <2> DEFINE t == IF e.id = id THEN e.value ELSE <<>>
  <2>1. t \in Seq(Values)
    BY <1>6, EmptySeq
  <2>2. q = Append(p, t)
    <3>1. \A k \in 1..n : q[k] = p[k]
      BY <1>1, <1>2, <1>3, <1>7, <1>11
    <3>2. q[n + 1] = t
      BY <1>9
    <3> HIDE DEF t
    <3> QED  BY <1>1, <1>2, <1>3, <2>1, <3>1, <3>2, AppendIs
  <2>3. FlattenSeq(q) = FlattenSeq(p) \o t
    <3> HIDE DEF t
    <3> QED  BY <1>2, <2>1, <2>2, FlattenAppend
  <2>4. FlattenSeq(p) \o <<>> = FlattenSeq(p)
    BY <1>5, ConcatEmptySeq
  <2> QED  BY <1>4, <1>5, <1>11, <2>3, <2>4
<1> QED  BY <1>10, <1>11

-----------------------------------------------------------------------------
(***************************************************************************)
(* The invariant is inductive.                                             *)
(***************************************************************************)
\* What the arithmetic needs of the state, and that the container reaches every accepted id.
LEMMA Numbers ==
  ASSUME IInv
  PROVE  /\ slots \in Slots /\ Len(slots) \in Nat /\ capacity \in Capacities /\ capacity \in Nat
         /\ handed \in 0..Len(slots) /\ log \in Seq(Entries) /\ Len(log) \in Nat
         /\ \A k \in 1..Len(log) : log[k] \in Entries /\ log[k].id + 1 <= Len(slots)
<1>1. slots \in Slots /\ log \in Seq(Entries) /\ capacity \in Nat /\ handed \in 0..Len(slots)
      /\ capacity \in Capacities
  BY ArrayAssumption DEF IInv, TypeOK, Slots
<1>2. Len(slots) \in Nat /\ Len(log) \in Nat /\ \A k \in 1..Len(log) : log[k] \in Entries
  BY <1>1, LenProperties, ElementOfSeq DEF Slots
<1>3. ASSUME NEW k \in 1..Len(log) PROVE log[k].id + 1 <= Len(slots)
  <2>1. k \in DOMAIN log
    BY <1>1, LenProperties
  <2>2. log[k].id + 1 \in Reaches
    BY <2>1 DEF Reaches
  <2> QED  BY <2>2 DEF IInv, LengthIsReach
<1> QED  BY <1>1, <1>2, <1>3

\* One more entry, whose id the container reaches.
LEMMA LengthGrows ==
  ASSUME IInv, NEW e \in Entries, log' = Append(log, e), Len(slots') \in Nat,
         Len(slots') = IF e.id + 1 > Len(slots) THEN e.id + 1 ELSE Len(slots)
  PROVE  LengthIsReach'
<1> DEFINE n == Len(log)
<1>1. /\ n \in Nat /\ DOMAIN log = 1..n /\ DOMAIN log' = 1..(n + 1) /\ log'[n + 1] = e
      /\ \A k \in 1..n : log'[k] = log[k]
  BY Numbers, AppendProperties
<1>2. e.id \in Nat /\ Len(slots) \in Nat
  BY Numbers DEF Entries
<1>3. Reaches' = Reaches \cup {e.id + 1}
  <2>1. \A k \in 1..(n + 1) : k \in 1..n \/ k = n + 1
    BY <1>1
  <2>2. n + 1 \in 1..(n + 1) /\ \A k \in 1..n : k \in 1..(n + 1)
    BY <1>1
  <2>3. {log'[k].id + 1 : k \in 1..(n + 1)} = {log[k].id + 1 : k \in 1..n} \cup {e.id + 1}
    BY <1>1, <2>1, <2>2
  <2> QED  BY <1>1, <2>3 DEF Reaches
<1>4. /\ Len(slots) \in Reaches /\ \A m \in Reaches : m <= Len(slots)
  BY DEF IInv, LengthIsReach
<1>5. \A m \in Reaches : m \in Nat
  BY <1>1, Numbers DEF Reaches, Entries
<1> HIDE DEF n
<1> QED  BY <1>2, <1>3, <1>4, <1>5 DEF LengthIsReach

\* A container that grew holds defaults behind its old slots.
LEMMA GrownType ==
  ASSUME NEW s \in Slots, NEW n \in Nat
  PROVE  /\ Grown(s, n) \in Slots
         /\ Len(Grown(s, n)) = IF n > Len(s) THEN n ELSE Len(s)
         /\ \A k \in 1..Len(Grown(s, n)) :
              Grown(s, n)[k] = IF k <= Len(s) THEN s[k] ELSE <<>>
<1> DEFINE m == IF n > Len(s) THEN n ELSE Len(s)
<1>1. m \in Nat /\ Len(s) \in Nat
  BY LenProperties DEF Slots
<1>2. Grown(s, n) = [k \in 1..m |-> IF k <= Len(s) THEN s[k] ELSE <<>>]
  BY DEF Grown, Default
<1>3. \A k \in 1..m : (IF k <= Len(s) THEN s[k] ELSE <<>>) \in Seq(Values)
  BY <1>1, EmptySeq, ElementOfSeq DEF Slots
<1> HIDE DEF m
<1>4. Grown(s, n) \in [1..m -> Seq(Values)]
  BY <1>2, <1>3
<1>5. Grown(s, n) \in Slots /\ Len(Grown(s, n)) = m
  BY <1>1, <1>4 DEF Slots
<1> QED  BY <1>2, <1>5 DEF m

\* The old slots, and the defaults of the gap, are what arrived for their ids.
LEMMA GrownArrived ==
  ASSUME IInv, NEW n \in Nat
  PROVE  \A i \in 1..Len(Grown(slots, n)) : Grown(slots, n)[i] = Arrived(i - 1)
<1> TAKE i \in 1..Len(Grown(slots, n))
<1>1. /\ i \in Nat \ {0} /\ Grown(slots, n)[i] = IF i <= Len(slots) THEN slots[i] ELSE <<>>
  BY Numbers, GrownType
<1>2. CASE i <= Len(slots)
  <2>1. i \in DOMAIN slots
    BY <1>1, <1>2, Numbers
  <2> QED  BY <1>1, <1>2, <2>1 DEF IInv, SlotsAreArrived
<1>3. CASE ~(i <= Len(slots))
  <2>1. \A k \in 1..Len(log) : log[k].id # i - 1
    BY <1>1, <1>3, Numbers DEF Entries
  <2>2. Arrived(i - 1) = <<>>
    BY <2>1, Numbers, NoneArrived
  <2> QED  BY <1>1, <1>3, <2>2
<1> QED  BY <1>2, <1>3

\* The slot of one id takes one more entry; the others keep what they hold.
LEMMA SlotsGrow ==
  ASSUME IInv, NEW e \in Entries, log' = Append(log, e), NEW old \in Slots,
         e.id + 1 \in 1..Len(old), \A i \in 1..Len(old) : old[i] = Arrived(i - 1),
         NEW x \in Seq(Values), slots' = [old EXCEPT ![e.id + 1] = x],
         x = IF e.op = "replace" THEN e.value ELSE old[e.id + 1] \o e.value
  PROVE  slots' \in Slots /\ Len(slots') = Len(old) /\ SlotsAreArrived'
<1>1. /\ slots' \in Slots /\ Len(slots') = Len(old)
      /\ \A i \in 1..Len(old) : slots'[i] = IF i = e.id + 1 THEN x ELSE old[i]
  BY ExceptSeq DEF Slots
<1>2. ASSUME NEW i \in 1..Len(old)
      PROVE  slots'[i] = Arrived(i - 1)'
  <2> DEFINE id == i - 1
  <2>1. Arrived(id)' = IF e.id # id THEN Arrived(id)
                       ELSE IF e.op = "replace" THEN e.value ELSE Arrived(id) \o e.value
    BY Numbers, ArrivedGrows
  <2>2. e.id \in Nat /\ i \in Nat /\ (e.id = id <=> i = e.id + 1)
    BY DEF Entries
  <2>3. old[i] = Arrived(id)
    OBVIOUS
  <2> QED  BY <1>1, <2>1, <2>2, <2>3
<1>3. DOMAIN slots' = 1..Len(old)
  BY <1>1 DEF Slots
<1> QED  BY <1>1, <1>2, <1>3 DEF SlotsAreArrived

\* An empty destination is what arrived before anything has.
LEMMA InitInv == Init => IInv
<1> SUFFICES ASSUME Init PROVE IInv
  OBVIOUS
<1> USE ArrayAssumption DEF Init
<1>1. slots \in Slots /\ Len(slots) = 0 /\ log \in Seq(Entries) /\ Len(log) = 0
  BY EmptySeq DEF Slots
<1>2. TypeOK
  BY <1>1 DEF TypeOK, Verdicts, Slots
<1>3. LengthIsReach /\ SlotsAreArrived
  BY <1>1 DEF LengthIsReach, Reaches, SlotsAreArrived
<1> QED  BY <1>1, <1>2, <1>3 DEF IInv

\* A new message, or a repeated wrapper, starts over.
LEMMA BeginInv == IInv /\ Begin => IInv'
<1> SUFFICES ASSUME IInv, Begin PROVE IInv'
  OBVIOUS
<1> USE DEF Begin
<1>1. slots' \in Slots /\ Len(slots') = 0 /\ log' \in Seq(Entries) /\ Len(log') = 0
  BY EmptySeq DEF Slots
<1>2. TypeOK'
  BY <1>1, Numbers DEF TypeOK, Verdicts, Slots
<1>3. LengthIsReach' /\ SlotsAreArrived'
  BY <1>1 DEF LengthIsReach, Reaches, SlotsAreArrived
<1> QED  BY <1>1, <1>2, <1>3 DEF IInv

\* A step that leaves the slots and the log alone.
LEMMA KeptInv ==
  ASSUME IInv, UNCHANGED <<slots, capacity, log>>, handed' \in 0..Len(slots), result' \in Verdicts
  PROVE  IInv'
<1>1. TypeOK' /\ log' \in Seq(Entries)
  BY DEF IInv, TypeOK
<1>2. LengthIsReach'
  BY DEF IInv, LengthIsReach, Reaches
<1>3. SlotsAreArrived'
  <2>1. \A id : Arrived(id)' = Arrived(id)
    <3>1. ArrivedIsPieces /\ ArrivedIsPieces'
      BY ArrivedIs, PTL
    <3> QED  BY <3>1 DEF ArrivedIsPieces
  <2> QED  BY <2>1 DEF IInv, SlotsAreArrived
<1> QED  BY <1>1, <1>2, <1>3 DEF IInv

\* A reservation (reserve_*, place_elem): refused, it changes nothing; accepted, the container
\* grows to the id and the slot takes the entry.
LEMMA ReserveInv ==
  ASSUME IInv, NEW op \in {"merge", "replace"}, NEW id \in ElemIds, NEW bound \in Bounds,
         NEW values \in Seq(Values), op = "merge" => values = <<>>, Reserve(op, id, bound, values)
  PROVE  IInv'
<1> DEFINE old == Grown(slots, id + 1)
           e == Entry(op, id, values)
           x == Becomes(op, old[id + 1], values)
<1>1. result' = Reservation(slots, capacity, id, bound) /\ capacity' = capacity
  BY DEF Reserve
<1>2. result' \in Verdicts
  BY <1>1 DEF Reservation, CheckIndex, Judge, Verdicts
<1>3. id \in Nat
  BY ArrayAssumption
<1>4. CASE result' # "Ok"
  <2>1. handed' = 0 /\ UNCHANGED <<slots, log>>
    BY <1>4 DEF Reserve
  <2> QED  BY <1>1, <1>2, <2>1, KeptInv, Numbers
<1>5. CASE result' = "Ok"
  <2>1. /\ slots' = [old EXCEPT ![id + 1] = x] /\ handed' = id + 1
        /\ log' = Append(log, e)
    BY <1>5 DEF Reserve
  <2>2. /\ old \in Slots /\ Len(old) = IF id + 1 > Len(slots) THEN id + 1 ELSE Len(slots)
        /\ \A i \in 1..Len(old) : old[i] = Arrived(i - 1)
    BY <1>3, Numbers, GrownType, GrownArrived
  <2>3. e \in Entries /\ e.op = op /\ e.id = id /\ e.value = values
    BY <1>3 DEF Entry, Entries
  <2> HIDE DEF old, e
  <2>4. id + 1 \in 1..Len(old) /\ Len(old) \in Nat
    BY <1>3, <2>2, Numbers
  <2>5. old[id + 1] \in Seq(Values)
    BY <2>2, <2>4, ElementOfSeq DEF Slots
  <2>6. x \in Seq(Values) /\ x = IF op = "replace" THEN values ELSE old[id + 1] \o values
    <3>1. old[id + 1] \o <<>> = old[id + 1]
      BY <2>5, ConcatEmptySeq
    <3> QED  BY <2>5, <3>1 DEF Becomes
  <2> HIDE DEF x
  <2>7. slots' \in Slots /\ Len(slots') = Len(old) /\ SlotsAreArrived'
    BY <2>1, <2>2, <2>3, <2>4, <2>6, SlotsGrow
  <2>8. LengthIsReach'
    BY <2>1, <2>2, <2>3, <2>4, <2>7, LengthGrows
  <2>9. Len(old) <= capacity
    <3>1. ~(Len(slots) <= id /\ id + 1 > capacity)
      BY <1>1, <1>5 DEF Reservation
    <3>2. Len(slots) <= capacity
      BY DEF IInv, TypeOK
    <3> QED  BY <1>3, <2>2, <3>1, <3>2, Numbers
  <2>10. TypeOK'
    BY <1>1, <1>2, <2>1, <2>4, <2>7, <2>9, Numbers DEF TypeOK, Slots
  <2>11. log' \in Seq(Entries)
    BY <2>1, <2>3, Numbers, AppendProperties
  <2> QED  BY <2>7, <2>8, <2>10, <2>11 DEF IInv
<1> QED  BY <1>4, <1>5

\* The caller writes into the slot it was handed: one more value at the end of its id's.
LEMMA WriteInv ==
  ASSUME IInv, NEW v \in Values, Write(v)
  PROVE  IInv'
<1> DEFINE e == Entry("write", handed - 1, <<v>>)
           x == Append(slots[handed], v)
<1>1. /\ slots' = [slots EXCEPT ![handed] = x] /\ log' = Append(log, e)
      /\ UNCHANGED <<capacity, handed, result>> /\ handed # 0
  BY DEF Write
<1>2. handed \in 1..Len(slots) /\ handed \in Nat /\ slots \in Slots /\ Len(slots) \in Nat
  BY <1>1, Numbers
<1>3. /\ e \in Entries /\ e.op = "write" /\ e.id = handed - 1 /\ e.value = <<v>>
      /\ e.id + 1 = handed
  BY <1>2 DEF Entry, Entries
<1>4. slots[handed] \in Seq(Values)
  BY <1>2, ElementOfSeq DEF Slots
<1>5. x \in Seq(Values) /\ x = slots[handed] \o <<v>>
  BY <1>4, AppendIsConcat
<1>6. \A i \in 1..Len(slots) : slots[i] = Arrived(i - 1)
  BY <1>2 DEF IInv, SlotsAreArrived, Slots
<1> HIDE DEF e, x
<1>7. slots' \in Slots /\ Len(slots') = Len(slots) /\ SlotsAreArrived'
  BY <1>1, <1>2, <1>3, <1>5, <1>6, SlotsGrow
<1>8. LengthIsReach'
  BY <1>1, <1>2, <1>3, <1>7, LengthGrows
<1>9. TypeOK'
  BY <1>1, <1>2, <1>7 DEF IInv, TypeOK, Slots
<1>10. log' \in Seq(Entries)
  BY <1>1, <1>3, Numbers, AppendProperties
<1> QED  BY <1>7, <1>8, <1>9, <1>10 DEF IInv

\* Every step keeps the invariant.
LEMMA NextInv == IInv /\ [Next]_vars => IInv'
<1> SUFFICES ASSUME IInv, [Next]_vars PROVE IInv'
  OBVIOUS
<1>1. CASE Begin
  BY <1>1, BeginInv
<1>2. CASE End
  BY <1>2, KeptInv, Numbers DEF End, Verdicts
<1>3. ASSUME NEW id \in ElemIds, NEW bound \in Bounds,
             ReserveElem(id, bound) \/ ReserveRow(id, bound)
      PROVE  IInv'
  BY <1>3, EmptySeq, ReserveInv DEF ReserveElem, ReserveRow
<1>4. ASSUME NEW id \in ElemIds, NEW bound \in Bounds, NEW v \in Values,
             PlaceElem(id, bound, v)
      PROVE  IInv'
  <2>1. <<v>> \in Seq(Values)
    OBVIOUS
  <2> QED  BY <1>4, <2>1, ReserveInv DEF PlaceElem
<1>5. ASSUME NEW v \in Values, Write(v) PROVE IInv'
  BY <1>5, WriteInv
<1>6. CASE UNCHANGED vars
  BY <1>6, KeptInv DEF vars, IInv, TypeOK
<1> QED  BY <1>1, <1>2, <1>3, <1>4, <1>5, <1>6 DEF Next

\* So it holds at every step.
LEMMA Invariant == Spec => []IInv
BY InitInv, NextInv, PTL DEF Spec

\* A container's slots are in its capacity, and the slot handed back is one of them.
THEOREM FreshTypeCorrect == Spec => []TypeOK
<1>1. IInv => TypeOK
  BY DEF IInv
<1> QED  BY <1>1, Invariant, PTL

\* The array is what arrived (seq.rs:50-71): its length is the furthest accepted id, each
\* element holds what was written for its id since it was last replaced, and a gap the
\* default; no element of another id and no refused call shows in it.
THEOREM FreshIsWhatArrived == Spec => []ArrayIsWhatArrived
<1>1. IInv => ArrayIsWhatArrived
  <2> SUFFICES ASSUME IInv PROVE ArrayIsWhatArrived
    OBVIOUS
  <2>1. Len(slots) = Max(Reaches)
    <3>1. /\ Len(slots) \in Reaches /\ \A n \in Reaches : n <= Len(slots)
      BY DEF IInv, LengthIsReach
    <3>2. \A n \in Reaches : n \in Nat
      <4>1. DOMAIN log = 1..Len(log)
        BY Numbers, LenProperties
      <4>2. \A k \in DOMAIN log : log[k].id \in Nat
        BY <4>1, Numbers DEF Entries
      <4> QED  BY <4>2 DEF Reaches
    <3>3. \A m \in Reaches : (\A n \in Reaches : m >= n) => m = Len(slots)
      BY <3>1, <3>2
    <3> QED  BY <3>1, <3>2, <3>3 DEF Max
  <2> QED  BY <2>1 DEF IInv, SlotsAreArrived, ArrayIsWhatArrived, Reaches
<1> QED  BY <1>1, Invariant, PTL
=============================================================================
