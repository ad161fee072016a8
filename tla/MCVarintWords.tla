--------------------------- MODULE MCVarintWords ---------------------------
(***************************************************************************)
(* Instances of VarintWords for TLC.                                       *)
(***************************************************************************)
EXTENDS VarintWords

\* Every value with one or two one-bits, or one run of them, and their complements.
Few == {{a, b} : a \in Bit, b \in Bit}
Runs == {a..b : a \in Bit, b \in Bit}
AllLengths == Few \cup Runs \cup {Not(v) : v \in Few}

\* A value of each length, at its upper and lower end, and mixed bits.
Ends == UNION {{0..(7 * n - 1) \cap Bit, {7 * n} \cap Bit} : n \in {1, 2, 7, 8, 9, 10}}
          \cup {{0, 3, 9, 20, 33, 40, 55, 56, 62}, {1, 8, 15, 49}}

\* A buffer for one value, and one for two long or several short ones, with every bit set.
OldBytes == {[i \in 1..n |-> ByteBit] : n \in {10, 20}}
ValuesFor(n) == IF n = 10 THEN AllLengths ELSE Ends

\* Bytes from elsewhere: continuing ones, a last byte of any kind, and some behind it.
Continuing == {{7}, {0, 3, 7}, ByteBit}
ForeignBytes ==
  UNION {{[i \in 1..n |-> IF i % 2 = 0 THEN c ELSE d] \o <<e>> \o rest :
            c \in Continuing, d \in Continuing,
            e \in {{}, {0}, {1}, {0, 6}, {7}, {0, 7}}, rest \in {<<>>, <<{0}>>, <<ByteBit, {2}>>}} :
         n \in 0..10}
=============================================================================
