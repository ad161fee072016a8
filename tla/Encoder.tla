------------------------------ MODULE Encoder ------------------------------
(***************************************************************************)
(* What an encoder promises, without buffers, sinks or bytes: a receiver   *)
(* of what was written so far is told the fields in the order of the calls,*)
(* inside the sequences they were written in, and is told of a sequence    *)
(* only when it has content or was closed with its frame kept.  A call     *)
(* that fails adds nothing but enclosing sequences that were still held    *)
(* back (Cut), or it leaves a torn item, and then nothing is promised.     *)
(***************************************************************************)
EXTENDS Integers, Sequences

CONSTANTS
  SequenceIds,    \* ids of sequences
  Opens(_),       \* the callback that a sequence begins
  Closes,         \* the callback that it ends
  DepthMax        \* open sequences at most

VARIABLES
  root,           \* the callbacks of the top level, closed sequences included
  frames,         \* the open sequences, outermost first
  torn,           \* a failed call left part of an item behind
  told,           \* what a receiver of everything written so far is told
  asked           \* input: what the field being written is to tell a receiver

vars == <<root, frames, torn, told>>

Frame(id) == [id |-> id, body |-> <<>>, kept |-> FALSE]
HasContent(f) == f.body # <<>> \/ f.kept

Innermost(fs) == fs[Len(fs)]
Outer(fs) == SubSeq(fs, 1, Len(fs) - 1)

\* A sequence is visible as soon as it, or one inside it, has content.
Shown(fs) ==
  CHOOSE k \in 0..Len(fs) :
    /\ k > 0 => HasContent(fs[k])
    /\ \A i \in (k + 1)..Len(fs) : ~HasContent(fs[i])

\* What a receiver is told when the k outermost sequences are visible.
VisibleTo(r, fs) ==
  LET upto[k \in Nat] ==
        IF k = 0 THEN r ELSE upto[k - 1] \o <<Opens(fs[k].id)>> \o fs[k].body
  IN  upto

Visible(r, fs) == VisibleTo(r, fs)[Shown(fs)]

Init == root = <<>> /\ frames = <<>> /\ torn = FALSE /\ told = <<>>

\* Put the callbacks cs into the innermost of the sequences fs.
Put(fs, cs) ==
  IF fs = <<>>
    THEN root' = root \o cs /\ frames' = fs
    ELSE root' = root /\ frames' = [fs EXCEPT ![Len(fs)].body = @ \o cs]

Close ==
  Put(Outer(frames), <<Opens(Innermost(frames).id)>> \o Innermost(frames).body \o <<Closes>>)

Write == asked # <<>> /\ Put(frames, asked)

Begin(id) ==
  /\ Len(frames) < DepthMax
  /\ frames' = Append(frames, Frame(id)) /\ UNCHANGED root

\* Closing drops a sequence without content...
End ==
  /\ frames # <<>>
  /\ IF HasContent(Innermost(frames))
       THEN Close
       ELSE frames' = Outer(frames) /\ UNCHANGED root

\* ... unless its frame is to be kept.
Keep == frames # <<>> /\ Close

\* A call fails after the k outermost open sequences have become visible.
Cut(k) ==
  /\ k \in DOMAIN frames /\ k >= Shown(frames)
  /\ frames' = [frames EXCEPT ![k].kept = TRUE] /\ UNCHANGED root

Tear == torn' = TRUE /\ told' = <<>> /\ UNCHANGED <<root, frames>>

Next ==
  /\ ~torn
  /\ \/ Tear
     \/ /\ torn' = FALSE
        /\ \/ Write
           \/ \E id \in SequenceIds : Begin(id)
           \/ End
           \/ Keep
           \/ \E k \in DOMAIN frames : Cut(k)
        /\ told' = Visible(root', frames')

Spec == Init /\ [][Next]_vars
=============================================================================
