----------------------------- MODULE WritePaths -----------------------------
(***************************************************************************)
(* The write paths of src/src/ostream.rs.  OStream pushes bytes; the code  *)
(* tests once whether a whole field (or a run of elements) is sure to fit, *)
(* stores it unchecked if so, and otherwise goes byte by byte through the  *)
(* one writer that can drain in the middle of a varint.  A store moves the *)
(* cursor by the bytes of the varint, but may scribble over the            *)
(* MaxVarintLen bytes from its start.                                      *)
(*                                                                         *)
(* OStream's calls and drains are kept as they are; its Push is replaced.  *)
(***************************************************************************)
EXTENDS OStream

VARIABLES
  routines,   \* routines that still write a part of `todo', the running one first
  run,        \* elements that may yet be stored without another capacity test
  reach,      \* history: the end of what the last unchecked store scribbled over
  ahead       \* history: bytes stored since the last time OStream would have
              \* finished a Push

pathVars == <<routines, run, reach, ahead>>
allVars == <<vars, pathVars>>

Split == "write_varint_split"
Raw == "push_raw"

\* The routines that write a piece: a held-back header or an end marker is one
\* varint, every content field begins with two, which only a fixlen field tests
\* together with its payload; a float array has its word and payload behind them.
Writers ==
  IF routines # <<>> THEN routines
  ELSE IF pc = "commit" \/ call.kind # "content" THEN <<"write_varint">>
  ELSE IF written > 0 THEN <<"write_varint_run">>
  ELSE IF call.asked[1] = "fixlen" THEN <<"write_fixlen">>
  ELSE IF call.asked[1] = "array" /\ call.asked[3] \in {KindFp32, KindFp64}
    THEN <<"write_field_varint", "write_varint", Raw>>
  ELSE <<"write_field_varint">>

Writing(routine) == todo # <<>> /\ Head(Writers) = routine

Room == end - offset

\* Bytes of the varint at the front of `todo' and of the two there.
LastByte(n) == todo[n] < 128
FirstLen == CHOOSE n \in DOMAIN todo : LastByte(n) /\ \A i \in 1..(n - 1) : ~LastByte(i)
SecondEnd == CHOOSE n \in DOMAIN todo :
               LastByte(n) /\ n > FirstLen /\ \A i \in (FirstLen + 1)..(n - 1) : ~LastByte(i)

\* Mutant: what was stored is not taken off what is to be stored.
RestAgain(n) == IF n = Len(todo) THEN <<>> ELSE todo

Rest(n) == SubSeq(todo, n + 1, Len(todo))

\* n bytes of `todo' go out; `following' are the routines for what is left.
Put(n, following) ==
  /\ mem' = mem \o SubSeq(todo, 1, n)
  /\ todo' = Rest(n)
  /\ offset' = offset + n
  /\ routines' = IF n = Len(todo) THEN <<>> ELSE following
  /\ ahead' = IF n = Len(todo) \/ offset + n = end THEN 0 ELSE ahead + n
  /\ UNCHANGED <<end, depth, pending, hasSink, dead, room, out, pc, call, written, result>>

\* n bytes go out unchecked, the last varint of them from `last' on.
Store(n, last, following) == Put(n, following) /\ reach' = offset + last + MaxVarintLen

\* The room is too short: hand the part over to other routines.
Divert(following) ==
  /\ routines' = following
  /\ UNCHANGED <<vars, run, reach, ahead>>

WriteVarint ==
  /\ Writing("write_varint")
  /\ IF Room >= MaxVarintLen
       THEN Store(FirstLen, 0, Tail(Writers)) /\ UNCHANGED run
       ELSE Divert(<<Split>> \o Tail(Writers))

\* Mutant: one byte too few is asked for.
TwoFitShort == Room >= 2 * MaxVarintLen - 1

TwoFit == Room >= 2 * MaxVarintLen

WriteFieldVarint ==
  /\ Writing("write_field_varint")
  /\ IF TwoFit
       THEN Store(SecondEnd, FirstLen, Tail(Writers)) /\ UNCHANGED run
       ELSE Divert(<<Split, Split>> \o Tail(Writers))

\* write_fixlen_unchecked and write_fixlen_split: the whole field, its two varints,
\* or nothing fits.  The payload is copied and scribbles over nothing.
WriteFixlenField ==
  /\ Writing("write_fixlen")
  /\ LET payload == Len(call.asked[4])
     IN  CASE Room >= 2 * MaxVarintLen + payload ->
                Store(Len(todo), FirstLen, <<>>) /\ UNCHANGED run
           [] TwoFit /\ Room < 2 * MaxVarintLen + payload ->
                Store(SecondEnd, FirstLen, <<Raw>>) /\ UNCHANGED run
           [] OTHER -> Divert(<<Split, Split, Raw>>)

\* Mutant: the run has an element for a part of a varint's room, too.
RunRoomUp == (Room + MaxVarintLen - 1) \div MaxVarintLen

RunRoom == Room \div MaxVarintLen

\* An element of an integer array: of a run that was measured, of a new run, or by
\* itself within a varint's reach of the end.
WriteElement ==
  /\ Writing("write_varint_run")
  /\ LET left == Len(call.elements) - written + 1
         fit == IF RunRoom <= left THEN RunRoom ELSE left
         measured == IF run > 0 THEN run ELSE fit
     IN  IF measured > 0
           THEN Store(FirstLen, 0, <<>>) /\ run' = measured - 1
           ELSE Divert(<<Split>>)

\* write_varint_split: a byte, into a buffer that is not full.
WriteSplit ==
  /\ Writing(Split)
  /\ offset < end
  /\ Put(1, IF LastByte(1) THEN Tail(routines) ELSE routines)
  /\ reach' = 0
  /\ UNCHANGED run

\* push_raw: what fits of a payload.
PushRaw ==
  /\ Writing(Raw)
  /\ offset < end
  /\ Put(IF Len(todo) <= Room THEN Len(todo) ELSE Room, routines)
  /\ reach' = 0
  /\ UNCHANGED run

\* Only the two routines that can stop in the middle of a part drain.
Drain ==
  /\ todo # <<>> /\ Head(Writers) \in {Split, Raw}
  /\ DrainFails \/ \E reply \in Replies : DrainToSink(reply)
  /\ routines' = IF pc' = "idle" THEN <<>> ELSE routines
  /\ reach' = 0
  /\ UNCHANGED <<run, ahead>>

Between == HeaderWritten \/ NextElement \/ Return

PathInit == Init /\ routines = <<>> /\ run = 0 /\ reach = 0 /\ ahead = 0

PathSteps ==
  \/ WriteVarint \/ WriteFieldVarint \/ WriteFixlenField
  \/ WriteElement \/ WriteSplit \/ PushRaw \/ Drain
  \/ Between /\ reach' = 0 /\ UNCHANGED <<routines, run, ahead>>

PathNext == PathSteps \/ (Calls /\ reach' = 0 /\ UNCHANGED <<routines, run, ahead>>)

PathSpec == PathInit /\ [][PathNext]_allVars /\ WF_allVars(PathSteps)

-----------------------------------------------------------------------------
(***************************************************************************)
(* Properties.                                                             *)
(***************************************************************************)
\* No unchecked store scribbles past the end of the buffer, whichever capacity test
\* it relies on and however far back that test was, and a run that was measured
\* still fits after every element of it.
StoresInBuffer == reach <= end /\ offset <= end /\ run * MaxVarintLen <= Room

\* OStream, as it is before the stores that its next Push is to make.
Pushes == INSTANCE OStream WITH
  mem <- SubSeq(mem, 1, Len(mem) - ahead),
  todo <- SubSeq(mem, Len(mem) - ahead + 1, Len(mem)) \o todo,
  offset <- offset - ahead

\* Every path writes the bytes OStream pushes, and drains only a buffer that is full
\* to its last byte, so BufferFull is never answered while a byte would still fit;
\* and every call returns.
ImplementsOStream == Pushes!Spec
=============================================================================
