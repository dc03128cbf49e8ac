------------------------------ MODULE FrameLog ------------------------------
(***************************************************************************)
(* What the media pool promises its users, without blocks, elements,       *)
(* semaphores or a lock: a log of frames with consecutive numbers.  A new  *)
(* frame goes to the end, frames leave at the front only, a frame in the   *)
(* log never changes, and only a producer that opens the pool again may    *)
(* empty it.                                                               *)
(***************************************************************************)
EXTENDS Naturals, Sequences

CONSTANTS
  Capacity,   \* elements the log can hold
  SeqNos      \* frame numbers

VARIABLES
  log,        \* the frames, oldest first: number and bytes of each
  opening     \* a producer is (re)opening the pool

Frame(s) == [seq |-> s, bytes |-> {s}]

Init == log = <<>> /\ opening = FALSE

Push(s) ==
  /\ ~opening
  /\ Len(log) < Capacity
  /\ log # <<>> => s = log[Len(log)].seq + 1
  /\ log' = Append(log, Frame(s))
  /\ UNCHANGED opening

DropOldest == ~opening /\ log # <<>> /\ log' = Tail(log) /\ UNCHANGED opening

Open == ~opening /\ opening' = TRUE /\ UNCHANGED log

Reset == opening /\ opening' = FALSE /\ log' = <<>>

(* The producer dies before it has emptied the pool. *)
Abandon == opening /\ opening' = FALSE /\ UNCHANGED log

Next == (\E s \in SeqNos : Push(s)) \/ DropOldest \/ Open \/ Reset \/ Abandon

Spec == Init /\ [][Next]_<<log, opening>>
=============================================================================
