----------------------------- MODULE MshmPoolLog -----------------------------
(* The pool implements the frame log: the refinement mapping. *)
EXTENDS MshmPool

(* The k-th oldest element with the bytes its blocks hold now. *)
LoggedFrame(k) ==
  LET e == eles[(head + k - 1) % MaxEle]
  IN  [seq |-> e.num, bytes |-> {data[b] : b \in BlocksOf(e.bblock, e.len)}]

Log == INSTANCE FrameLog WITH
         log      <- [k \in 1 .. count |-> LoggedFrame(k)],
         opening  <- ppc \in {"create", "init"},
         Capacity <- MaxEle,
         SeqNos   <- 1 .. MaxFrames

(* Every step of the pool is a step of the frame log or none: frames keep  *)
(* their bytes for as long as they are in the pool, leave oldest first     *)
(* (FreeBlocks, FreeHeadEle) and enter with the next number                *)
(* (MShmPoolAddResource), across crashes and re-creations.                 *)
ImplementsFrameLog == Log!Spec
=============================================================================
