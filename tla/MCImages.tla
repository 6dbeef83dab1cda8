------------------------------ MODULE MCImages ------------------------------
(***************************************************************************)
(* Images with what TLC checks it for: every message shows every picture.  *)
(***************************************************************************)
EXTENDS Images

DepictsAll == [t \in Target |-> Hash]
=============================================================================
