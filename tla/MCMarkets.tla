------------------------------ MODULE MCMarkets ------------------------------
(***************************************************************************)
(* Markets with what TLC checks it for.                                    *)
(***************************************************************************)
EXTENDS Markets

(* A node with a mishap has one profile, one without may get a second.     *)
OneOfBoth == mishaps = 0 \/ last.profile <= 1
=============================================================================
