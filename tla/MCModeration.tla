---------------------------- MODULE MCModeration ----------------------------
(***************************************************************************)
(* Moderation with the addresses TLC checks it for.                        *)
(***************************************************************************)
EXTENDS Moderation
=============================================================================
