----------------------------- MODULE MCTemplates -----------------------------
(***************************************************************************)
(* Templates with what TLC checks it for: clients are interchangeable.     *)
(***************************************************************************)
EXTENDS Templates, TLC

ClientSymmetry == Permutations(Clients)

Alone == overlapped = {} /\ Cardinality({c \in Clients : ~ Idle(c)}) <= 1

(* Two listings are sent from two templates; two commands at once are at   *)
(* two templates, send one listing and have no mishap.                     *)
AloneOrFew ==
  /\ last <= 2 \/ Len(sent) <= 1
  /\ Alone \/ (last <= 2 /\ mishaps = 0 /\ Len(sent) <= 1)
=============================================================================
