-------------------------- MODULE MCMessageIntake --------------------------
(***************************************************************************)
(* MessageIntake with the messages TLC checks it for.                      *)
(***************************************************************************)
EXTENDS MessageIntake

(* The acceptance may come before its bid, and it may have been resent.    *)
BidAndAccept == [m \in Msg |-> IF m = "bid" THEN {} ELSE {"bid"}]
NoCopies == [m \in Msg |-> m]
Resent == [m \in Msg |-> IF m = "resent" THEN "accept" ELSE m]

(* A message that nobody listens for comes without a resent one and a stop. *)
UnknownAlone == core["unknown"] = "none" \/ (core["resent"] = "none" /\ crashes = 0)

(* "other" waits for a message that never comes: for itself.               *)
OneWaitsInVain ==
  [m \in Msg |-> IF m = "bid" THEN {}
                 ELSE IF m = "other" THEN {"other"} ELSE {"bid"}]
=============================================================================
