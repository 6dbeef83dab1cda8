----------------------------- MODULE MCBuyFlow -----------------------------
(***************************************************************************)
(* BuyFlow with the sets of commands TLC checks it for.                    *)
(***************************************************************************)
EXTENDS BuyFlow

HappyPath == {"MPA_BID", "MPA_ACCEPT", "MPA_LOCK", "MPA_COMPLETE",
              "MPA_SHIP", "MPA_RELEASE"}
UntilLocked == {"MPA_BID", "MPA_ACCEPT", "MPA_REJECT", "MPA_CANCEL", "MPA_LOCK"}
Everything == HappyPath \cup UntilLocked \cup {"MPA_REFUND"}

(* A rejection crosses acceptance, cancellation and lock; what comes after *)
(* those the rejection leaves alone.                                       *)
RejectedEarly ==
  LET begun == UNION {{m.kind : m \in {k \in Message : Sent(k)}}, pending["buyer"], pending["seller"]}
  IN "MPA_REJECT" \in begun => begun \subseteq UntilLocked
=============================================================================
