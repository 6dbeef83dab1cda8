--------------------------- MODULE OrderLifecycle ---------------------------
(***************************************************************************)
(* What the buy flow promises when nobody cancels, rejects, refunds or     *)
(* repeats a step: buyer and seller walk through the same stages, each     *)
(* stage is entered first by the party whose move it is, neither party     *)
(* ever goes back, and only the buyer may skip one, the shipment.  The     *)
(* stages are those of OrderItem.status, the moves those of the commands.  *)
(***************************************************************************)
EXTENDS Naturals

VARIABLE stage   \* stage[party], 0 before the party knows of the bid

Party == {"buyer", "seller"}
Bidded == 1
AwaitingEscrow == 2
EscrowLocked == 3
EscrowCompleted == 4
Shipping == 5
Complete == 6

Other(p) == IF p = "buyer" THEN "seller" ELSE "buyer"

(* The buyer bids, pays and releases; the seller accepts, completes the    *)
(* escrow and ships.                                                       *)
Moves(p) == IF p = "buyer" THEN {Bidded, EscrowLocked, Complete}
            ELSE {AwaitingEscrow, EscrowCompleted, Shipping}

Successor(p, s) ==
  {s + 1} \cup {t \in {Complete} : p = "buyer" /\ s = EscrowCompleted}

Init == stage = [p \in Party |-> 0]

(* A party makes its move when the other one has made the move before it.  *)
(* Shipment and release overlap: the seller ships without hearing from the *)
(* buyer and the buyer may release without waiting for the shipment.       *)
Lead(p) ==
  \E s \in Successor(p, stage[p]) :
    /\ s \in Moves(p)
    /\ \/ stage[Other(p)] = s - 1
       \/ s \in {Shipping, Complete} /\ stage[Other(p)] >= s - 2
    /\ stage' = [stage EXCEPT ![p] = s]

(* It learns of a move that the other one has made.                        *)
Follow(p) ==
  \E s \in Successor(p, stage[p]) :
    /\ s \in Moves(Other(p))
    /\ stage[Other(p)] >= s
    /\ stage' = [stage EXCEPT ![p] = s]

Next == \E p \in Party : Lead(p) \/ Follow(p)

Spec == Init /\ [][Next]_stage
=============================================================================
