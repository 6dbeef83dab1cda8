------------------------------ MODULE BuyFlow ------------------------------
(***************************************************************************)
(* The buy flow: one bid travelling between the marketplace node of a      *)
(* buyer and that of a seller.  Each node has its own database (Bids with  *)
(* their child Bids, one OrderItem, one Order) and its own wallet.  A user *)
(* command validates against the local database, puts a transaction on     *)
(* the chain, sends one smsg and then runs the same processMessage() that  *)
(* the other node runs when the message gets there.  The network loses and *)
(* reorders messages, a user may resend one, and a message that comes too  *)
(* early waits until it is reprocessed or has expired.                     *)
(***************************************************************************)
EXTENDS Naturals, FiniteSets

CONSTANTS
  Multisig,    \* TRUE iff Escrow.type is MULTISIG
  Allowed,     \* bound: the commands the two users ever issue
  Resendable,  \* bound: the kinds of message that are ever resent
  MaxRepeats,  \* bound: how often a node sends a message of one kind
  MaxResends,  \* bound: how often one message is resent
  MaxMessages, \* bound: no new command once this many messages are sent
  Mortal       \* bound: the nodes that may stop in the middle of their work

Node == {"buyer", "seller"}

(* The marketplace messages of the buy flow (MPAction, MPActionExtended).  *)
Action == {"MPA_BID", "MPA_ACCEPT", "MPA_REJECT", "MPA_CANCEL", "MPA_LOCK",
           "MPA_COMPLETE", "MPA_SHIP", "MPA_RELEASE", "MPA_REFUND"}

ASSUME BuyFlowAssumption ==
  /\ Multisig \in BOOLEAN
  /\ Allowed \subseteq Action
  /\ Resendable \subseteq Action
  /\ MaxRepeats \in Nat
  /\ MaxResends \in Nat
  /\ MaxMessages \in Nat
  /\ Mortal \subseteq Node

(* Whose command sends it.  Either party may cancel.                       *)
BuyerSends == {"MPA_BID", "MPA_CANCEL", "MPA_LOCK", "MPA_RELEASE", "MPA_REFUND"}
SellerSends == {"MPA_ACCEPT", "MPA_REJECT", "MPA_CANCEL", "MPA_COMPLETE", "MPA_SHIP"}
Senders(kind) ==
  {n \in Node : \/ n = "buyer" /\ kind \in BuyerSends
                \/ n = "seller" /\ kind \in SellerSends}

(* The nth message of its kind that a node sends; copy > 0 is that message *)
(* sent again, an smsg of its own that names the first in RESENT_MSGID.    *)
Message ==
  {m \in [kind : Action, from : Node,
          nth : 1 .. MaxRepeats, copy : 0 .. MaxResends] :
     m.from \in Senders(m.kind)}
Original(m) == [m EXCEPT !.copy = 0]

OrderItemStatus == {"BIDDED", "BID_CANCELLED", "BID_REJECTED",
                    "AWAITING_ESCROW", "ESCROW_LOCKED", "ESCROW_COMPLETED",
                    "ESCROW_REFUNDED", "SHIPPING", "COMPLETE"}
OrderStatus == {"SENT", "RECEIVED", "PROCESSING", "SHIPPING", "COMPLETE",
                "REFUNDED", "CANCELED", "REJECTED"}

(* A message that is lost stays "in_flight" for ever.  "SKIPPED": dropped  *)
(* by the duplicate check, never stored.  "ABANDONED": its row still says  *)
(* PROCESSING, but the node stopped and nothing works on it any more.      *)
InboxStatus == {"unsent", "in_flight", "SKIPPED", "WAITING", "PROCESSING",
                "PROCESSED", "PROCESSING_FAILED", "ABANDONED"}

(* The raw transactions omp-lib makes for the escrow.                      *)
Tx == {"bidtx", "completetx", "releasetx"}

VARIABLES
  inbox,     \* inbox[m]: what became of m, at the node it was sent to
  rows,      \* rows[n]: the messages n has a row for in its table bids
  item,      \* item[n]: status of the OrderItem at n, "none" before the bid
  order,     \* order[n]: status of the Order at n
  reserved,  \* reserved[n]: n's wallet keeps the bid's prevouts locked
  pending,   \* pending[n]: commands between validate() and sendMessage()
  chain      \* who has broadcast which transaction

vars == <<inbox, rows, item, order, reserved, pending, chain>>

TypeOK ==
  /\ inbox \in [Message -> InboxStatus]
  /\ rows \in [Node -> SUBSET Message]
  /\ item \in [Node -> OrderItemStatus \cup {"none"}]
  /\ order \in [Node -> OrderStatus \cup {"none"}]
  /\ reserved \in [Node -> BOOLEAN]
  /\ pending \in [Node -> SUBSET Action]
  /\ chain \in SUBSET (Tx \X Node)

Peer(n) == IF n = "buyer" THEN "seller" ELSE "buyer"

Sent(m) == inbox[m] # "unsent"
Receiver(m) == Peer(m.from)

(* An INCOMING SmsgMessage exists for m at its receiver.                   *)
Stored(m) == inbox[m] \notin {"unsent", "in_flight", "SKIPPED"}

(* Node n has a Bid of this type: the MPA_BID itself or a child of it.     *)
Has(n, kind) == \E m \in rows[n] : m.kind = kind

Init ==
  /\ inbox = [m \in Message |-> "unsent"]
  /\ rows = [n \in Node |-> {}]
  /\ item = [n \in Node |-> "none"]
  /\ order = [n \in Node |-> "none"]
  /\ reserved = [n \in Node |-> FALSE]
  /\ pending = [n \in Node |-> {}]
  /\ chain = {}

-----------------------------------------------------------------------------
(* Processing a message: what processMessage() does to the database and    *)
(* the wallet of node n, the same when n sent m and when it received m.    *)

SetStatuses(n, itemStatus, orderStatus) ==
  /\ item' = [item EXCEPT ![n] = itemStatus]
  /\ order' = [order EXCEPT ![n] = orderStatus]

(* A second row for the same MPA_BID gets an Order of its own, which no    *)
(* message ever reaches: findOneByHash() returns the first row.            *)
ProcessBid(n) ==
  /\ IF Has(n, "MPA_BID")
     THEN UNCHANGED <<item, order>>
     ELSE SetStatuses(n, "BIDDED", IF n = "buyer" THEN "SENT" ELSE "RECEIVED")
  /\ UNCHANGED reserved

ProcessAccept(n) ==
  SetStatuses(n, "AWAITING_ESCROW", "PROCESSING") /\ UNCHANGED reserved

(* The bidder unlocks the outputs of its MPA_BID, the seller those of its  *)
(* MPA_ACCEPT if there is one; the wallet may refuse (ok = FALSE).         *)
UnlockBidOutputs(n, ok) ==
  reserved' = [reserved EXCEPT
    ![n] = @ /\ ~ (ok /\ (n = "buyer" \/ Has(n, "MPA_ACCEPT")))]

ProcessCancel(n, ok) ==
  SetStatuses(n, "BID_CANCELLED", "CANCELED") /\ UnlockBidOutputs(n, ok)

ProcessReject(n, ok) ==
  SetStatuses(n, "BID_REJECTED", "REJECTED") /\ UnlockBidOutputs(n, ok)

(* Mutant: the check that the comment in the service explains is gone.     *)
ProcessLockUnchecked(n) ==
  SetStatuses(n, "ESCROW_LOCKED", "PROCESSING") /\ UNCHANGED reserved

(* The one handler that looks at the statuses before it sets them.         *)
ProcessLock(n) ==
  /\ IF item[n] = "AWAITING_ESCROW" /\ order[n] = "PROCESSING"
     THEN SetStatuses(n, "ESCROW_LOCKED", "PROCESSING")
     ELSE UNCHANGED <<item, order>>
  /\ UNCHANGED reserved

(* Mutant: the item's status is written to the order, too.                 *)
ProcessCompleteMixedUp(n) ==
  SetStatuses(n, "ESCROW_COMPLETED", "ESCROW_COMPLETED") /\ UNCHANGED reserved

ProcessComplete(n) ==
  SetStatuses(n, "ESCROW_COMPLETED", "PROCESSING") /\ UNCHANGED reserved

ProcessShip(n) ==
  SetStatuses(n, "SHIPPING", "SHIPPING") /\ UNCHANGED reserved

ProcessRelease(n) ==
  SetStatuses(n, "COMPLETE", "COMPLETE") /\ UNCHANGED reserved

(* Mutant: the refund frees the outputs as a cancellation does.            *)
ProcessRefundUnlocks(n) ==
  SetStatuses(n, "ESCROW_REFUNDED", "REFUNDED") /\ UnlockBidOutputs(n, TRUE)

ProcessRefund(n) ==
  SetStatuses(n, "ESCROW_REFUNDED", "REFUNDED") /\ UNCHANGED reserved

(* createChildBidCreateRequest() and bidService.create(), then the rest.   *)
ProcessMessage(n, m, ok) ==
  /\ rows' = [rows EXCEPT ![n] = @ \cup {m}]
  /\ \/ m.kind = "MPA_BID"      /\ ProcessBid(n)
     \/ m.kind = "MPA_ACCEPT"   /\ ProcessAccept(n)
     \/ m.kind = "MPA_REJECT"   /\ ProcessReject(n, ok)
     \/ m.kind = "MPA_CANCEL"   /\ ProcessCancel(n, ok)
     \/ m.kind = "MPA_LOCK"     /\ ProcessLock(n)
     \/ m.kind = "MPA_COMPLETE" /\ ProcessComplete(n)
     \/ m.kind = "MPA_SHIP"     /\ ProcessShip(n)
     \/ m.kind = "MPA_RELEASE"  /\ ProcessRelease(n)
     \/ m.kind = "MPA_REFUND"   /\ ProcessRefund(n)

-----------------------------------------------------------------------------
(* Commands: what validate() and execute() check in the local database.    *)

CanBid == ~ \E m \in Message : Sent(m) /\ m.kind = "MPA_BID"
CanAccept == Has("seller", "MPA_BID")
CanReject == Has("seller", "MPA_BID") /\ ~ Has("seller", "MPA_ACCEPT")
CanCancel(n) == Has(n, "MPA_BID") /\ ~ Has(n, "MPA_COMPLETE")
CanLock == item["buyer"] = "AWAITING_ESCROW" /\ Has("buyer", "MPA_ACCEPT")
CanComplete ==
  /\ item["seller"] = "ESCROW_LOCKED"
  /\ Has("seller", "MPA_ACCEPT") /\ Has("seller", "MPA_LOCK")
CanShip == item["seller"] = "ESCROW_COMPLETED" /\ Has("seller", "MPA_COMPLETE")
(* Mutant: ESCROW_LOCKED is put among validOrderItemStatuses.              *)
CanReleaseEarly ==
  /\ item["buyer"] \in {"ESCROW_LOCKED", "ESCROW_COMPLETED", "SHIPPING"}
  /\ Has("buyer", "MPA_ACCEPT")
CanRelease ==
  /\ item["buyer"] \in {"ESCROW_COMPLETED", "SHIPPING"}
  /\ Has("buyer", "MPA_ACCEPT")
CanRefund ==
  /\ item["buyer"] \in {"ESCROW_LOCKED", "ESCROW_COMPLETED", "SHIPPING"}
  /\ Has("buyer", "MPA_ACCEPT") /\ Has("buyer", "MPA_LOCK")

Can(n, kind) ==
  \/ kind = "MPA_BID"      /\ CanBid
  \/ kind = "MPA_ACCEPT"   /\ CanAccept
  \/ kind = "MPA_REJECT"   /\ CanReject
  \/ kind = "MPA_CANCEL"   /\ CanCancel(n)
  \/ kind = "MPA_LOCK"     /\ CanLock
  \/ kind = "MPA_COMPLETE" /\ CanComplete
  \/ kind = "MPA_SHIP"     /\ CanShip
  \/ kind = "MPA_RELEASE"  /\ CanRelease
  \/ kind = "MPA_REFUND"   /\ CanRefund

(* The transactions that beforePost() broadcasts, for other escrow types   *)
(* than MULTISIG none with the lock.  OmpService.refund() asks omp-lib for *)
(* the completetx.                                                         *)
LockTx == IF Multisig THEN {"bidtx"} ELSE {}
CompleteTx == {"completetx"}
ReleaseTx == {"releasetx"}
RefundTx == {"completetx"}
(* Mutant: EscrowCompleteActionService loses its beforePost().             *)
BeforePostTxNoComplete(kind) ==
  {tx \in Tx : \/ kind = "MPA_LOCK" /\ tx \in LockTx
               \/ kind = "MPA_RELEASE" /\ tx \in ReleaseTx
               \/ kind = "MPA_REFUND" /\ tx \in RefundTx}
BeforePostTx(kind) ==
  {tx \in Tx : \/ kind = "MPA_LOCK" /\ tx \in LockTx
               \/ kind = "MPA_COMPLETE" /\ tx \in CompleteTx
               \/ kind = "MPA_RELEASE" /\ tx \in ReleaseTx
               \/ kind = "MPA_REFUND" /\ tx \in RefundTx}

(* omp-lib reserves the outputs it puts into a bid or an acceptance.       *)
OmpReserves(kind) == kind \in {"MPA_BID", "MPA_ACCEPT"}

NewMessage(n, kind) ==
  {m \in Message : /\ m.kind = kind /\ m.from = n /\ m.copy = 0 /\ ~ Sent(m)
                   /\ \A k \in 1 .. m.nth - 1 : Sent([m EXCEPT !.nth = k])}

(* The first half of a command, until beforePost() has returned.  When the *)
(* core node rejects the transaction nothing has happened, so that is no   *)
(* step.                                                                   *)
Command(n, kind) ==
  /\ kind \in Allowed
  /\ kind \notin pending[n]
  /\ NewMessage(n, kind) # {}
  /\ Cardinality({m \in Message : Sent(m)}) < MaxMessages
  /\ n \in Senders(kind) /\ Can(n, kind)
  /\ pending' = [pending EXCEPT ![n] = @ \cup {kind}]
  /\ reserved' = [reserved EXCEPT ![n] = @ \/ OmpReserves(kind)]
  /\ chain' = chain \cup (BeforePostTx(kind) \X {n})
  /\ UNCHANGED <<inbox, rows, item, order>>

Send(m) == inbox' = [inbox EXCEPT ![m] = "in_flight"]

(* The second half: sendMessage(), saveOutgoingMessage(), processMessage() *)
Post(n, kind, m) ==
  /\ kind \in pending[n]
  /\ pending' = [pending EXCEPT ![n] = @ \ {kind}]
  /\ m \in NewMessage(n, kind)
  /\ Send(m)
  /\ \E ok \in BOOLEAN : ProcessMessage(n, m, ok)
  /\ UNCHANGED chain

(* sendMessage() throws: the transaction and the reservations stay.        *)
PostFails(n, kind) ==
  /\ kind \in pending[n]
  /\ pending' = [pending EXCEPT ![n] = @ \ {kind}]
  /\ UNCHANGED <<inbox, rows, item, order, reserved, chain>>

(* The node stops right after sendMessage(): the peer will get a message   *)
(* of which the sender itself keeps no trace, and the message the sender   *)
(* was working on is left where it is.                                     *)
DiesAfterSend(n, kind, m) ==
  /\ n \in Mortal
  /\ kind \in pending[n]
  /\ pending' = [pending EXCEPT ![n] = {}]
  /\ m \in NewMessage(n, kind)
  /\ inbox' = [x \in Message |->
       IF x = m THEN "in_flight"
       ELSE IF inbox[x] = "PROCESSING" /\ Receiver(x) = n THEN "ABANDONED"
       ELSE inbox[x]]
  /\ UNCHANGED <<rows, item, order, reserved, chain>>

(* smsg resend: a new smsg that names the stored one in RESENT_MSGID.      *)
Resend(n, m) ==
  /\ m.from = n /\ Original(m) \in rows[n]
  /\ m.kind \in Resendable
  /\ ~ Sent(m) /\ \A k \in 1 .. m.copy - 1 : Sent([m EXCEPT !.copy = k])
  /\ Send(m)
  /\ UNCHANGED <<rows, item, order, reserved, pending, chain>>

-----------------------------------------------------------------------------
(* Receiving: the validators' validateSequence() and the processors.       *)

AcceptInSequence(n) == Has(n, "MPA_BID")
RejectInSequence(n) == Has(n, "MPA_BID")
CancelInSequence(n) == Has(n, "MPA_BID")
LockInSequence(n) == Has(n, "MPA_ACCEPT")
CompleteInSequence(n) == Has(n, "MPA_LOCK")
RefundInSequence(n) == Has(n, "MPA_LOCK")
ShipInSequence(n) == item[n] = "ESCROW_COMPLETED" /\ Has(n, "MPA_COMPLETE")
(* Mutant: the release is let in without the shipment.                     *)
ReleaseInSequenceNoShip(n) == Has(n, "MPA_COMPLETE")
ReleaseInSequence(n) == Has(n, "MPA_COMPLETE") /\ Has(n, "MPA_SHIP")

ValidSequence(n, kind) ==
  \/ kind = "MPA_BID"
  \/ kind = "MPA_ACCEPT"   /\ AcceptInSequence(n)
  \/ kind = "MPA_REJECT"   /\ RejectInSequence(n)
  \/ kind = "MPA_CANCEL"   /\ CancelInSequence(n)
  \/ kind = "MPA_LOCK"     /\ LockInSequence(n)
  \/ kind = "MPA_COMPLETE" /\ CompleteInSequence(n)
  \/ kind = "MPA_REFUND"   /\ RefundInSequence(n)
  \/ kind = "MPA_SHIP"     /\ ShipInSequence(n)
  \/ kind = "MPA_RELEASE"  /\ ReleaseInSequence(n)

SetInbox(m, status) == inbox' = [inbox EXCEPT ![m] = status]
NodeUnchanged == UNCHANGED <<rows, item, order, reserved>>

(* The action queue of a node has concurrency one.                         *)
Idle(n) == ~ \E m \in Message : inbox[m] = "PROCESSING" /\ Receiver(m) = n

(* isCoreMessageAlreadyProcessed(): m itself or the message it resends.    *)
AlreadyProcessed(m) == Stored(m) \/ Stored(Original(m))

(* CoreMessageProcessor meets a message that is not new.                   *)
Skip(m) ==
  /\ inbox[m] = "in_flight"
  /\ AlreadyProcessed(m)
  /\ SetInbox(m, "SKIPPED")
  /\ NodeUnchanged /\ UNCHANGED <<pending, chain>>

(* A message that is new, or that WaitingMessageService takes up again.    *)
Due(m) ==
  \/ inbox[m] = "in_flight" /\ ~ AlreadyProcessed(m)
  \/ inbox[m] = "WAITING"

(* Mutant: WaitingMessageService never takes a message up again.           *)
BeginProcessingOnce(m) ==
  /\ inbox[m] = "in_flight" /\ Due(m) /\ Idle(Receiver(m))
  /\ ValidSequence(Receiver(m), m.kind)
  /\ SetInbox(m, "PROCESSING")
  /\ NodeUnchanged /\ UNCHANGED <<pending, chain>>

(* process() of the ActionMessageProcessors up to the call of onEvent().   *)
BeginProcessing(m) ==
  /\ Due(m) /\ Idle(Receiver(m))
  /\ ValidSequence(Receiver(m), m.kind)
  /\ SetInbox(m, "PROCESSING")
  /\ NodeUnchanged /\ UNCHANGED <<pending, chain>>

(* The sequence is invalid and the message has not expired ...             *)
Postpone(m) ==
  /\ inbox[m] = "in_flight" /\ Due(m) /\ Idle(Receiver(m))
  /\ ~ ValidSequence(Receiver(m), m.kind)
  /\ SetInbox(m, "WAITING")
  /\ NodeUnchanged /\ UNCHANGED <<pending, chain>>

(* ... and when it has.                                                    *)
GiveUp(m) ==
  /\ Due(m) /\ Idle(Receiver(m))
  /\ ~ ValidSequence(Receiver(m), m.kind)
  /\ SetInbox(m, "PROCESSING_FAILED")
  /\ NodeUnchanged /\ UNCHANGED <<pending, chain>>

(* Only unlocking the outputs can throw, after everything else is done.    *)
Handle(n, m) ==
  \E ok \in BOOLEAN :
    /\ ProcessMessage(n, m, ok)
    /\ \/ ok /\ SetInbox(m, "PROCESSED")
       \/ /\ ~ ok /\ m.kind \in {"MPA_REJECT", "MPA_CANCEL"}
          /\ n = "buyer" \/ Has(n, "MPA_ACCEPT")
          /\ SetInbox(m, "PROCESSING_FAILED")

(* Mutant: onEvent() of MPA_SHIP trusts what validateSequence() has seen.  *)
HandleShipUnchecked(n, m) == Handle(n, m)

(* The onEvent() of MPA_SHIP looks at the two statuses once more: a        *)
(* command may have changed them since the sequence was validated.         *)
HandleShip(n, m) ==
  \/ /\ item[n] = "ESCROW_COMPLETED" /\ order[n] = "PROCESSING"
     /\ Handle(n, m)
  \/ /\ item[n] = "COMPLETE" /\ order[n] = "COMPLETE"
     /\ SetInbox(m, "PROCESSED") /\ NodeUnchanged
  \/ /\ <<item[n], order[n]>> \notin {<<"ESCROW_COMPLETED", "PROCESSING">>,
                                     <<"COMPLETE", "COMPLETE">>}
     /\ SetInbox(m, "WAITING") /\ NodeUnchanged

OnEvent(m) ==
  /\ inbox[m] = "PROCESSING"
  /\ IF m.kind = "MPA_SHIP"
     THEN HandleShip(Receiver(m), m) ELSE Handle(Receiver(m), m)
  /\ UNCHANGED <<pending, chain>>

-----------------------------------------------------------------------------
UserStep(n) ==
  \/ \E kind \in Action : Command(n, kind)
  \/ \E kind \in pending[n] :
       \/ \E m \in NewMessage(n, kind) : Post(n, kind, m) \/ DiesAfterSend(n, kind, m)
       \/ PostFails(n, kind)
  \/ \E m \in Message : Resend(n, m)

MessageStep(m) ==
  \/ Skip(m) \/ BeginProcessing(m) \/ Postpone(m) \/ GiveUp(m) \/ OnEvent(m)

Next == (\E n \in Node : UserStep(n)) \/ (\E m \in Message : MessageStep(m))

Spec == Init /\ [][Next]_vars

(* What a node that runs does by itself: it works off the message it has   *)
(* begun, WaitingMessageService comes round every five seconds and every   *)
(* expiration passes.  Users and the network owe nothing.                  *)
Work(m) ==
  \/ OnEvent(m)
  \/ inbox[m] = "WAITING" /\ (BeginProcessing(m) \/ GiveUp(m))

FairSpec == Spec /\ \A m \in Message : WF_vars(Work(m))
-----------------------------------------------------------------------------
(* What must be in a node's table bids before a message of this kind may   *)
(* come about.                                                             *)
Needs(kind) ==
  {k \in Action :
     \/ k = "MPA_BID" /\ kind \in {"MPA_ACCEPT", "MPA_REJECT", "MPA_CANCEL"}
     \/ k = "MPA_ACCEPT" /\ kind = "MPA_LOCK"
     \/ k = "MPA_LOCK" /\ kind \in {"MPA_COMPLETE", "MPA_REFUND"}
     \/ k = "MPA_COMPLETE" /\ kind \in {"MPA_SHIP", "MPA_RELEASE"}}

HasAll(n, kinds) == \A kind \in kinds : Has(n, kind)

(* Whatever the network loses or reorders and however commands and         *)
(* messages interleave, the child Bids of a node never have a gap: every   *)
(* row rests on the row of the step before it, and a seller that has the   *)
(* release also has its own shipment.                                      *)
History ==
  \A n \in Node : \A m \in rows[n] :
    /\ HasAll(n, Needs(m.kind))
    /\ n = "seller" /\ m.kind = "MPA_RELEASE" => Has(n, "MPA_SHIP")

(* A row at either node proves that the node which sent the message had    *)
(* the step before it: the seller has the lock only if the buyer has the   *)
(* acceptance, the buyer has the completion only if the seller has the     *)
(* lock, and so on, also when the sender stopped before saving its row.    *)
Handshake ==
  \A n \in Node : \A m \in rows[n] : HasAll(m.from, Needs(m.kind))

(* No node shows an escrow status before the transaction behind it has     *)
(* been broadcast by the party that has to: beforePost() runs before the   *)
(* message leaves, and no message, late or repeated, gets round it.        *)
EscrowBacked ==
  \A n \in Node :
    /\ item[n] = "ESCROW_LOCKED" => BeforePostTx("MPA_LOCK") \X {"buyer"} \subseteq chain
    /\ item[n] \in {"ESCROW_COMPLETED", "SHIPPING"} => <<"completetx", "seller">> \in chain
    /\ item[n] = "COMPLETE" => {<<"completetx", "seller">>, <<"releasetx", "buyer">>} \subseteq chain
    /\ item[n] = "ESCROW_REFUNDED" => RefundTx \X {"buyer"} \subseteq chain

(* The outputs a party committed stay locked in its wallet until the bid   *)
(* was cancelled or rejected at that node: no other path frees them.       *)
ReservedUntilDead ==
  \A n \in Node :
    \/ reserved[n] \/ Has(n, "MPA_CANCEL") \/ Has(n, "MPA_REJECT")
    \/ ~ Has(n, IF n = "buyer" THEN "MPA_BID" ELSE "MPA_ACCEPT")

(* The flow without cancellation, rejection, refund or repeated messages,  *)
(* when nothing is on its way: both databases say the same.                *)
Quiet == /\ \A n \in Node : pending[n] = {}
         /\ \A m \in Message : inbox[m] \in {"unsent", "SKIPPED", "PROCESSED"}
Agreement ==
  Quiet /\ Has("buyer", "MPA_BID") =>
    /\ item["buyer"] = item["seller"]
    /\ order["buyer"] = order["seller"]
         \/ <<order["buyer"], order["seller"]>> = <<"SENT", "RECEIVED">>

(* In that flow no message, lost, late or resent, makes a node skip a      *)
(* stage, enter one before the other party has, or go back: the two nodes  *)
(* together do what OrderLifecycle says.  That is what the validators and  *)
(* the check in ProcessLock are for.                                       *)
Stage(n) ==
  CASE item[n] = "none" -> 0
    [] item[n] = "BIDDED" -> 1
    [] item[n] = "AWAITING_ESCROW" -> 2
    [] item[n] = "ESCROW_LOCKED" -> 3
    [] item[n] = "ESCROW_COMPLETED" -> 4
    [] item[n] = "SHIPPING" -> 5
    [] item[n] = "COMPLETE" -> 6
    [] OTHER -> 7
Lifecycle == INSTANCE OrderLifecycle WITH stage <- [n \in Node |-> Stage(n)]
KeepsOrderLifecycle == Lifecycle!Spec

(* A message that came too early is not forgotten: it ends up processed,   *)
(* expired, or left behind by a node that stopped.  Once the step an early *)
(* escrow message waits for has been processed, the message itself is: it  *)
(* does not expire any more.                                               *)
EarlyMessageRecovered ==
  \A m \in Message :
    /\ inbox[m] = "WAITING" ~> inbox[m] \in {"PROCESSED", "PROCESSING_FAILED", "ABANDONED"}
    /\ /\ inbox[m] = "WAITING"
       /\ m.kind \in {"MPA_LOCK", "MPA_COMPLETE", "MPA_REFUND", "MPA_RELEASE"}
       /\ ValidSequence(Receiver(m), m.kind)
       ~> inbox[m] \in {"PROCESSED", "ABANDONED"}
=============================================================================
