--------------------------- MODULE BuyFlowProofs ---------------------------
(***************************************************************************)
(* Type correctness and the safety invariants of BuyFlow, proved for every *)
(* set of commands, every bound on messages and resends and every choice   *)
(* of the nodes that may stop.                                             *)
(***************************************************************************)
EXTENDS BuyFlow, TLAPS

(* The kind of row that a status of an order item is the mark of.          *)
Marks(kind, status) ==
  \/ kind = "MPA_BID"      /\ status = "BIDDED"
  \/ kind = "MPA_CANCEL"   /\ status = "BID_CANCELLED"
  \/ kind = "MPA_REJECT"   /\ status = "BID_REJECTED"
  \/ kind = "MPA_ACCEPT"   /\ status = "AWAITING_ESCROW"
  \/ kind = "MPA_LOCK"     /\ status = "ESCROW_LOCKED"
  \/ kind = "MPA_COMPLETE" /\ status = "ESCROW_COMPLETED"
  \/ kind = "MPA_REFUND"   /\ status = "ESCROW_REFUNDED"
  \/ kind = "MPA_SHIP"     /\ status = "SHIPPING"
  \/ kind = "MPA_RELEASE"  /\ status = "COMPLETE"

(* The inductive invariant: every trace that a step leaves (a status, a    *)
(* row, a message, a command in progress, a message in process) rests on   *)
(* the rows and the transactions of the step before it.                    *)
ItemRests ==
  \A n \in Node : item[n] = "none" \/ \E m \in rows[n] : Marks(m.kind, item[n])
RowsSent ==
  \A n \in Node : \A m \in rows[n] : Sent(m)
SentRests ==
  \A m \in Message : Sent(m) =>
    /\ HasAll(m.from, Needs(m.kind))
    /\ BeforePostTx(m.kind) \X {m.from} \subseteq chain
PendingRests ==
  \A n \in Node : \A kind \in pending[n] :
    /\ n \in Senders(kind)
    /\ HasAll(n, Needs(kind))
    /\ BeforePostTx(kind) \X {n} \subseteq chain
Ready(n, kind) ==
  /\ HasAll(n, Needs(kind))
  /\ n = "seller" /\ kind = "MPA_RELEASE" => Has(n, "MPA_SHIP")
ProcessingRests ==
  \A m \in Message : inbox[m] = "PROCESSING" => Ready(Receiver(m), m.kind)

IInv == /\ TypeOK /\ History
        /\ ItemRests /\ RowsSent /\ SentRests /\ PendingRests /\ ProcessingRests

(* The outputs are reserved from the command on that commits them.         *)
Dead(n) == Has(n, "MPA_CANCEL") \/ Has(n, "MPA_REJECT")
Commits(n) == IF n = "buyer" THEN "MPA_BID" ELSE "MPA_ACCEPT"
PendingReserved ==
  \A n \in Node : Commits(n) \in pending[n] => reserved[n] \/ Dead(n)
RInv == ReservedUntilDead /\ PendingReserved

-----------------------------------------------------------------------------
(* What the pieces that several actions share do to the variables.         *)

(* A message has a kind, a sender who may send that kind and a receiver,   *)
(* who is the other node.                                                  *)
LEMMA MessageFields ==
  \A m \in Message : /\ m.kind \in Action /\ m.from \in Node
                     /\ m.from \in Senders(m.kind)
                     /\ Receiver(m) \in Node /\ Receiver(m) # m.from
BY DEF Message, Receiver, Peer, Node

(* What a post or a crash puts on its way is a message of that node and    *)
(* kind that was not sent before.                                          *)
LEMMA NewMessageFields ==
  ASSUME NEW n, NEW kind, NEW m \in NewMessage(n, kind)
  PROVE  m \in Message /\ m.kind = kind /\ m.from = n /\ ~ Sent(m)
BY DEF NewMessage

(* Every step of the two nodes is one of these: a command under way is of  *)
(* the buy flow, and what it posts is a message.                           *)
LEMMA StepCases ==
  ASSUME TypeOK, [Next]_vars
  PROVE  \/ \E n \in Node, kind \in Action : Command(n, kind) \/ PostFails(n, kind)
         \/ \E n \in Node, kind \in Action, m \in Message :
              Post(n, kind, m) \/ DiesAfterSend(n, kind, m)
         \/ \E n \in Node, m \in Message : Resend(n, m)
         \/ \E m \in Message : Skip(m) \/ BeginProcessing(m) \/ Postpone(m) \/ GiveUp(m)
         \/ \E m \in Message : OnEvent(m)
         \/ UNCHANGED vars
<1>1. CASE UNCHANGED vars
  BY <1>1
<1>2. ASSUME NEW n \in Node, UserStep(n)
      PROVE  \/ \E kind \in Action : Command(n, kind) \/ PostFails(n, kind)
             \/ \E kind \in Action, m \in Message :
                  Post(n, kind, m) \/ DiesAfterSend(n, kind, m)
             \/ \E m \in Message : Resend(n, m)
  <2>1. pending[n] \subseteq Action
    BY DEF TypeOK
  <2>2. \A kind : NewMessage(n, kind) \subseteq Message
    BY DEF NewMessage
  <2> QED
    BY <1>2, <2>1, <2>2 DEF UserStep
<1>3. ASSUME NEW m \in Message, MessageStep(m)
      PROVE  \/ Skip(m) \/ BeginProcessing(m) \/ Postpone(m) \/ GiveUp(m)
             \/ OnEvent(m)
  BY <1>3 DEF MessageStep
<1> QED
  BY <1>1, <1>2, <1>3 DEF Next

(* processMessage() adds the message's row, and a status that it changes   *)
(* becomes the one whose mark that row is.                                 *)
LEMMA ProcessMessageEffect ==
  ASSUME TypeOK, NEW n \in Node, NEW m \in Message, NEW ok \in BOOLEAN,
         ProcessMessage(n, m, ok)
  PROVE  /\ rows' = [rows EXCEPT ![n] = @ \cup {m}]
         /\ item' \in [Node -> OrderItemStatus \cup {"none"}]
         /\ order' \in [Node -> OrderStatus \cup {"none"}]
         /\ reserved' \in [Node -> BOOLEAN]
         /\ \A x \in Node \ {n} : item'[x] = item[x] /\ reserved'[x] = reserved[x]
         /\ item'[n] = item[n] \/ Marks(m.kind, item'[n])
         /\ m.kind \notin {"MPA_CANCEL", "MPA_REJECT"} => reserved' = reserved
<1> USE DEF SetStatuses, TypeOK, OrderItemStatus, OrderStatus, Marks
<1>1. rows' = [rows EXCEPT ![n] = @ \cup {m}]
  BY DEF ProcessMessage
<1>2. CASE m.kind = "MPA_BID" /\ ProcessBid(n)
  BY <1>1, <1>2 DEF ProcessBid
<1>3. CASE m.kind = "MPA_ACCEPT" /\ ProcessAccept(n)
  BY <1>1, <1>3 DEF ProcessAccept
<1>4. CASE m.kind = "MPA_REJECT" /\ ProcessReject(n, ok)
  BY <1>1, <1>4 DEF ProcessReject, UnlockBidOutputs
<1>5. CASE m.kind = "MPA_CANCEL" /\ ProcessCancel(n, ok)
  BY <1>1, <1>5 DEF ProcessCancel, UnlockBidOutputs
<1>6. CASE m.kind = "MPA_LOCK" /\ ProcessLock(n)
  BY <1>1, <1>6 DEF ProcessLock
<1>7. CASE m.kind = "MPA_COMPLETE" /\ ProcessComplete(n)
  BY <1>1, <1>7 DEF ProcessComplete
<1>8. CASE m.kind = "MPA_SHIP" /\ ProcessShip(n)
  BY <1>1, <1>8 DEF ProcessShip
<1>9. CASE m.kind = "MPA_RELEASE" /\ ProcessRelease(n)
  BY <1>1, <1>9 DEF ProcessRelease
<1>10. CASE m.kind = "MPA_REFUND" /\ ProcessRefund(n)
  BY <1>1, <1>10 DEF ProcessRefund
<1> QED
  BY <1>2, <1>3, <1>4, <1>5, <1>6, <1>7, <1>8, <1>9, <1>10 DEF ProcessMessage

(* Handling a received message either leaves the node alone or is one run  *)
(* of processMessage(); its own inbox entry is all that moves there.       *)
LEMMA OnEventEffect ==
  ASSUME TypeOK, NEW m \in Message, OnEvent(m)
  PROVE  /\ inbox[m] = "PROCESSING"
         /\ UNCHANGED <<pending, chain>>
         /\ \E status \in {"PROCESSED", "PROCESSING_FAILED", "WAITING"} :
              inbox' = [inbox EXCEPT ![m] = status]
         /\ \/ NodeUnchanged
            \/ \E ok \in BOOLEAN : ProcessMessage(Receiver(m), m, ok)
<1>1. inbox[m] = "PROCESSING" /\ UNCHANGED <<pending, chain>>
  BY DEF OnEvent
<1>2. CASE Handle(Receiver(m), m)
  BY <1>1, <1>2 DEF Handle, SetInbox
<1>3. CASE HandleShip(Receiver(m), m) /\ ~ Handle(Receiver(m), m)
  BY <1>1, <1>3 DEF HandleShip, SetInbox
<1> QED
  BY <1>2, <1>3 DEF OnEvent

-----------------------------------------------------------------------------
(* Type correctness: every step keeps every variable in its set, whatever  *)
(* the bounds.                                                             *)
LEMMA TypeStep == TypeOK /\ [Next]_vars => TypeOK'
<1> SUFFICES ASSUME TypeOK, [Next]_vars PROVE TypeOK'
  OBVIOUS
<1> USE MessageFields, NewMessageFields
<1>1. ASSUME NEW n \in Node, NEW kind \in Action, Command(n, kind)
      PROVE  TypeOK'
  <2>1. chain' \in SUBSET (Tx \X Node)
    BY <1>1 DEF Command, TypeOK, BeforePostTx
  <2>2. reserved' \in [Node -> BOOLEAN]
    BY <1>1 DEF Command, TypeOK, OmpReserves
  <2>3. pending' \in [Node -> SUBSET Action]
    BY <1>1 DEF Command, TypeOK
  <2> QED
    BY <1>1, <2>1, <2>2, <2>3 DEF Command, TypeOK
<1>2. ASSUME NEW n \in Node, NEW kind \in Action, NEW m \in Message,
             Post(n, kind, m)
      PROVE  TypeOK'
  <2>1. PICK ok \in BOOLEAN : ProcessMessage(n, m, ok)
    BY <1>2 DEF Post
  <2>2. rows' \in [Node -> SUBSET Message]
    BY <2>1, ProcessMessageEffect DEF TypeOK
  <2>3. inbox' \in [Message -> InboxStatus]
    BY <1>2 DEF Post, Send, TypeOK, InboxStatus
  <2>4. pending' \in [Node -> SUBSET Action] /\ chain' = chain
    BY <1>2 DEF Post, TypeOK
  <2> QED
    BY <2>1, <2>2, <2>3, <2>4, ProcessMessageEffect DEF TypeOK
<1>3. ASSUME NEW n \in Node, NEW kind \in Action, PostFails(n, kind)
      PROVE  TypeOK'
  BY <1>3 DEF PostFails, TypeOK
<1>4. ASSUME NEW n \in Node, NEW kind \in Action, NEW m \in Message,
             DiesAfterSend(n, kind, m)
      PROVE  TypeOK'
  <2>1. inbox' \in [Message -> InboxStatus]
    BY <1>4 DEF DiesAfterSend, TypeOK, InboxStatus
  <2>2. pending' \in [Node -> SUBSET Action]
    BY <1>4 DEF DiesAfterSend, TypeOK
  <2> QED
    BY <1>4, <2>1, <2>2 DEF DiesAfterSend, TypeOK
<1>5. ASSUME NEW n \in Node, NEW m \in Message, Resend(n, m)
      PROVE  TypeOK'
  BY <1>5 DEF Resend, Send, TypeOK, InboxStatus
<1>6. ASSUME NEW m \in Message, Skip(m) \/ BeginProcessing(m) \/ Postpone(m) \/ GiveUp(m)
      PROVE  TypeOK'
  <2>1. inbox' \in [Message -> InboxStatus]
    BY <1>6 DEF Skip, BeginProcessing, Postpone, GiveUp, SetInbox, TypeOK, InboxStatus
  <2> QED
    BY <1>6, <2>1 DEF Skip, BeginProcessing, Postpone, GiveUp, NodeUnchanged, TypeOK
<1>7. ASSUME NEW m \in Message, OnEvent(m)
      PROVE  TypeOK'
  <2>1. inbox' \in [Message -> InboxStatus] /\ UNCHANGED <<pending, chain>>
    BY <1>7, OnEventEffect DEF TypeOK, InboxStatus
  <2>2. CASE NodeUnchanged
    BY <2>1, <2>2 DEF NodeUnchanged, TypeOK
  <2>3. ASSUME NEW ok \in BOOLEAN, ProcessMessage(Receiver(m), m, ok)
        PROVE  TypeOK'
    <3>1. rows' \in [Node -> SUBSET Message]
      BY <2>3, ProcessMessageEffect DEF TypeOK
    <3> QED
      BY <2>1, <2>3, <3>1, ProcessMessageEffect DEF TypeOK
  <2> QED
    BY <1>7, <2>2, <2>3, OnEventEffect
<1>8. CASE UNCHANGED vars
  BY <1>8 DEF vars, TypeOK
<1> QED
  BY <1>1, <1>2, <1>3, <1>4, <1>5, <1>6, <1>7, <1>8, StepCases

(* The initial values have the right types.                                *)
LEMMA TypeInit == Init => TypeOK
BY DEF Init, TypeOK, InboxStatus

(* The types of all seven variables, for every value of the constants.     *)
THEOREM TypeCorrect == Spec => []TypeOK
BY TypeInit, TypeStep, PTL DEF Spec

-----------------------------------------------------------------------------
(* Nothing is ever taken back: rows, transactions and sent messages only   *)
(* become more.  With it every part of IInv that spoke of old data stays   *)
(* true, and a step has to answer only for what it adds.                   *)
Grows ==
  /\ \A n \in Node : rows[n] \subseteq rows'[n]
  /\ chain \subseteq chain'
  /\ \A m \in Message : Sent(m) => Sent(m)'

(* No action deletes a row, takes a transaction back or unsends a message. *)
LEMMA StepGrows == TypeOK /\ [Next]_vars => Grows
<1> SUFFICES ASSUME TypeOK, [Next]_vars PROVE Grows
  OBVIOUS
<1> USE MessageFields, NewMessageFields DEF Grows, Sent, TypeOK
<1>1. ASSUME NEW n \in Node, NEW kind \in Action, Command(n, kind)
      PROVE  Grows
  BY <1>1 DEF Command
<1>2. ASSUME NEW n \in Node, NEW kind \in Action, NEW m \in Message,
             Post(n, kind, m)
      PROVE  Grows
  BY <1>2 DEF Post, Send, ProcessMessage
<1>3. ASSUME NEW n \in Node, NEW kind \in Action, PostFails(n, kind)
      PROVE  Grows
  BY <1>3 DEF PostFails
<1>4. ASSUME NEW n \in Node, NEW kind \in Action, NEW m \in Message,
             DiesAfterSend(n, kind, m)
      PROVE  Grows
  BY <1>4 DEF DiesAfterSend
<1>5. ASSUME NEW n \in Node, NEW m \in Message, Resend(n, m)
      PROVE  Grows
  BY <1>5 DEF Resend, Send
<1>6. ASSUME NEW m \in Message, Skip(m) \/ BeginProcessing(m) \/ Postpone(m) \/ GiveUp(m)
      PROVE  Grows
  BY <1>6 DEF Skip, BeginProcessing, Postpone, GiveUp, SetInbox, NodeUnchanged
<1>7. ASSUME NEW m \in Message, OnEvent(m)
      PROVE  Grows
  BY <1>7, OnEventEffect DEF ProcessMessage, NodeUnchanged
<1>8. CASE UNCHANGED vars
  BY <1>8 DEF vars
<1> QED
  BY <1>1, <1>2, <1>3, <1>4, <1>5, <1>6, <1>7, <1>8, StepCases

(* What a step rests on is never taken away: rows and transactions only    *)
(* grow.                                                                   *)
LEMMA RestsStayTrue ==
  ASSUME Grows, NEW n \in Node
  PROVE  /\ \A kind : Has(n, kind) => Has(n, kind)'
         /\ \A kind : HasAll(n, Needs(kind)) => HasAll(n, Needs(kind))'
         /\ \A kind : Ready(n, kind) => Ready(n, kind)'
<1>1. \A kind : Has(n, kind) => Has(n, kind)'
  BY DEF Grows, Has
<1>2. \A kind : HasAll(n, Needs(kind)) => HasAll(n, Needs(kind))'
  BY <1>1 DEF HasAll
<1> QED
  BY <1>1, <1>2 DEF Ready

(* What a step needs to leave behind: History, ItemRests and RowsSent hold *)
(* on when the rows and the statuses stay as they are ...                  *)
LEMMA NoRowAdded ==
  ASSUME IInv, Grows, UNCHANGED <<rows, item>>
  PROVE  History' /\ ItemRests' /\ RowsSent'
<1>1. History' /\ ItemRests'
  BY DEF IInv, History, ItemRests, HasAll, Has, Needs
<1>2. RowsSent'
  BY DEF IInv, TypeOK, RowsSent, Grows
<1> QED
  BY <1>1, <1>2

(* ... and when processMessage() runs at a node that is ready for it.      *)
LEMMA RowAdded ==
  ASSUME IInv, Grows, NEW n \in Node, NEW m \in Message, NEW ok \in BOOLEAN,
         ProcessMessage(n, m, ok), Ready(n, m.kind), Sent(m)'
  PROVE  History' /\ ItemRests' /\ RowsSent'
<1>1. /\ rows' = [rows EXCEPT ![n] = @ \cup {m}]
      /\ \A x \in Node \ {n} : item'[x] = item[x]
      /\ item'[n] = item[n] \/ Marks(m.kind, item'[n])
  BY ProcessMessageEffect DEF IInv
<1>2. \A x \in Node : \A y \in rows'[x] : y \in rows[x] \/ (x = n /\ y = m)
  BY <1>1 DEF IInv, TypeOK
<1>3. History'
  <2> SUFFICES ASSUME NEW x \in Node, NEW y \in rows'[x]
               PROVE  /\ HasAll(x, Needs(y.kind))'
                      /\ x = "seller" /\ y.kind = "MPA_RELEASE" => Has(x, "MPA_SHIP")'
    BY DEF History, HasAll, Needs
  <2>1. CASE y \in rows[x]
    BY <2>1, RestsStayTrue DEF IInv, History
  <2>2. CASE x = n /\ y = m
    BY <2>2, RestsStayTrue DEF Ready
  <2> QED
    BY <1>2, <2>1, <2>2
<1>4. ItemRests'
  <2> SUFFICES ASSUME NEW x \in Node, item'[x] # "none"
               PROVE  \E y \in rows'[x] : Marks(y.kind, item'[x])
    BY DEF ItemRests, Marks
  <2>1. CASE item'[x] = item[x]
    BY <2>1 DEF IInv, ItemRests, Grows
  <2>2. CASE x = n /\ Marks(m.kind, item'[n])
    BY <1>1, <2>2 DEF IInv, TypeOK
  <2> QED
    BY <1>1, <2>1, <2>2
<1>5. RowsSent'
  BY <1>2 DEF IInv, TypeOK, RowsSent, Grows
<1> QED
  BY <1>3, <1>4, <1>5

(* A message that was sent still rests on its sender's rows.               *)
LEMMA OldSentRests ==
  ASSUME IInv, Grows, NEW m \in Message, Sent(m)
  PROVE  /\ HasAll(m.from, Needs(m.kind))'
         /\ BeforePostTx(m.kind) \X {m.from} \subseteq chain'
BY MessageFields, RestsStayTrue DEF IInv, SentRests, Grows

(* A command that was under way keeps what it rests on ...                 *)
LEMMA OldPendingRests ==
  ASSUME IInv, Grows, NEW n \in Node, NEW kind \in pending[n]
  PROVE  /\ n \in Senders(kind)
         /\ HasAll(n, Needs(kind))'
         /\ BeforePostTx(kind) \X {n} \subseteq chain'
BY RestsStayTrue DEF IInv, PendingRests, Grows

(* ... and so does a message that was being processed.                     *)
LEMMA OldProcessingRests ==
  ASSUME IInv, Grows, NEW m \in Message, inbox[m] = "PROCESSING"
  PROVE  Ready(Receiver(m), m.kind)'
BY MessageFields, RestsStayTrue DEF IInv, ProcessingRests

(* A command passes its checks only where the rows its message rests on    *)
(* are; for some of them it is the status that says so.                    *)
LEMMA CommandRests ==
  ASSUME IInv, NEW n \in Node, NEW kind \in Action, n \in Senders(kind), Can(n, kind)
  PROVE  HasAll(n, Needs(kind))
<1>1. \A x \in Node : /\ item[x] = "ESCROW_COMPLETED" => Has(x, "MPA_COMPLETE")
                      /\ item[x] = "SHIPPING" => Has(x, "MPA_SHIP")
  BY DEF IInv, ItemRests, Marks, Has
<1>2. \A x \in Node : Has(x, "MPA_SHIP") => Has(x, "MPA_COMPLETE")
  BY DEF IInv, History, HasAll, Needs, Has, Action
<1>3. kind \in BuyerSends => n = "buyer" \/ kind = "MPA_CANCEL"
  BY DEF Senders, BuyerSends, SellerSends, Node
<1>4. kind \in SellerSends => n = "seller" \/ kind = "MPA_CANCEL"
  BY DEF Senders, BuyerSends, SellerSends, Node
<1>5. CASE kind \in {"MPA_BID", "MPA_ACCEPT", "MPA_REJECT", "MPA_CANCEL"}
  BY <1>4, <1>5 DEF Can, CanAccept, CanReject, CanCancel, HasAll, Needs, SellerSends
<1>6. CASE kind \in {"MPA_LOCK", "MPA_REFUND", "MPA_RELEASE"}
  BY <1>1, <1>2, <1>3, <1>6
  DEF Can, CanLock, CanRefund, CanRelease, HasAll, Needs, BuyerSends, Node
<1>7. CASE kind \in {"MPA_COMPLETE", "MPA_SHIP"}
  BY <1>4, <1>7 DEF Can, CanComplete, CanShip, HasAll, Needs, SellerSends
<1> QED
  BY <1>5, <1>6, <1>7 DEF Action

(* validateSequence() lets a message pass only at a node that is ready.    *)
LEMMA SequenceReady ==
  ASSUME NEW n \in Node, NEW kind \in Action, ValidSequence(n, kind)
  PROVE  Ready(n, kind)
BY DEF ValidSequence, AcceptInSequence, RejectInSequence, CancelInSequence,
       LockInSequence, CompleteInSequence, RefundInSequence, ShipInSequence,
       ReleaseInSequence, Ready, HasAll, Needs

(* A resent copy has the kind and the sender of its original.              *)
LEMMA CopyOfOriginal ==
  \A m \in Message : /\ Original(m) \in Message
                     /\ Original(m).kind = m.kind /\ Original(m).from = m.from
BY BuyFlowAssumption DEF Message, Original

-----------------------------------------------------------------------------
(* The inductive step.  Each action answers for what it adds: a command    *)
(* for what is pending, a post, a crash or a resend for the message that   *)
(* leaves, the processor for the message it begins and the row it makes.   *)
LEMMA IInvStep == IInv /\ [Next]_vars => IInv'
<1> SUFFICES ASSUME IInv, [Next]_vars PROVE IInv'
  OBVIOUS
<1> USE MessageFields, NewMessageFields
<1>t. TypeOK /\ TypeOK' /\ Grows
  BY TypeStep, StepGrows DEF IInv
<1>1. ASSUME NEW n \in Node, NEW kind \in Action, Command(n, kind)
      PROVE  IInv'
  <2>1. UNCHANGED <<inbox, rows, item>>
    BY <1>1 DEF Command
  <2>2. History' /\ ItemRests' /\ RowsSent'
    BY <2>1, <1>t, NoRowAdded
  <2>3. SentRests'
    BY <2>1, <1>t, OldSentRests DEF SentRests, Sent, HasAll, Has
  <2>4. PendingRests'
    <3> SUFFICES ASSUME NEW x \in Node, NEW k \in pending'[x]
                 PROVE  /\ x \in Senders(k) /\ HasAll(x, Needs(k))'
                        /\ BeforePostTx(k) \X {x} \subseteq chain'
      BY DEF PendingRests, HasAll, Has
    <3>1. CASE k \in pending[x]
      BY <3>1, <1>t, OldPendingRests
    <3>2. CASE x = n /\ k = kind
      <4>1. HasAll(n, Needs(kind))
        BY <1>1, CommandRests DEF Command
      <4> QED
        BY <1>1, <3>2, <4>1, <1>t, RestsStayTrue DEF Command
    <3> QED
      BY <1>1, <1>t, <3>1, <3>2 DEF Command, TypeOK
  <2>5. ProcessingRests'
    BY <2>1, <1>t, OldProcessingRests DEF ProcessingRests, Ready, HasAll, Has
  <2> QED
    BY <1>t, <2>2, <2>3, <2>4, <2>5 DEF IInv
<1>2. ASSUME NEW n \in Node, NEW kind \in Action, NEW m \in Message,
             Post(n, kind, m)
      PROVE  IInv'
  <2>1. PICK ok \in BOOLEAN : ProcessMessage(n, m, ok)
    BY <1>2 DEF Post
  <2>2. /\ m.kind = kind /\ m.from = n /\ kind \in pending[n]
        /\ inbox' = [inbox EXCEPT ![m] = "in_flight"]
        /\ pending' = [pending EXCEPT ![n] = @ \ {kind}]
    BY <1>2 DEF Post, Send
  <2>3. Sent(m)'
    BY <2>2, <1>t DEF Sent, TypeOK
  <2>4. /\ HasAll(n, Needs(kind))
        /\ n \in Senders(kind)
        /\ BeforePostTx(kind) \X {n} \subseteq chain'
    BY <2>2, <1>t DEF IInv, PendingRests, Grows
  <2>5. Ready(n, kind)
    BY <2>4 DEF Ready, Senders, BuyerSends, SellerSends
  <2>6. History' /\ ItemRests' /\ RowsSent'
    BY <2>1, <2>2, <2>3, <2>5, <1>t, RowAdded
  <2>7. SentRests'
    <3> SUFFICES ASSUME NEW y \in Message, Sent(y)'
                 PROVE  /\ HasAll(y.from, Needs(y.kind))'
                        /\ BeforePostTx(y.kind) \X {y.from} \subseteq chain'
      BY DEF SentRests
    <3>1. CASE Sent(y)
      BY <3>1, <1>t, OldSentRests
    <3>2. CASE y = m
      BY <3>2, <2>2, <2>4, <1>t, RestsStayTrue
    <3> QED
      BY <3>1, <3>2, <2>2, <1>t DEF Sent, TypeOK
  <2>8. PendingRests'
    BY <2>2, <1>t, OldPendingRests DEF PendingRests, TypeOK
  <2>9. ProcessingRests'
    BY <2>2, <1>t, OldProcessingRests DEF ProcessingRests, TypeOK
  <2> QED
    BY <1>t, <2>6, <2>7, <2>8, <2>9 DEF IInv
<1>3. ASSUME NEW n \in Node, NEW kind \in Action, PostFails(n, kind)
      PROVE  IInv'
  <2>1. /\ UNCHANGED <<inbox, rows, item>>
        /\ pending' = [pending EXCEPT ![n] = @ \ {kind}]
    BY <1>3 DEF PostFails
  <2>2. History' /\ ItemRests' /\ RowsSent'
    BY <2>1, <1>t, NoRowAdded
  <2>3. SentRests'
    BY <2>1, <1>t, OldSentRests DEF SentRests, Sent
  <2>4. PendingRests'
    BY <2>1, <1>t, OldPendingRests DEF PendingRests, TypeOK
  <2>5. ProcessingRests'
    BY <2>1, <1>t, OldProcessingRests DEF ProcessingRests
  <2> QED
    BY <1>t, <2>2, <2>3, <2>4, <2>5 DEF IInv
<1>4. ASSUME NEW n \in Node, NEW kind \in Action, NEW m \in Message,
             DiesAfterSend(n, kind, m)
      PROVE  IInv'
  <2>1. /\ UNCHANGED <<rows, item, chain>>
        /\ m.kind = kind /\ m.from = n /\ kind \in pending[n]
        /\ pending' = [pending EXCEPT ![n] = {}]
        /\ inbox' = [x \in Message |->
                       IF x = m THEN "in_flight"
                       ELSE IF inbox[x] = "PROCESSING" /\ Receiver(x) = n
                            THEN "ABANDONED" ELSE inbox[x]]
    BY <1>4 DEF DiesAfterSend
  <2>2. History' /\ ItemRests' /\ RowsSent'
    BY <2>1, <1>t, NoRowAdded
  <2>3. SentRests'
    <3> SUFFICES ASSUME NEW y \in Message, Sent(y)'
                 PROVE  /\ HasAll(y.from, Needs(y.kind))'
                        /\ BeforePostTx(y.kind) \X {y.from} \subseteq chain'
      BY DEF SentRests
    <3>1. CASE Sent(y)
      BY <3>1, <1>t, OldSentRests
    <3>2. CASE y = m
      BY <3>2, <2>1, <1>t, OldPendingRests
    <3> QED
      BY <3>1, <3>2, <2>1 DEF Sent
  <2>4. PendingRests'
    BY <2>1, <1>t, OldPendingRests DEF PendingRests, TypeOK
  <2>5. ProcessingRests'
    BY <2>1, <1>t, OldProcessingRests DEF ProcessingRests
  <2> QED
    BY <1>t, <2>2, <2>3, <2>4, <2>5 DEF IInv
<1>5. ASSUME NEW n \in Node, NEW m \in Message, Resend(n, m)
      PROVE  IInv'
  <2>1. /\ UNCHANGED <<rows, item, pending, chain>>
        /\ Original(m) \in rows[n]
        /\ inbox' = [inbox EXCEPT ![m] = "in_flight"]
    BY <1>5 DEF Resend, Send
  <2>2. History' /\ ItemRests' /\ RowsSent'
    BY <2>1, <1>t, NoRowAdded
  <2>3. SentRests'
    <3> SUFFICES ASSUME NEW y \in Message, Sent(y)'
                 PROVE  /\ HasAll(y.from, Needs(y.kind))'
                        /\ BeforePostTx(y.kind) \X {y.from} \subseteq chain'
      BY DEF SentRests
    <3>1. CASE Sent(y)
      BY <3>1, <1>t, OldSentRests
    <3>2. CASE y = m
      <4>1. Sent(Original(m))
        BY <2>1 DEF IInv, RowsSent
      <4> QED
        BY <3>2, <4>1, <1>t, CopyOfOriginal, OldSentRests
    <3> QED
      BY <3>1, <3>2, <2>1, <1>t DEF Sent, TypeOK
  <2>4. PendingRests'
    BY <2>1, <1>t, OldPendingRests DEF PendingRests
  <2>5. ProcessingRests'
    BY <2>1, <1>t, OldProcessingRests DEF ProcessingRests, TypeOK
  <2> QED
    BY <1>t, <2>2, <2>3, <2>4, <2>5 DEF IInv
<1>6. ASSUME NEW m \in Message, Skip(m) \/ BeginProcessing(m) \/ Postpone(m) \/ GiveUp(m)
      PROVE  IInv'
  <2>1. /\ UNCHANGED <<rows, item, pending, chain>>
        /\ inbox[m] \in {"in_flight", "WAITING"}
        /\ \E status \in InboxStatus :
             /\ inbox' = [inbox EXCEPT ![m] = status]
             /\ status = "PROCESSING" => ValidSequence(Receiver(m), m.kind)
    BY <1>6 DEF Skip, BeginProcessing, Postpone, GiveUp, Due, SetInbox,
                NodeUnchanged, InboxStatus
  <2>2. History' /\ ItemRests' /\ RowsSent'
    BY <2>1, <1>t, NoRowAdded
  <2>3. SentRests'
    BY <2>1, <1>t, OldSentRests DEF SentRests, Sent, TypeOK
  <2>4. PendingRests'
    BY <2>1, <1>t, OldPendingRests DEF PendingRests
  <2>5. ProcessingRests'
    <3> SUFFICES ASSUME NEW y \in Message, inbox'[y] = "PROCESSING"
                 PROVE  Ready(Receiver(y), y.kind)'
      BY DEF ProcessingRests, Receiver
    <3>1. CASE inbox[y] = "PROCESSING"
      BY <3>1, <1>t, OldProcessingRests
    <3>2. CASE y = m /\ ValidSequence(Receiver(m), m.kind)
      BY <3>2, <1>t, SequenceReady, RestsStayTrue DEF Receiver
    <3> QED
      BY <2>1, <3>1, <3>2, <1>t DEF TypeOK
  <2> QED
    BY <1>t, <2>2, <2>3, <2>4, <2>5 DEF IInv
<1>7. ASSUME NEW m \in Message, OnEvent(m)
      PROVE  IInv'
  <2>1. /\ inbox[m] = "PROCESSING"
        /\ UNCHANGED <<pending, chain>>
        /\ \E status \in {"PROCESSED", "PROCESSING_FAILED", "WAITING"} :
             inbox' = [inbox EXCEPT ![m] = status]
    BY <1>7, <1>t, OnEventEffect
  <2>2. Ready(Receiver(m), m.kind) /\ Sent(m)'
    BY <2>1, <1>t DEF IInv, ProcessingRests, Sent, Grows
  <2>3. History' /\ ItemRests' /\ RowsSent'
    <3>1. CASE NodeUnchanged
      BY <3>1, <1>t, NoRowAdded DEF NodeUnchanged
    <3>2. ASSUME NEW ok \in BOOLEAN, ProcessMessage(Receiver(m), m, ok)
          PROVE  History' /\ ItemRests' /\ RowsSent'
      BY <3>2, <2>2, <1>t, RowAdded
    <3> QED
      BY <3>1, <3>2, <1>7, <1>t, OnEventEffect
  <2>4. SentRests'
    BY <2>1, <1>t, OldSentRests DEF SentRests, Sent, TypeOK
  <2>5. PendingRests'
    BY <2>1, <1>t, OldPendingRests DEF PendingRests
  <2>6. ProcessingRests'
    BY <2>1, <1>t, OldProcessingRests DEF ProcessingRests, TypeOK
  <2> QED
    BY <1>t, <2>3, <2>4, <2>5, <2>6 DEF IInv
<1>8. CASE UNCHANGED vars
  BY <1>8, <1>t DEF vars, IInv, History, ItemRests, RowsSent, SentRests,
                 PendingRests, ProcessingRests, Ready, HasAll, Has, Sent
<1> QED
  BY <1>1, <1>2, <1>3, <1>4, <1>5, <1>6, <1>7, <1>8, <1>t, StepCases

(* Nothing was sent, stored or begun at the start, so nothing has to rest  *)
(* on anything.                                                            *)
LEMMA IInvInit == Init => IInv
<1> SUFFICES ASSUME Init PROVE IInv
  OBVIOUS
<1>1. TypeOK
  BY TypeInit
<1>2. History /\ ItemRests /\ RowsSent /\ PendingRests
  BY DEF Init, History, ItemRests, RowsSent, PendingRests
<1>3. SentRests /\ ProcessingRests
  BY DEF Init, SentRests, ProcessingRests, Sent
<1> QED
  BY <1>1, <1>2, <1>3 DEF IInv

(* In every reachable state everything rests on the step before it: what   *)
(* validators, commands and processMessage() achieve together.             *)
THEOREM Invariance == Spec => []IInv
BY IInvInit, IInvStep, PTL DEF Spec

(* No sequence of lost, late, reordered, repeated or resent messages makes *)
(* a gap in the child Bids of either node.                                 *)
THEOREM HistoryHolds == Spec => []History
<1>1. IInv => History
  BY DEF IInv
<1> QED
  BY <1>1, Invariance, PTL

(* A row at one node proves the step before it at the node it came from.   *)
THEOREM HandshakeHolds == Spec => []Handshake
<1>1. IInv => Handshake
  BY DEF IInv, TypeOK, RowsSent, SentRests, Handshake
<1> QED
  BY <1>1, Invariance, PTL

(* A status is backed by its transaction: the status rests on a row, the   *)
(* row on a message, and the message on what beforePost() broadcast.       *)
THEOREM EscrowBackedHolds == Spec => []EscrowBacked
<1>1. IInv => EscrowBacked
  <2> SUFFICES ASSUME IInv PROVE EscrowBacked
    OBVIOUS
  <2>1. ASSUME NEW n \in Node, NEW kind, NEW sender \in Node,
               Has(n, kind), Senders(kind) = {sender}
        PROVE  BeforePostTx(kind) \X {sender} \subseteq chain
    <3>1. PICK m \in rows[n] : m.kind = kind
      BY <2>1 DEF Has
    <3>2. m \in Message /\ Sent(m)
      BY <3>1 DEF IInv, TypeOK, RowsSent
    <3> QED
      BY <2>1, <3>1, <3>2, MessageFields DEF IInv, SentRests
  <2>2. \A n \in Node :
          /\ item[n] = "ESCROW_LOCKED" => Has(n, "MPA_LOCK")
          /\ item[n] = "ESCROW_COMPLETED" => Has(n, "MPA_COMPLETE")
          /\ item[n] = "SHIPPING" => Has(n, "MPA_SHIP")
          /\ item[n] = "COMPLETE" => Has(n, "MPA_RELEASE")
          /\ item[n] = "ESCROW_REFUNDED" => Has(n, "MPA_REFUND")
    BY DEF IInv, ItemRests, Marks, Has
  <2>3. \A n \in Node : Has(n, "MPA_SHIP") \/ Has(n, "MPA_RELEASE") => Has(n, "MPA_COMPLETE")
    BY DEF IInv, History, HasAll, Needs, Has, Action
  <2>4. /\ Senders("MPA_LOCK") = {"buyer"} /\ Senders("MPA_RELEASE") = {"buyer"}
        /\ Senders("MPA_REFUND") = {"buyer"} /\ Senders("MPA_COMPLETE") = {"seller"}
    BY DEF Senders, BuyerSends, SellerSends, Node
  <2>5. /\ CompleteTx \subseteq BeforePostTx("MPA_COMPLETE")
        /\ ReleaseTx \subseteq BeforePostTx("MPA_RELEASE")
        /\ RefundTx \subseteq BeforePostTx("MPA_REFUND")
    BY DEF BeforePostTx, CompleteTx, ReleaseTx, RefundTx, Tx
  <2> QED
    BY <2>1, <2>2, <2>3, <2>4, <2>5
    DEF EscrowBacked, CompleteTx, ReleaseTx, RefundTx, Node
<1> QED
  BY <1>1, Invariance, PTL

-----------------------------------------------------------------------------
(* One run of processMessage() frees outputs only together with the row    *)
(* that says why, and the row that commits a node's own outputs is only    *)
(* ever made by the node that sends it.                                    *)
LEMMA ProcessKeepsReserved ==
  ASSUME TypeOK, RInv, Grows, NEW n \in Node, NEW m \in Message, NEW ok \in BOOLEAN,
         ProcessMessage(n, m, ok),
         m.kind = Commits(n) => reserved[n] \/ Dead(n)
  PROVE  /\ ReservedUntilDead'
         /\ \A x \in Node : reserved[x] \/ Dead(x) => reserved'[x] \/ Dead(x)'
<1>1. /\ rows' = [rows EXCEPT ![n] = @ \cup {m}]
      /\ reserved' \in [Node -> BOOLEAN]
      /\ \A x \in Node \ {n} : reserved'[x] = reserved[x]
      /\ m.kind \notin {"MPA_CANCEL", "MPA_REJECT"} => reserved' = reserved
  BY ProcessMessageEffect
<1>2. \A x \in Node : Dead(x) => Dead(x)'
  BY RestsStayTrue DEF Dead
<1>3. m.kind \in {"MPA_CANCEL", "MPA_REJECT"} => Dead(n)'
  BY <1>1 DEF Dead, Has, TypeOK
<1>4. \A x \in Node : reserved[x] \/ Dead(x) => reserved'[x] \/ Dead(x)'
  BY <1>1, <1>2, <1>3
<1>5. \A x \in Node : Has(x, Commits(x))' => Has(x, Commits(x)) \/ (x = n /\ m.kind = Commits(n))
  BY <1>1 DEF Has, TypeOK, Commits
<1>6. ReservedUntilDead'
  BY <1>4, <1>5 DEF RInv, ReservedUntilDead, Dead, Commits
<1> QED
  BY <1>4, <1>6

(* Every action keeps the reservations: only ProcessMessage() and Command  *)
(* touch them.                                                             *)
LEMMA RInvStep == TypeOK /\ RInv /\ [Next]_vars => RInv'
<1> SUFFICES ASSUME TypeOK, RInv, [Next]_vars PROVE RInv'
  OBVIOUS
<1> USE MessageFields, NewMessageFields
<1>t. Grows
  BY StepGrows
<1>0. ASSUME UNCHANGED <<rows, reserved>>, \A x \in Node : pending'[x] \subseteq pending[x]
      PROVE  RInv'
  BY <1>0 DEF RInv, ReservedUntilDead, PendingReserved, Dead, Has, Commits
<1>1. ASSUME NEW n \in Node, NEW kind \in Action, Command(n, kind)
      PROVE  RInv'
  <2>1. /\ UNCHANGED rows
        /\ \A x \in Node : reserved[x] => reserved'[x]
        /\ \A x \in Node : Commits(x) \in pending'[x] => Commits(x) \in pending[x] \/ reserved'[x]
    BY <1>1 DEF Command, TypeOK, OmpReserves, Commits
  <2> QED
    BY <2>1 DEF RInv, ReservedUntilDead, PendingReserved, Dead, Has, Commits
<1>2. ASSUME NEW n \in Node, NEW kind \in Action, NEW m \in Message,
             Post(n, kind, m)
      PROVE  RInv'
  <2>1. PICK ok \in BOOLEAN : ProcessMessage(n, m, ok)
    BY <1>2 DEF Post
  <2>2. m.kind = kind /\ kind \in pending[n] /\ pending' = [pending EXCEPT ![n] = @ \ {kind}]
    BY <1>2 DEF Post
  <2>3. m.kind = Commits(n) => reserved[n] \/ Dead(n)
    BY <2>2 DEF RInv, PendingReserved
  <2>4. /\ ReservedUntilDead'
        /\ \A x \in Node : reserved[x] \/ Dead(x) => reserved'[x] \/ Dead(x)'
    BY <2>1, <2>3, <1>t, ProcessKeepsReserved
  <2>5. PendingReserved'
    BY <2>2, <2>4 DEF RInv, PendingReserved, TypeOK, Commits, Dead, Has
  <2> QED
    BY <2>4, <2>5 DEF RInv
<1>3. ASSUME NEW n \in Node, NEW kind \in Action, PostFails(n, kind)
      PROVE  RInv'
  BY <1>3, <1>0 DEF PostFails, TypeOK
<1>4. ASSUME NEW n \in Node, NEW kind \in Action, NEW m \in Message,
             DiesAfterSend(n, kind, m)
      PROVE  RInv'
  BY <1>4, <1>0 DEF DiesAfterSend, TypeOK
<1>5. ASSUME NEW n \in Node, NEW m \in Message, Resend(n, m)
      PROVE  RInv'
  BY <1>5, <1>0 DEF Resend
<1>6. ASSUME NEW m \in Message, Skip(m) \/ BeginProcessing(m) \/ Postpone(m) \/ GiveUp(m)
      PROVE  RInv'
  BY <1>6, <1>0 DEF Skip, BeginProcessing, Postpone, GiveUp, NodeUnchanged
<1>7. ASSUME NEW m \in Message, OnEvent(m)
      PROVE  RInv'
  <2>1. UNCHANGED pending
    BY <1>7, OnEventEffect
  <2>2. CASE NodeUnchanged
    BY <2>1, <2>2, <1>0 DEF NodeUnchanged
  <2>3. ASSUME NEW ok \in BOOLEAN, ProcessMessage(Receiver(m), m, ok)
        PROVE  RInv'
    <3>1. m.kind # Commits(Receiver(m))
      BY DEF Commits, Receiver, Peer, Senders, BuyerSends, SellerSends, Node
    <3>2. /\ ReservedUntilDead'
          /\ \A x \in Node : reserved[x] \/ Dead(x) => reserved'[x] \/ Dead(x)'
      BY <2>3, <3>1, <1>t, ProcessKeepsReserved
    <3>3. PendingReserved'
      BY <2>1, <3>2 DEF RInv, PendingReserved, Commits, Dead, Has
    <3> QED
      BY <3>2, <3>3 DEF RInv
  <2> QED
    BY <1>7, <2>2, <2>3, OnEventEffect
<1>8. CASE UNCHANGED vars
  BY <1>8, <1>0 DEF vars
<1> QED
  BY <1>1, <1>2, <1>3, <1>4, <1>5, <1>6, <1>7, <1>8, StepCases

(* The outputs a party committed to the order stay locked in its wallet    *)
(* until that party has the cancellation or the rejection on record.       *)
THEOREM ReservedHolds == Spec => []ReservedUntilDead
<1>1. Init => RInv
  BY DEF Init, RInv, ReservedUntilDead, PendingReserved, Has
<1>2. RInv => ReservedUntilDead
  BY DEF RInv
<1> QED
  BY <1>1, <1>2, TypeCorrect, RInvStep, PTL DEF Spec
=============================================================================
