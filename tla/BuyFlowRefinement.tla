------------------------- MODULE BuyFlowRefinement -------------------------
(***************************************************************************)
(* BuyFlow implements OrderLifecycle, proved for every escrow type and     *)
(* every bound on messages and resends, as long as nobody cancels,         *)
(* rejects, refunds, repeats a step, resends a message whose handler looks *)
(* at nothing, or stops between sending a message and saving it.           *)
(***************************************************************************)
EXTENDS BuyFlowProofs

HappyKinds == {"MPA_BID", "MPA_ACCEPT", "MPA_LOCK", "MPA_COMPLETE",
               "MPA_SHIP", "MPA_RELEASE"}

(* The flow that OrderLifecycle is about.  A second MPA_ACCEPT or          *)
(* MPA_COMPLETE would set the statuses back whatever they are, and a node  *)
(* that stops after sendMessage() lets its peer overtake it.               *)
Uncancelled ==
  /\ Allowed \subseteq HappyKinds
  /\ Resendable \subseteq {"MPA_BID", "MPA_LOCK", "MPA_SHIP", "MPA_RELEASE"}
  /\ MaxRepeats = 1
  /\ Mortal = {}

(* What such a flow adds to IInv.  Nothing but its six kinds is sent or    *)
(* about to be, each once but for copies of what may be resent ...         *)
OnlyHappy ==
  /\ \A n \in Node : pending[n] \subseteq HappyKinds
  /\ \A m \in Message : Sent(m) => m.kind \in HappyKinds
CopiesFollow ==
  \A m \in Message : Sent(m) =>
    Sent(Original(m)) /\ (m = Original(m) \/ m.kind \in Resendable)

(* ... the sender has a row for whatever it sent ...                       *)
SenderHas ==
  \A m \in Message : Sent(m) => Has(m.from, m.kind)

(* ... and the receiver for what it has processed, but for a shipment that *)
(* its release has overtaken.                                              *)
RowDone ==
  \A m \in Message : m \in rows[Receiver(m)] => inbox[m] = "PROCESSED"
Accounted ==
  \A m \in Message :
    /\ inbox[m] = "SKIPPED" => m # Original(m)
    /\ inbox[m] = "PROCESSED" =>
         \/ Has(Receiver(m), m.kind)
         \/ m.kind = "MPA_SHIP" /\ Has(Receiver(m), "MPA_RELEASE")

(* The rows of a node and the stage that its OrderItem shows tell the same *)
(* story, and so does its Order.                                           *)
RowsFit(n) ==
  /\ Stage(n) \in 0 .. 6
  /\ Has(n, "MPA_BID") <=> Stage(n) >= 1
  /\ Has(n, "MPA_ACCEPT") <=> Stage(n) >= 2
  /\ Has(n, "MPA_LOCK") <=> Stage(n) >= 3
  /\ Has(n, "MPA_COMPLETE") <=> Stage(n) >= 4
  /\ Has(n, "MPA_SHIP") => Stage(n) >= 5
  /\ Stage(n) >= 5 => Has(n, "MPA_SHIP") \/ (n = "buyer" /\ Stage(n) = 6)
  /\ Has(n, "MPA_RELEASE") <=> Stage(n) = 6
OrderFits(n) ==
  order[n] = CASE Stage(n) = 0 -> "none"
               [] Stage(n) = 1 -> IF n = "buyer" THEN "SENT" ELSE "RECEIVED"
               [] Stage(n) = 5 -> "SHIPPING"
               [] Stage(n) = 6 -> "COMPLETE"
               [] OTHER -> "PROCESSING"

StagesFit == \A n \in Node : RowsFit(n) /\ OrderFits(n)

LInv == /\ OnlyHappy /\ CopiesFollow /\ SenderHas
        /\ RowDone /\ Accounted /\ StagesFit

-----------------------------------------------------------------------------
(* What one run of processMessage() does to the stage of its node, and     *)
(* that the other node and the fit of the order are not disturbed.         *)
LEMMA StageEffect ==
  ASSUME TypeOK, NEW n \in Node, NEW m \in Message, NEW ok \in BOOLEAN,
         ProcessMessage(n, m, ok), m.kind \in HappyKinds, OrderFits(n)
  PROVE  /\ m.kind = "MPA_BID" =>
              Stage(n)' = IF Has(n, "MPA_BID") THEN Stage(n) ELSE 1
         /\ m.kind = "MPA_ACCEPT" => Stage(n)' = 2
         /\ m.kind = "MPA_LOCK" => Stage(n)' = IF Stage(n) = 2 THEN 3 ELSE Stage(n)
         /\ m.kind = "MPA_COMPLETE" => Stage(n)' = 4
         /\ m.kind = "MPA_SHIP" => Stage(n)' = 5
         /\ m.kind = "MPA_RELEASE" => Stage(n)' = 6
         /\ OrderFits(n)'
         /\ \A x \in Node \ {n} : item'[x] = item[x] /\ order'[x] = order[x]
<1>0. /\ item \in [Node -> OrderItemStatus \cup {"none"}]
      /\ order \in [Node -> OrderStatus \cup {"none"}]
  BY DEF TypeOK
<1> USE DEF SetStatuses, Stage, OrderFits
<1>1. CASE m.kind = "MPA_BID"
  BY <1>0, <1>1 DEF ProcessMessage, ProcessBid
<1>2. CASE m.kind = "MPA_ACCEPT"
  BY <1>0, <1>2 DEF ProcessMessage, ProcessAccept
<1>3. CASE m.kind = "MPA_LOCK"
  BY <1>0, <1>3 DEF ProcessMessage, ProcessLock, OrderItemStatus
<1>4. CASE m.kind = "MPA_COMPLETE"
  BY <1>0, <1>4 DEF ProcessMessage, ProcessComplete
<1>5. CASE m.kind = "MPA_SHIP"
  BY <1>0, <1>5 DEF ProcessMessage, ProcessShip
<1>6. CASE m.kind = "MPA_RELEASE"
  BY <1>0, <1>6 DEF ProcessMessage, ProcessRelease
<1> QED
  BY <1>1, <1>2, <1>3, <1>4, <1>5, <1>6 DEF HappyKinds

(* Where a node must be for the next row to fit.                           *)
Fits(n, kind) ==
  \/ kind = "MPA_BID"
  \/ kind = "MPA_ACCEPT" /\ Stage(n) = 1
  \/ kind = "MPA_LOCK" /\ Stage(n) >= 2
  \/ kind = "MPA_COMPLETE" /\ Stage(n) = 3
  \/ kind = "MPA_SHIP" /\ Stage(n) = 4
  \/ kind = "MPA_RELEASE" /\ Stage(n) >= (IF n = "buyer" THEN 4 ELSE 5)

(* A node that processes a message where it fits gets one stage further,   *)
(* or stays where it is, and its rows tell the same story as before.       *)
LEMMA ProcessStage ==
  ASSUME TypeOK, StagesFit, NEW n \in Node, NEW m \in Message, NEW ok \in BOOLEAN,
         ProcessMessage(n, m, ok), m.kind \in HappyKinds, Fits(n, m.kind)
  PROVE  /\ StagesFit'
         /\ \A x \in Node \ {n} : Stage(x)' = Stage(x)
         /\ \A x \in Node : \A kind :
              Has(x, kind)' <=> Has(x, kind) \/ (x = n /\ kind = m.kind)
<1>1. \A x \in Node : \A kind :
        Has(x, kind)' <=> Has(x, kind) \/ (x = n /\ kind = m.kind)
  <2>1. rows' = [rows EXCEPT ![n] = @ \cup {m}] /\ rows \in [Node -> SUBSET Message]
    BY DEF ProcessMessage, TypeOK
  <2> QED
    BY <2>1 DEF Has
<1>2. RowsFit(n) /\ OrderFits(n)
  BY DEF StagesFit
<1>3. \A x \in Node \ {n} : item'[x] = item[x] /\ order'[x] = order[x]
  BY <1>2, StageEffect
<1>4. \A x \in Node \ {n} : Stage(x)' = Stage(x)
  BY <1>3 DEF Stage
<1>5. \A x \in Node \ {n} : RowsFit(x)' /\ OrderFits(x)'
  <2> SUFFICES ASSUME NEW x \in Node, x # n PROVE RowsFit(x)' /\ OrderFits(x)'
    OBVIOUS
  <2>1. RowsFit(x) /\ OrderFits(x) /\ \A kind : Has(x, kind)' <=> Has(x, kind)
    BY <1>1 DEF StagesFit
  <2>2. Stage(x)' = Stage(x) /\ order'[x] = order[x]
    BY <1>3, <1>4
  <2> QED
    BY <2>1, <2>2 DEF RowsFit, OrderFits
<1>6. RowsFit(n)'
  <2> USE <1>1, <1>2, StageEffect DEF RowsFit, Fits
  <2>1. CASE m.kind = "MPA_BID"
    BY <2>1
  <2>2. CASE m.kind = "MPA_ACCEPT"
    BY <2>2
  <2>3. CASE m.kind = "MPA_LOCK"
    BY <2>3
  <2>4. CASE m.kind = "MPA_COMPLETE"
    BY <2>4
  <2>5. CASE m.kind = "MPA_SHIP"
    BY <2>5
  <2>6. CASE m.kind = "MPA_RELEASE"
    BY <2>6
  <2> QED
    BY <2>1, <2>2, <2>3, <2>4, <2>5, <2>6 DEF HappyKinds
<1>7. OrderFits(n)'
  BY <1>2, StageEffect
<1> QED
  BY <1>1, <1>4, <1>5, <1>6, <1>7 DEF StagesFit

(* A message never precedes its sender: what either node has a row for,    *)
(* the node that sends it has, too.                                        *)
LEMMA SenderFirst ==
  ASSUME IInv, SenderHas, NEW n \in Node, NEW p \in Node, NEW kind, Has(n, kind),
         Senders(kind) = {p}
  PROVE  /\ Has(p, kind)
         /\ \E m \in rows[n] : m \in Message /\ m.kind = kind /\ m.from = p /\ Sent(m)
<1>1. PICK m \in rows[n] : m.kind = kind
  BY DEF Has
<1>2. m \in Message /\ Sent(m)
  BY <1>1 DEF IInv, TypeOK, RowsSent
<1>3. m.from = p
  BY <1>1, <1>2, MessageFields
<1> QED
  BY <1>1, <1>2, <1>3 DEF SenderHas

(* Who sends what in this flow.                                            *)
LEMMA HappySenders ==
  /\ \A kind \in {"MPA_BID", "MPA_LOCK", "MPA_RELEASE"} : Senders(kind) = {"buyer"}
  /\ \A kind \in {"MPA_ACCEPT", "MPA_COMPLETE", "MPA_SHIP"} : Senders(kind) = {"seller"}
  /\ Peer("buyer") = "seller" /\ Peer("seller") = "buyer"
  /\ Node = {"buyer", "seller"}
BY DEF Senders, BuyerSends, SellerSends, Peer, Node

(* The party whose move a stage is was there first.                        *)
LEMMA Together ==
  ASSUME IInv, LInv
  PROVE  /\ Stage("buyer") \in 0 .. 6 /\ Stage("seller") \in 0 .. 6
         /\ Stage("seller") >= 1 => Stage("buyer") >= 1
         /\ Stage("buyer") >= 2 => Stage("seller") >= 2
         /\ Stage("seller") >= 3 => Stage("buyer") >= 3
         /\ Stage("buyer") >= 4 => Stage("seller") >= 4
         /\ Stage("buyer") = 5 => Stage("seller") >= 5
         /\ Stage("seller") = 6 => Stage("buyer") = 6
<1>1. /\ Has("seller", "MPA_BID") => Has("buyer", "MPA_BID")
      /\ Has("buyer", "MPA_ACCEPT") => Has("seller", "MPA_ACCEPT")
      /\ Has("seller", "MPA_LOCK") => Has("buyer", "MPA_LOCK")
      /\ Has("buyer", "MPA_COMPLETE") => Has("seller", "MPA_COMPLETE")
      /\ Has("buyer", "MPA_SHIP") => Has("seller", "MPA_SHIP")
      /\ Has("seller", "MPA_RELEASE") => Has("buyer", "MPA_RELEASE")
  BY SenderFirst, HappySenders DEF LInv
<1>2. RowsFit("buyer") /\ RowsFit("seller")
  BY HappySenders DEF LInv, StagesFit
<1> QED
  BY <1>1, <1>2 DEF RowsFit

(* With one message of a kind per node, whatever was sent of a kind is a   *)
(* copy of one and the same message.                                       *)
LEMMA OneOriginal ==
  ASSUME MaxRepeats = 1, NEW x \in Message, NEW y \in Message,
         x.kind = y.kind, x.from = y.from
  PROVE  /\ Original(x) = Original(y)
         /\ x.copy = 0 => Original(x) = x
<1>1. /\ x \in [kind : Action, from : Node, nth : 1 .. 1, copy : 0 .. MaxResends]
      /\ y \in [kind : Action, from : Node, nth : 1 .. 1, copy : 0 .. MaxResends]
  BY DEF Message
<1>2. x.nth = y.nth
  BY <1>1
<1>3. Original(x) = [kind |-> x.kind, from |-> x.from, nth |-> x.nth, copy |-> 0]
  BY <1>1 DEF Original
<1>4. Original(y) = [kind |-> y.kind, from |-> y.from, nth |-> y.nth, copy |-> 0]
  BY <1>1 DEF Original
<1>5. x.copy = 0 => Original(x) = x
  BY <1>1 DEF Original
<1> QED
  BY <1>2, <1>3, <1>4, <1>5

(* The node that is about to send a message has made all moves before it,  *)
(* not this one, and the peer is not ahead of it either.                   *)
LEMMA PostFits ==
  ASSUME IInv, LInv, Uncancelled, NEW n \in Node, NEW kind \in pending[n],
         NEW m \in NewMessage(n, kind)
  PROVE  /\ kind \in HappyKinds
         /\ Senders(kind) = {n}
         /\ ~ Has(n, kind)
         /\ Fits(n, kind)
<1>1. kind \in HappyKinds
  BY DEF LInv, OnlyHappy
<1>2. Senders(kind) = {n}
  BY <1>1, HappySenders DEF HappyKinds, IInv, PendingRests
<1>3. ~ Has(n, kind)
  <2> SUFFICES ASSUME Has(n, kind) PROVE FALSE
    OBVIOUS
  <2>1. PICK y \in rows[n] : y \in Message /\ y.kind = kind /\ y.from = n /\ Sent(y)
    BY <1>2, SenderFirst DEF LInv
  <2>2. m \in Message /\ m.kind = kind /\ m.from = n /\ m.copy = 0 /\ ~ Sent(m)
    BY DEF NewMessage
  <2>3. Original(y) = m
    BY <2>1, <2>2, OneOriginal DEF Uncancelled
  <2> QED
    BY <2>1, <2>2, <2>3 DEF LInv, CopiesFollow
<1>4. RowsFit(n)
  BY DEF LInv, StagesFit
<1>5. /\ kind = "MPA_ACCEPT" => Has(n, "MPA_BID")
      /\ kind = "MPA_LOCK" => Has(n, "MPA_ACCEPT")
      /\ kind = "MPA_COMPLETE" => Has(n, "MPA_LOCK")
      /\ kind \in {"MPA_SHIP", "MPA_RELEASE"} => Has(n, "MPA_COMPLETE")
  BY DEF IInv, PendingRests, HasAll, Needs, Action
<1>6. kind \in {"MPA_BID", "MPA_LOCK", "MPA_RELEASE"} => n = "buyer"
  BY <1>2, HappySenders
<1>7. kind \in {"MPA_ACCEPT", "MPA_COMPLETE", "MPA_SHIP"} => n = "seller"
  BY <1>2, HappySenders
<1>8. Fits(n, kind)
  <2> USE <1>3, <1>4, <1>5, <1>6, <1>7 DEF RowsFit, Fits
  <2>1. CASE kind \in {"MPA_BID", "MPA_ACCEPT", "MPA_LOCK"}
    BY <2>1
  <2>2. CASE kind = "MPA_COMPLETE"
    BY <2>2
  <2>3. CASE kind = "MPA_SHIP"
    BY <2>3
  <2>4. CASE kind = "MPA_RELEASE"
    BY <2>4
  <2> QED
    BY <1>1, <2>1, <2>2, <2>3, <2>4 DEF HappyKinds
<1> QED
  BY <1>1, <1>2, <1>3, <1>8

(* Of what can become of a message that is processed this flow knows three *)
(* ends: handled, a shipment that comes too late to matter, and one whose  *)
(* onEvent() finds statuses it does not know yet.                          *)
LEMMA OnEventEnds ==
  ASSUME NEW m \in Message, OnEvent(m), m.kind \in HappyKinds
  PROVE  /\ inbox[m] = "PROCESSING" /\ UNCHANGED <<pending, chain>>
         /\ \/ /\ \E ok \in BOOLEAN : ProcessMessage(Receiver(m), m, ok)
               /\ m.kind = "MPA_SHIP" => item[Receiver(m)] = "ESCROW_COMPLETED"
               /\ inbox' = [inbox EXCEPT ![m] = "PROCESSED"]
            \/ /\ m.kind = "MPA_SHIP" /\ item[Receiver(m)] = "COMPLETE"
               /\ inbox' = [inbox EXCEPT ![m] = "PROCESSED"] /\ NodeUnchanged
            \/ inbox' = [inbox EXCEPT ![m] = "WAITING"] /\ NodeUnchanged
<1>1. m.kind \notin {"MPA_REJECT", "MPA_CANCEL"}
  BY DEF HappyKinds
<1>2. ASSUME NEW n, Handle(n, m)
      PROVE  /\ \E ok \in BOOLEAN : ProcessMessage(n, m, ok)
             /\ inbox' = [inbox EXCEPT ![m] = "PROCESSED"]
  BY <1>1, <1>2 DEF Handle, SetInbox
<1> QED
  BY <1>2 DEF OnEvent, HandleShip, SetInbox

(* A message that is handled as one of its kind meets a receiver where it  *)
(* fits: the validators see to that, for MPA_SHIP its onEvent() once more. *)
LEMMA HandledFits ==
  ASSUME IInv, LInv, Uncancelled, NEW m \in Message, inbox[m] = "PROCESSING",
         m.kind = "MPA_SHIP" => item[Receiver(m)] = "ESCROW_COMPLETED"
  PROVE  /\ m.kind \in HappyKinds
         /\ Has(m.from, m.kind)
         /\ Senders(m.kind) = {m.from}
         /\ Fits(Receiver(m), m.kind)
<1> DEFINE n == Receiver(m)
<1>0. Sent(m) /\ n \in Node
  BY MessageFields DEF Sent
<1>1. m.kind \in HappyKinds /\ Has(m.from, m.kind)
  BY <1>0 DEF LInv, OnlyHappy, SenderHas
<1>2. Senders(m.kind) = {m.from}
  BY <1>1, HappySenders, MessageFields DEF HappyKinds
<1>3. RowsFit(n)
  BY <1>0 DEF LInv, StagesFit
<1>4. Ready(n, m.kind)
  BY <1>0 DEF IInv, ProcessingRests
<1>5. /\ m.kind = "MPA_ACCEPT" => Has(n, "MPA_BID")
      /\ m.kind = "MPA_LOCK" => Has(n, "MPA_ACCEPT")
      /\ m.kind = "MPA_COMPLETE" => Has(n, "MPA_LOCK")
      /\ m.kind = "MPA_RELEASE" => Has(n, "MPA_COMPLETE") /\ (n = "seller" => Has(n, "MPA_SHIP"))
  BY <1>4 DEF Ready, HasAll, Needs, Action
<1>6. m.kind \in {"MPA_ACCEPT", "MPA_COMPLETE"} => ~ Has(n, m.kind)
  <2> SUFFICES ASSUME m.kind \in {"MPA_ACCEPT", "MPA_COMPLETE"}, Has(n, m.kind)
               PROVE  FALSE
    OBVIOUS
  <2>1. PICK y \in rows[n] : y \in Message /\ y.kind = m.kind /\ y.from = m.from /\ Sent(y)
    BY <1>0, <1>2, MessageFields, SenderFirst DEF LInv
  <2>2. y = Original(y) /\ m = Original(m)
    BY <1>0, <2>1 DEF LInv, CopiesFollow, Uncancelled
  <2>3. y = m
    BY <2>1, <2>2, OneOriginal DEF Uncancelled
  <2> QED
    BY <1>0, <2>1, <2>3 DEF LInv, RowDone
<1>7. m.kind = "MPA_SHIP" => Stage(n) = 4
  BY DEF Stage
<1>8. Fits(n, m.kind)
  <2> USE <1>3, <1>5, <1>6, <1>7 DEF RowsFit, Fits
  <2>1. CASE m.kind \in {"MPA_BID", "MPA_ACCEPT", "MPA_LOCK"}
    BY <2>1
  <2>2. CASE m.kind = "MPA_COMPLETE"
    BY <2>2
  <2>3. CASE m.kind = "MPA_SHIP"
    BY <2>3
  <2>4. CASE m.kind = "MPA_RELEASE"
    BY <1>0, <2>4 DEF Node
  <2> QED
    BY <1>1, <2>1, <2>2, <2>3, <2>4 DEF HappyKinds
<1> QED
  BY <1>1, <1>2, <1>8

-----------------------------------------------------------------------------
(* A step that changes no row and no status leaves the stages as they are. *)
LEMMA NodesKept ==
  ASSUME UNCHANGED <<rows, item, order>>
  PROVE  /\ StagesFit => StagesFit'
         /\ \A x \in Node : Stage(x)' = Stage(x)
         /\ \A x, kind : Has(x, kind)' <=> Has(x, kind)
BY DEF StagesFit, RowsFit, OrderFits, Stage, Has

(* What was sent and what became of it, when one message m gets a new      *)
(* inbox status, at most one row is added, and nothing else is sent.       *)
LEMMA InboxStep ==
  ASSUME TypeOK, TypeOK', Grows, LInv, NEW m \in Message, NEW status \in InboxStatus \ {"unsent"},
         inbox' = [inbox EXCEPT ![m] = status],
         \A n \in Node : pending'[n] \subseteq pending[n],
         \A n \in Node : rows'[n] \subseteq rows[n] \cup {m},
         inbox[m] # "PROCESSED",
         m.kind \in HappyKinds,
         Sent(Original(m)) \/ m = Original(m),
         m = Original(m) \/ m.kind \in Resendable,
         Has(m.from, m.kind)',
         m \in rows'[Receiver(m)] => status = "PROCESSED",
         status = "SKIPPED" => m # Original(m),
         status = "PROCESSED" =>
           \/ Has(Receiver(m), m.kind)'
           \/ m.kind = "MPA_SHIP" /\ Has(Receiver(m), "MPA_RELEASE")'
  PROVE  OnlyHappy' /\ CopiesFollow' /\ SenderHas' /\ RowDone' /\ Accounted'
<1>0. /\ inbox \in [Message -> InboxStatus]
      /\ \A x \in Message : inbox'[x] = IF x = m THEN status ELSE inbox[x]
      /\ \A x \in Message : Receiver(x) \in Node
  BY MessageFields DEF TypeOK
<1>1. \A x \in Message : Sent(x)' <=> Sent(x) \/ x = m
  BY <1>0 DEF Sent
<1>2. \A x \in Node : \A kind : Has(x, kind) => Has(x, kind)'
  BY RestsStayTrue
<1>3. OnlyHappy'
  BY <1>1 DEF LInv, OnlyHappy
<1>4. CopiesFollow'
  BY <1>1, CopyOfOriginal DEF LInv, CopiesFollow
<1>5. SenderHas'
  <2> SUFFICES ASSUME NEW x \in Message, Sent(x)' PROVE Has(x.from, x.kind)'
    BY DEF SenderHas, Has, Sent
  <2> QED
    BY <1>1, <1>2, MessageFields DEF LInv, SenderHas
<1>6. RowDone'
  <2> SUFFICES ASSUME NEW x \in Message, x \in rows'[Receiver(x)]
               PROVE  inbox'[x] = "PROCESSED"
    BY DEF RowDone, Receiver
  <2>1. CASE x = m
    BY <1>0, <2>1
  <2>2. CASE x # m
    BY <1>0, <2>2 DEF LInv, RowDone
  <2> QED
    BY <2>1, <2>2
<1>7. Accounted'
  <2> SUFFICES ASSUME NEW x \in Message
               PROVE  /\ inbox'[x] = "SKIPPED" => x # Original(x)
                      /\ inbox'[x] = "PROCESSED" =>
                           \/ Has(Receiver(x), x.kind)'
                           \/ x.kind = "MPA_SHIP" /\ Has(Receiver(x), "MPA_RELEASE")'
    BY DEF Accounted, Receiver, Has
  <2>1. CASE x = m
    BY <1>0, <2>1
  <2>2. CASE x # m
    BY <1>0, <1>2, <2>2 DEF LInv, Accounted
  <2> QED
    BY <2>1, <2>2
<1> QED
  BY <1>3, <1>4, <1>5, <1>6, <1>7

-----------------------------------------------------------------------------
(* The stages as OrderLifecycle sees them, and its two kinds of step.      *)
Stages == [n \in Node |-> Stage(n)]

(* One node that gets to a stage it may be first at takes a step Lead.     *)
LEMMA LeadStep ==
  ASSUME NEW n \in Node, NEW s, Stage(n)' = s,
         \A x \in Node \ {n} : Stage(x)' = Stage(x),
         s \in Lifecycle!Successor(n, Stage(n)), s \in Lifecycle!Moves(n),
         \/ Stage(Peer(n)) = s - 1
         \/ s \in {5, 6} /\ Stage(Peer(n)) >= s - 2
  PROVE  Lifecycle!Next
<1>1. /\ Peer(n) \in Node /\ Lifecycle!Other(n) = Peer(n)
      /\ n \in Lifecycle!Party
  BY DEF Peer, Node, Lifecycle!Other, Lifecycle!Party
<1>2. [x \in Node |-> Stage(x)'] = [Stages EXCEPT ![n] = s]
  BY DEF Stages
<1>3. Lifecycle!Lead(n)
  BY <1>1, <1>2
  DEF Lifecycle!Lead, Lifecycle!Shipping, Lifecycle!Complete, Stages
<1> QED
  BY <1>1, <1>3 DEF Lifecycle!Next

(* One node that gets to a stage where its peer already is takes a step    *)
(* Follow.                                                                 *)
LEMMA FollowStep ==
  ASSUME NEW n \in Node, NEW s, Stage(n)' = s,
         \A x \in Node \ {n} : Stage(x)' = Stage(x),
         s \in Lifecycle!Successor(n, Stage(n)), s \in Lifecycle!Moves(Peer(n)),
         Stage(Peer(n)) >= s
  PROVE  Lifecycle!Next
<1>1. /\ Peer(n) \in Node /\ Lifecycle!Other(n) = Peer(n)
      /\ n \in Lifecycle!Party
  BY DEF Peer, Node, Lifecycle!Other, Lifecycle!Party
<1>2. [x \in Node |-> Stage(x)'] = [Stages EXCEPT ![n] = s]
  BY DEF Stages
<1>3. Lifecycle!Follow(n)
  BY <1>1, <1>2 DEF Lifecycle!Follow, Stages
<1> QED
  BY <1>1, <1>3 DEF Lifecycle!Next

(* The moves of the two parties, and what a stage may be followed by.      *)
LEMMA LifecycleMoves ==
  /\ Lifecycle!Moves("buyer") = {1, 3, 6} /\ Lifecycle!Moves("seller") = {2, 4, 5}
  /\ \A n \in Node, s \in 0 .. 6 : s + 1 \in Lifecycle!Successor(n, s)
  /\ 6 \in Lifecycle!Successor("buyer", 4)
BY DEF Lifecycle!Moves, Lifecycle!Successor, Lifecycle!Bidded,
       Lifecycle!AwaitingEscrow, Lifecycle!EscrowLocked, Lifecycle!EscrowCompleted,
       Lifecycle!Shipping, Lifecycle!Complete

(* The node that sends a message makes its move.                           *)
LEMMA PostLeads ==
  ASSUME IInv, LInv, Uncancelled, NEW n \in Node, NEW kind \in pending[n],
         NEW m \in NewMessage(n, kind), NEW ok \in BOOLEAN,
         ProcessMessage(n, m, ok)
  PROVE  Lifecycle!Next
<1>1. m \in Message /\ m.kind = kind /\ kind \in HappyKinds
  BY NewMessageFields, PostFits
<1>2. Fits(n, kind) /\ ~ Has(n, kind) /\ Senders(kind) = {n}
  BY PostFits
<1>3. RowsFit(n) /\ OrderFits(n) /\ TypeOK /\ StagesFit
  BY DEF LInv, StagesFit, IInv
<1>4. \A x \in Node \ {n} : Stage(x)' = Stage(x)
  BY <1>1, <1>2, <1>3, ProcessStage
<1>5. /\ kind \in {"MPA_BID", "MPA_LOCK", "MPA_RELEASE"} => n = "buyer"
      /\ kind \in {"MPA_ACCEPT", "MPA_COMPLETE", "MPA_SHIP"} => n = "seller"
  BY <1>2, HappySenders
<1> USE <1>1, <1>2, <1>3, <1>4, <1>5, HappySenders, LifecycleMoves, Together, StageEffect
        DEF RowsFit, Fits
<1>6. CASE kind = "MPA_BID"
  <2>1. n = "buyer" /\ Stage(n) = 0 /\ Stage(n)' = 1 /\ Stage(Peer(n)) = 0
    BY <1>6
  <2> QED
    BY <2>1, LeadStep
<1>7. CASE kind = "MPA_ACCEPT"
  <2>1. n = "seller" /\ Stage(n) = 1 /\ Stage(n)' = 2 /\ Stage(Peer(n)) = 1
    BY <1>7
  <2> QED
    BY <2>1, LeadStep
<1>8. CASE kind = "MPA_LOCK"
  <2>1. n = "buyer" /\ Stage(n) = 2 /\ Stage(n)' = 3 /\ Stage(Peer(n)) = 2
    BY <1>8
  <2> QED
    BY <2>1, LeadStep
<1>9. CASE kind = "MPA_COMPLETE"
  <2>1. n = "seller" /\ Stage(n) = 3 /\ Stage(n)' = 4 /\ Stage(Peer(n)) = 3
    BY <1>9
  <2> QED
    BY <2>1, LeadStep
<1>10. CASE kind = "MPA_SHIP"
  <2>1. n = "seller" /\ Stage(n) = 4 /\ Stage(n)' = 5 /\ Stage(Peer(n)) >= 3
    BY <1>10
  <2> QED
    BY <2>1, LeadStep
<1>11. CASE kind = "MPA_RELEASE"
  <2>1. n = "buyer" /\ Stage(n) \in {4, 5} /\ Stage(n)' = 6 /\ Stage(Peer(n)) >= 4
    BY <1>11
  <2> QED
    BY <2>1, LeadStep
<1> QED
  BY <1>6, <1>7, <1>8, <1>9, <1>10, <1>11 DEF HappyKinds

(* The node that handles a message it received follows its peer, unless it *)
(* has made that step already.                                             *)
LEMMA HandleFollows ==
  ASSUME IInv, LInv, Uncancelled, NEW m \in Message, inbox[m] = "PROCESSING",
         m.kind = "MPA_SHIP" => item[Receiver(m)] = "ESCROW_COMPLETED",
         NEW ok \in BOOLEAN, ProcessMessage(Receiver(m), m, ok)
  PROVE  [Lifecycle!Next]_Stages
<1> DEFINE n == Receiver(m)
<1>1. /\ n \in Node /\ n = Peer(m.from) /\ m.from \in Node /\ m.from = Peer(n)
  BY MessageFields DEF Receiver, Peer, Node
<1>2. /\ m.kind \in HappyKinds /\ Fits(n, m.kind) /\ Has(Peer(n), m.kind)
      /\ Senders(m.kind) = {Peer(n)}
  BY <1>1, HandledFits
<1>3. RowsFit(n) /\ RowsFit(Peer(n)) /\ OrderFits(n) /\ TypeOK /\ StagesFit
  BY <1>1 DEF LInv, StagesFit, IInv
<1>4. \A x \in Node \ {n} : Stage(x)' = Stage(x)
  BY <1>1, <1>2, <1>3, ProcessStage
<1>5. /\ m.kind \in {"MPA_BID", "MPA_LOCK", "MPA_RELEASE"} => n = "seller"
      /\ m.kind \in {"MPA_ACCEPT", "MPA_COMPLETE", "MPA_SHIP"} => n = "buyer"
  BY <1>1, <1>2, HappySenders DEF Peer
<1>s. ASSUME Stage(n)' = Stage(n) PROVE UNCHANGED Stages
  BY <1>4, <1>s DEF Stages
<1> USE <1>1, <1>2, <1>3, <1>4, <1>5, HappySenders, LifecycleMoves, StageEffect
        DEF RowsFit, Fits
<1>6. CASE m.kind = "MPA_BID"
  <2>1. /\ n = "seller" /\ Stage(Peer(n)) >= 1
        /\ (Stage(n) = 0 /\ Stage(n)' = 1) \/ Stage(n)' = Stage(n)
    BY <1>6
  <2> QED
    BY <2>1, <1>s, FollowStep
<1>7. CASE m.kind = "MPA_ACCEPT"
  <2>1. n = "buyer" /\ Stage(Peer(n)) >= 2 /\ Stage(n) = 1 /\ Stage(n)' = 2
    BY <1>7
  <2> QED
    BY <2>1, FollowStep
<1>8. CASE m.kind = "MPA_LOCK"
  <2>1. /\ n = "seller" /\ Stage(Peer(n)) >= 3
        /\ (Stage(n) = 2 /\ Stage(n)' = 3) \/ Stage(n)' = Stage(n)
    BY <1>8
  <2> QED
    BY <2>1, <1>s, FollowStep
<1>9. CASE m.kind = "MPA_COMPLETE"
  <2>1. n = "buyer" /\ Stage(Peer(n)) >= 4 /\ Stage(n) = 3 /\ Stage(n)' = 4
    BY <1>9
  <2> QED
    BY <2>1, FollowStep
<1>10. CASE m.kind = "MPA_SHIP"
  <2>1. n = "buyer" /\ Stage(Peer(n)) >= 5 /\ Stage(n) = 4 /\ Stage(n)' = 5
    BY <1>10
  <2> QED
    BY <2>1, FollowStep
<1>11. CASE m.kind = "MPA_RELEASE"
  <2>1. /\ n = "seller" /\ Stage(Peer(n)) >= 6
        /\ (Stage(n) = 5 /\ Stage(n)' = 6) \/ Stage(n)' = Stage(n)
    BY <1>11
  <2> QED
    BY <2>1, <1>s, FollowStep
<1> QED
  BY <1>6, <1>7, <1>8, <1>9, <1>10, <1>11 DEF HappyKinds

-----------------------------------------------------------------------------
(* Every step of the two nodes keeps LInv and is a step of OrderLifecycle  *)
(* or none: only Post and OnEvent move a node to another stage.            *)
LEMMA LifecycleStep ==
  ASSUME Uncancelled, IInv, LInv, [Next]_vars
  PROVE  LInv' /\ [Lifecycle!Next]_Stages
<1>t. /\ TypeOK /\ TypeOK' /\ Grows
      /\ inbox \in [Message -> InboxStatus] /\ rows \in [Node -> SUBSET Message]
      /\ pending \in [Node -> SUBSET Action]
  BY TypeStep, StepGrows DEF IInv, TypeOK
<1>0. ASSUME UNCHANGED <<rows, item, order>>
      PROVE  /\ StagesFit' /\ [Lifecycle!Next]_Stages
             /\ \A x, kind : Has(x, kind)' <=> Has(x, kind)
  <2>1. UNCHANGED Stages
    BY <1>0, NodesKept DEF Stages
  <2> QED
    BY <1>0, <2>1, NodesKept DEF LInv
<1>i. ASSUME UNCHANGED <<inbox, rows, item, order>>,
             \A n \in Node : pending'[n] \subseteq HappyKinds
      PROVE  LInv' /\ [Lifecycle!Next]_Stages
  <2>1. OnlyHappy' /\ CopiesFollow'
    BY <1>i DEF LInv, OnlyHappy, CopiesFollow, Sent
  <2>2. SenderHas' /\ RowDone' /\ Accounted'
    BY <1>i DEF LInv, SenderHas, RowDone, Accounted, Sent, Has
  <2> QED
    BY <1>i, <1>0, <2>1, <2>2 DEF LInv
<1>1. ASSUME NEW n \in Node, NEW kind \in Action, Command(n, kind)
      PROVE  LInv' /\ [Lifecycle!Next]_Stages
  BY <1>1, <1>i, <1>t DEF Command, Uncancelled, LInv, OnlyHappy
<1>2. ASSUME NEW n \in Node, NEW kind \in Action, NEW m \in Message,
             Post(n, kind, m)
      PROVE  LInv' /\ [Lifecycle!Next]_Stages
  <2>1. PICK ok \in BOOLEAN : ProcessMessage(n, m, ok)
    BY <1>2 DEF Post
  <2>2. /\ kind \in pending[n] /\ m \in NewMessage(n, kind)
        /\ pending' = [pending EXCEPT ![n] = @ \ {kind}]
        /\ inbox' = [inbox EXCEPT ![m] = "in_flight"]
    BY <1>2 DEF Post, Send
  <2>3. m.kind = kind /\ m.from = n /\ ~ Sent(m) /\ m = Original(m)
    BY <2>2, OneOriginal DEF NewMessage, Uncancelled
  <2>4. kind \in HappyKinds /\ Fits(n, kind)
    BY <2>2, PostFits
  <2>5. StagesFit' /\ Has(n, kind)'
    BY <1>t, <2>1, <2>3, <2>4, ProcessStage DEF LInv
  <2>6. rows' = [rows EXCEPT ![n] = @ \cup {m}]
    BY <2>1 DEF ProcessMessage
  <2>7. m \notin rows'[Receiver(m)]
    <3>1. Receiver(m) # n /\ Receiver(m) \in Node
      BY <2>3, MessageFields
    <3> QED
      BY <1>t, <2>3, <2>6, <3>1 DEF IInv, RowsSent
  <2>8. /\ "in_flight" \in InboxStatus \ {"unsent"}
        /\ inbox[m] # "PROCESSED"
        /\ \A x \in Node : pending'[x] \subseteq pending[x]
        /\ \A x \in Node : rows'[x] \subseteq rows[x] \cup {m}
    BY <1>t, <2>2, <2>3, <2>6 DEF InboxStatus, Sent
  <2>9. OnlyHappy' /\ CopiesFollow' /\ SenderHas' /\ RowDone' /\ Accounted'
    BY <1>t, <2>2, <2>3, <2>4, <2>5, <2>7, <2>8, InboxStep
  <2>10. Lifecycle!Next
    BY <2>1, <2>2, PostLeads
  <2> QED
    BY <2>5, <2>9, <2>10 DEF LInv
<1>3. ASSUME NEW n \in Node, NEW kind \in Action, PostFails(n, kind)
      PROVE  LInv' /\ [Lifecycle!Next]_Stages
  BY <1>3, <1>i, <1>t DEF PostFails, LInv, OnlyHappy
<1>4. ASSUME NEW n \in Node, NEW kind \in Action, NEW m \in Message,
             DiesAfterSend(n, kind, m)
      PROVE  FALSE
  BY <1>4 DEF DiesAfterSend, Uncancelled
<1>5. ASSUME NEW n \in Node, NEW m \in Message, Resend(n, m)
      PROVE  LInv' /\ [Lifecycle!Next]_Stages
  <2>1. /\ inbox' = [inbox EXCEPT ![m] = "in_flight"] /\ ~ Sent(m)
        /\ m.from = n /\ Original(m) \in rows[n] /\ m.kind \in Resendable
        /\ UNCHANGED <<rows, item, order, pending>>
    BY <1>5 DEF Resend, Send
  <2>2. Sent(Original(m)) /\ m \notin rows[Receiver(m)]
    BY <2>1, MessageFields DEF IInv, RowsSent
  <2>3. m.kind \in HappyKinds
    BY <2>2, CopyOfOriginal DEF LInv, OnlyHappy
  <2>4. Has(m.from, m.kind)'
    BY <2>1, CopyOfOriginal DEF Has
  <2>5. "in_flight" \in InboxStatus \ {"unsent"} /\ inbox[m] # "PROCESSED"
    BY <2>1 DEF InboxStatus, Sent
  <2>6. OnlyHappy' /\ CopiesFollow' /\ SenderHas' /\ RowDone' /\ Accounted'
    BY <1>t, <2>1, <2>2, <2>3, <2>4, <2>5, InboxStep
  <2> QED
    BY <1>0, <2>1, <2>6 DEF LInv
<1>m. ASSUME NEW m \in Message, Sent(m)
      PROVE  /\ m.kind \in HappyKinds /\ Sent(Original(m))
             /\ (m = Original(m) \/ m.kind \in Resendable)
             /\ Has(m.from, m.kind)
  BY <1>m DEF LInv, OnlyHappy, CopiesFollow, SenderHas
<1>6. ASSUME NEW m \in Message, Skip(m) \/ BeginProcessing(m) \/ Postpone(m) \/ GiveUp(m)
      PROVE  LInv' /\ [Lifecycle!Next]_Stages
  <2>1. /\ UNCHANGED <<rows, item, order, pending>>
        /\ inbox[m] \in {"in_flight", "WAITING"}
        /\ \E status \in {"SKIPPED", "PROCESSING", "WAITING", "PROCESSING_FAILED"} :
             /\ inbox' = [inbox EXCEPT ![m] = status]
             /\ status = "SKIPPED" => m # Original(m)
    BY <1>6 DEF Skip, BeginProcessing, Postpone, GiveUp, Due, SetInbox,
                NodeUnchanged, AlreadyProcessed, Stored
  <2>2. PICK status \in {"SKIPPED", "PROCESSING", "WAITING", "PROCESSING_FAILED"} :
          /\ inbox' = [inbox EXCEPT ![m] = status]
          /\ status = "SKIPPED" => m # Original(m)
    BY <2>1
  <2>3. /\ status \in InboxStatus \ {"unsent"} /\ status # "PROCESSED"
        /\ inbox[m] # "PROCESSED" /\ Sent(m)
    BY <2>1 DEF InboxStatus, Sent
  <2>4. m \notin rows'[Receiver(m)]
    BY <2>1, <2>3 DEF LInv, RowDone
  <2>5. Has(m.from, m.kind)'
    BY <1>m, <2>1, <2>3 DEF Has
  <2>6. OnlyHappy' /\ CopiesFollow' /\ SenderHas' /\ RowDone' /\ Accounted'
    BY <1>t, <1>m, <2>1, <2>2, <2>3, <2>4, <2>5, InboxStep
  <2> QED
    BY <1>0, <2>1, <2>6 DEF LInv
<1>7. ASSUME NEW m \in Message, OnEvent(m)
      PROVE  LInv' /\ [Lifecycle!Next]_Stages
  <2>1. inbox[m] = "PROCESSING" /\ Sent(m) /\ Receiver(m) \in Node
    BY <1>7, MessageFields DEF OnEvent, Sent
  <2>2. m.kind \in HappyKinds /\ UNCHANGED pending
    BY <1>7, <1>m, <2>1, OnEventEnds
  <2>3. ASSUME NEW status \in {"PROCESSED", "WAITING"},
               inbox' = [inbox EXCEPT ![m] = status],
               \A n \in Node : rows'[n] \subseteq rows[n] \cup {m},
               m \in rows'[Receiver(m)] => status = "PROCESSED",
               status = "PROCESSED" =>
                 \/ Has(Receiver(m), m.kind)'
                 \/ m.kind = "MPA_SHIP" /\ Has(Receiver(m), "MPA_RELEASE")'
        PROVE  OnlyHappy' /\ CopiesFollow' /\ SenderHas' /\ RowDone' /\ Accounted'
    <3>1. Has(m.from, m.kind)'
      BY <1>m, <1>t, <2>1, MessageFields, RestsStayTrue
    <3>2. status \in InboxStatus \ {"unsent"} /\ status # "SKIPPED"
      BY DEF InboxStatus
    <3> QED
      BY <1>m, <1>t, <2>1, <2>2, <2>3, <3>1, <3>2, InboxStep
  <2>4. ASSUME NEW ok \in BOOLEAN, ProcessMessage(Receiver(m), m, ok),
               m.kind = "MPA_SHIP" => item[Receiver(m)] = "ESCROW_COMPLETED",
               inbox' = [inbox EXCEPT ![m] = "PROCESSED"]
        PROVE  LInv' /\ [Lifecycle!Next]_Stages
    <3>1. Fits(Receiver(m), m.kind)
      BY <2>1, <2>4, HandledFits
    <3>2. StagesFit' /\ Has(Receiver(m), m.kind)'
      BY <1>t, <2>1, <2>2, <2>4, <3>1, ProcessStage DEF LInv
    <3>3. \A n \in Node : rows'[n] \subseteq rows[n] \cup {m}
      BY <1>t, <2>4 DEF ProcessMessage
    <3>4. OnlyHappy' /\ CopiesFollow' /\ SenderHas' /\ RowDone' /\ Accounted'
      BY <2>3, <2>4, <3>2, <3>3
    <3>5. [Lifecycle!Next]_Stages
      BY <2>1, <2>4, HandleFollows
    <3> QED
      BY <3>2, <3>4, <3>5 DEF LInv
  <2>5. ASSUME m.kind = "MPA_SHIP", item[Receiver(m)] = "COMPLETE", NodeUnchanged,
               inbox' = [inbox EXCEPT ![m] = "PROCESSED"]
        PROVE  LInv' /\ [Lifecycle!Next]_Stages
    <3>1. UNCHANGED <<rows, item, order>>
      BY <2>5 DEF NodeUnchanged
    <3>2. Stage(Receiver(m)) = 6
      BY <2>5 DEF Stage
    <3>3. Has(Receiver(m), "MPA_RELEASE")'
      BY <1>0, <2>1, <3>1, <3>2 DEF LInv, StagesFit, RowsFit
    <3>4. OnlyHappy' /\ CopiesFollow' /\ SenderHas' /\ RowDone' /\ Accounted'
      BY <2>3, <2>5, <3>1, <3>3
    <3> QED
      BY <1>0, <3>1, <3>4 DEF LInv
  <2>6. ASSUME inbox' = [inbox EXCEPT ![m] = "WAITING"], NodeUnchanged
        PROVE  LInv' /\ [Lifecycle!Next]_Stages
    <3>1. UNCHANGED <<rows, item, order>>
      BY <2>6 DEF NodeUnchanged
    <3>2. m \notin rows'[Receiver(m)]
      BY <2>1, <3>1 DEF LInv, RowDone
    <3>3. OnlyHappy' /\ CopiesFollow' /\ SenderHas' /\ RowDone' /\ Accounted'
      BY <2>3, <2>6, <3>1, <3>2
    <3> QED
      BY <1>0, <3>1, <3>3 DEF LInv
  <2> QED
    BY <1>7, <2>2, <2>4, <2>5, <2>6, OnEventEnds
<1>8. CASE UNCHANGED vars
  BY <1>8, <1>i DEF vars, LInv, OnlyHappy
<1> QED
  BY <1>1, <1>2, <1>3, <1>4, <1>5, <1>6, <1>7, <1>8, <1>t, StepCases

(* At the start both nodes are at stage 0 and nothing was sent.            *)
LEMMA LifecycleInit == Init => LInv /\ Lifecycle!Init
<1> SUFFICES ASSUME Init PROVE LInv /\ Lifecycle!Init
  OBVIOUS
<1>1. \A n \in Node : Stage(n) = 0 /\ order[n] = "none" /\ \A kind : ~ Has(n, kind)
  BY DEF Init, Stage, Has
<1>2. StagesFit
  BY <1>1 DEF StagesFit, RowsFit, OrderFits
<1>3. OnlyHappy /\ CopiesFollow /\ SenderHas /\ Accounted
  BY DEF Init, OnlyHappy, CopiesFollow, SenderHas, Accounted, Sent
<1>4. RowDone
  BY MessageFields DEF Init, RowDone
<1>5. Lifecycle!Init
  BY <1>1 DEF Lifecycle!Init, Lifecycle!Party, Node
<1> QED
  BY <1>2, <1>3, <1>4, <1>5 DEF LInv

(* Rows, stages, orders and inboxes fit together in every reachable state  *)
(* of a flow that nobody cancels or repeats.                               *)
THEOREM LifecycleInvariance ==
  ASSUME Uncancelled
  PROVE  Spec => []LInv
<1>1. Init => IInv /\ LInv
  BY IInvInit, LifecycleInit
<1>2. IInv /\ LInv /\ [Next]_vars => (IInv /\ LInv)'
  BY IInvStep, LifecycleStep
<1> QED
  BY <1>1, <1>2, PTL DEF Spec

(* The two nodes together do what OrderLifecycle says: whatever the        *)
(* network loses, delays, reorders or repeats, no node skips a stage,      *)
(* enters one before the party whose move it is, or goes back.             *)
THEOREM ImplementsOrderLifecycle ==
  ASSUME Uncancelled
  PROVE  Spec => KeepsOrderLifecycle
<1>1. Init => IInv /\ LInv /\ Lifecycle!Init
  BY IInvInit, LifecycleInit
<1>2. IInv /\ LInv /\ [Next]_vars =>
        (IInv /\ LInv)' /\ [Lifecycle!Next]_([n \in Node |-> Stage(n)])
  BY IInvStep, LifecycleStep DEF Stages
<1> QED
  BY <1>1, <1>2, PTL DEF Spec, KeepsOrderLifecycle, Lifecycle!Spec

(* When nothing is on its way any more the two databases agree on the      *)
(* order: what one party did has reached the other, and a shipment only    *)
(* goes missing where the release has overtaken it.                        *)
THEOREM AgreementHolds ==
  ASSUME Uncancelled
  PROVE  Spec => []Agreement
<1>1. ASSUME IInv, LInv PROVE Agreement
  <2> SUFFICES ASSUME Quiet
               PROVE  /\ item["buyer"] = item["seller"]
                      /\ order["buyer"] = order["seller"]
                           \/ <<order["buyer"], order["seller"]>> = <<"SENT", "RECEIVED">>
    BY DEF Agreement
  <2>1. ASSUME NEW p \in Node, NEW kind, Has(p, kind), Senders(kind) = {p}
        PROVE  \/ Has(Peer(p), kind)
               \/ kind = "MPA_SHIP" /\ Has(Peer(p), "MPA_RELEASE")
    <3>1. PICK m \in rows[p] : m \in Message /\ m.kind = kind /\ m.from = p /\ Sent(m)
      BY <1>1, <2>1, SenderFirst DEF LInv
    <3>2. /\ Original(m) \in Message /\ Sent(Original(m))
          /\ Original(m).kind = kind /\ Receiver(Original(m)) = Peer(p)
          /\ Original(Original(m)) = Original(m)
      BY <1>1, <3>1, CopyOfOriginal, OneOriginal DEF LInv, CopiesFollow, Receiver, Uncancelled
    <3>3. inbox[Original(m)] = "PROCESSED"
      BY <1>1, <3>2 DEF Quiet, Sent, LInv, Accounted
    <3> QED
      BY <1>1, <3>2, <3>3 DEF LInv, Accounted
  <2>2. /\ RowsFit("buyer") /\ RowsFit("seller")
        /\ OrderFits("buyer") /\ OrderFits("seller")
    BY <1>1, HappySenders DEF LInv, StagesFit
  <2>3. Stage("buyer") = Stage("seller") /\ Stage("buyer") \in 0 .. 6
    <3>1. /\ Has("buyer", "MPA_BID") => Has("seller", "MPA_BID")
          /\ Has("seller", "MPA_ACCEPT") => Has("buyer", "MPA_ACCEPT")
          /\ Has("buyer", "MPA_LOCK") => Has("seller", "MPA_LOCK")
          /\ Has("seller", "MPA_COMPLETE") => Has("buyer", "MPA_COMPLETE")
          /\ Has("seller", "MPA_SHIP") => Has("buyer", "MPA_SHIP") \/ Has("buyer", "MPA_RELEASE")
          /\ Has("buyer", "MPA_RELEASE") => Has("seller", "MPA_RELEASE")
      BY <2>1, HappySenders
    <3> QED
      BY <1>1, <2>2, <3>1, Together DEF RowsFit
  <2>4. item["buyer"] = item["seller"]
    BY <2>3 DEF Stage
  <2> QED
    BY <2>2, <2>3, <2>4 DEF OrderFits
<1>2. IInv /\ LInv => Agreement
  BY <1>1
<1> QED
  BY <1>2, Invariance, LifecycleInvariance, PTL
=============================================================================
