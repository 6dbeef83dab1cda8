--------------------------- MODULE MessageIntake ---------------------------
(***************************************************************************)
(* How one node takes in smsg messages.  particl core keeps every message  *)
(* in its own inbox and announces it over zmq; ZmqWorker lets a few        *)
(* announcements be worked on at a time; CoreMessageProcessor reads the    *)
(* message, drops it if it is known, stores it as an SmsgMessage and       *)
(* removes it from core; MarketplaceMessageProcessor hands it to the       *)
(* processor of its type; WaitingMessageService takes the WAITING ones up  *)
(* again.  The node may stop between any two of these steps.               *)
(***************************************************************************)
EXTENDS Naturals, Sequences, FiniteSets

CONSTANTS
  Msg,          \* the smsg messages
  Prerequisite, \* Prerequisite[m]: the messages m's sequence rests on
  CopyOf,       \* CopyOf[m]: the message m resends, m itself if it is none
  Refused,      \* the messages with invalid content or a blacklisted recipient
  Unheard,      \* those of a type without a listener, UNKNOWN is one
  LooksAgain,   \* those whose handler looks once more and may wait, MPA_SHIP
  Workers,      \* concurrency of the queue in ZmqWorker
  PageLimit,    \* page limit of WaitingMessageService
  Found,        \* bound: the messages that core finds in its buckets again
  MaxNotices,   \* bound: announcements of one message on their way
  MaxCrashes,   \* bound: how often the node stops
  Unreliable    \* TRUE iff calls to core, handlers or parsing may throw and
                \* announcements get lost

ASSUME IntakeAssumption ==
  /\ Prerequisite \in [Msg -> SUBSET Msg]
  /\ CopyOf \in [Msg -> Msg]
  /\ Refused \subseteq Msg /\ Found \subseteq Msg
  /\ Unheard \subseteq Msg /\ LooksAgain \subseteq Msg
  /\ Workers \in Nat \ {0} /\ PageLimit \in Nat \ {0}
  /\ MaxNotices \in Nat \ {0} /\ MaxCrashes \in Nat
  /\ Unreliable \in BOOLEAN

SmsgMessageStatus == {"NEW", "PARSING_FAILED", "PROCESSING", "PROCESSED",
                      "PROCESSING_FAILED", "VALIDATION_FAILED", "BLACKLISTED",
                      "WAITING"}
Final == SmsgMessageStatus \ {"NEW", "PROCESSING", "WAITING"}

VARIABLES
  core,      \* core[m]: m in the inbox of particl core
  received,  \* the messages in the order core received them
  notices,   \* notices[m]: announcements of m not yet taken up by a worker
  reading,   \* reading[m]: workers that have read m, not yet looked it up
  queue,     \* the queue of CoreMessageProcessor, its head is being run
  stage,     \* how far the task at the head of queue is
  row,       \* row[m]: status of the INCOMING SmsgMessage, "none" without
  stored,    \* the messages in the order of their rows
  action,    \* the actionQueue, its head is being run
  acted,     \* the head of action has returned from onEvent()
  page,      \* what WaitingMessageService has fetched and not yet gone over
  due,       \* WAITING messages whose pause between two tries is over
  expired,   \* messages whose expiration has passed
  handled,   \* handled[m]: how often onEvent() did its work for m; a run
             \* that returns WAITING has only looked
  up,        \* the node is running
  crashes    \* how often it has stopped

inbox == <<core, received, notices>>
database == <<row, stored, handled>>
memory == <<reading, queue, stage, action, acted, page>>
world == <<due, expired, up, crashes>>
vars == <<inbox, database, memory, world>>

None == "none"

TypeOK ==
  /\ core \in [Msg -> {None, "unread", "read", "removed"}]
  /\ received \in Seq(Msg) /\ stored \in Seq(Msg)
  /\ queue \in Seq(Msg) /\ action \in Seq(Msg) /\ page \in Seq(Msg)
  /\ notices \in [Msg -> 0 .. MaxNotices]
  /\ reading \in [Msg -> 0 .. Workers]
  /\ stage \in {"idle", "saved", "removed", "acting"}
  /\ row \in [Msg -> SmsgMessageStatus \cup {None}]
  /\ acted \in BOOLEAN /\ up \in BOOLEAN
  /\ due \subseteq Msg /\ expired \subseteq Msg
  /\ handled \in [Msg -> Nat] /\ crashes \in 0 .. MaxCrashes

Init ==
  /\ core = [m \in Msg |-> None] /\ received = <<>>
  /\ notices = [m \in Msg |-> 0]
  /\ row = [m \in Msg |-> None] /\ stored = <<>>
  /\ handled = [m \in Msg |-> 0]
  /\ reading = [m \in Msg |-> 0] /\ queue = <<>> /\ stage = "idle"
  /\ action = <<>> /\ acted = FALSE /\ page = <<>>
  /\ due = {} /\ expired = {} /\ up = TRUE /\ crashes = 0

-----------------------------------------------------------------------------
(* particl core and its zmq socket.                                        *)

ReceivedAt(m) == CHOOSE i \in DOMAIN received : received[i] = m

(* A message reaches core, which announces it if anyone listens.           *)
Arrive(m) ==
  /\ core[m] = None
  /\ core' = [core EXCEPT ![m] = "unread"]
  /\ received' = Append(received, m)
  /\ \/ up /\ notices' = [notices EXCEPT ![m] = @ + 1]
     \/ (~ up \/ Unreliable) /\ UNCHANGED notices
  /\ UNCHANGED <<database, memory, world>>

(* smsgscanbuckets, run when a market is joined: core goes over all that   *)
(* it ever got, and finds and announces messages it had before, also those *)
(* that were removed from its inbox.                                       *)
smsgScanBuckets(m) ==
  /\ up /\ m \in Found
  /\ core[m] # None /\ notices[m] < MaxNotices
  /\ core' = [core EXCEPT ![m] = IF @ = "removed" THEN "unread" ELSE @]
  /\ notices' = [notices EXCEPT ![m] = @ + 1]
  /\ UNCHANGED <<received, database, memory, world>>

(* smsgzmqpush: core announces what is unread and was received no earlier  *)
(* than the last message that has a row.                                   *)
(* Mutant: only what comes in from now on is asked for.                    *)
pushUnreadFromNow ==
  notices' = [m \in Msg |->
    IF core[m] = "unread" /\ ReceivedAt(m) > Len(received) THEN 1 ELSE 0]

pushUnreadCoreSmsgMessages ==
  LET since == IF stored = <<>> THEN 0 ELSE ReceivedAt(stored[Len(stored)])
  IN  notices' = [m \in Msg |->
        IF core[m] = "unread" /\ ReceivedAt(m) >= since THEN 1 ELSE 0]

-----------------------------------------------------------------------------
(* CoreMessageProcessor.process(), one worker of ZmqWorker per call; the   *)
(* worker is taken until the task it has queued is done.                   *)

Readings == {x \in Msg \X (1 .. Workers) : x[2] <= reading[x[1]]}
Busy == Cardinality(Readings) + Len(queue)

(* Mutant: the queue of ZmqWorker has no limit.                            *)
ReadUnlimited(m) ==
  /\ up /\ notices[m] > 0 /\ core[m] # "removed"
  /\ notices' = [notices EXCEPT ![m] = @ - 1]
  /\ core' = [core EXCEPT ![m] = "read"]
  /\ reading' = [reading EXCEPT ![m] = @ + 1]
  /\ UNCHANGED <<received, database, queue, stage, action, acted, page, world>>

(* Mutant: core is told to delete the message when it is read.             *)
ReadRemoves(m) ==
  /\ up /\ notices[m] > 0 /\ Busy < Workers /\ core[m] # "removed"
  /\ notices' = [notices EXCEPT ![m] = @ - 1]
  /\ core' = [core EXCEPT ![m] = "removed"]
  /\ reading' = [reading EXCEPT ![m] = @ + 1]
  /\ UNCHANGED <<received, database, queue, stage, action, acted, page, world>>

(* smsg(msgid, false, true) marks the message as read.  Core refuses when  *)
(* the message has been removed.                                           *)
Read(m) ==
  /\ up /\ notices[m] > 0 /\ Busy < Workers
  /\ notices' = [notices EXCEPT ![m] = @ - 1]
  /\ \/ /\ core[m] # "removed"
        /\ core' = [core EXCEPT ![m] = "read"]
        /\ reading' = [reading EXCEPT ![m] = @ + 1]
     \/ /\ (core[m] = "removed" \/ Unreliable)
        /\ UNCHANGED <<core, reading>>
  /\ UNCHANGED <<received, database, queue, stage, action, acted, page, world>>

(* isCoreMessageAlreadyProcessed(): the message or the one it resends has  *)
(* a row.  Otherwise the rest becomes a task of the queue.                 *)
isCoreMessageAlreadyProcessed(m) == row[m] # None \/ row[CopyOf[m]] # None

Check(m) ==
  /\ reading[m] > 0
  /\ reading' = [reading EXCEPT ![m] = @ - 1]
  /\ queue' = IF isCoreMessageAlreadyProcessed(m) THEN queue ELSE Append(queue, m)
  /\ UNCHANGED <<inbox, database, stage, action, acted, page, world>>

TaskDone == queue' = Tail(queue) /\ stage' = "idle"

(* Mutant: the table has no unique key and the row is written over.        *)
SaveOver ==
  /\ queue # <<>> /\ stage = "idle"
  /\ row' = [row EXCEPT ![Head(queue)] = "NEW"]
  /\ stored' = Append(stored, Head(queue))
  /\ stage' = "saved"
  /\ UNCHANGED <<inbox, handled, reading, queue, action, acted, page, world>>

(* saveSmsgMessage() makes the row; the table has a unique key on the      *)
(* msgid, so a second task for the same message ends here.                 *)
Save ==
  /\ queue # <<>> /\ stage = "idle"
  /\ LET m == Head(queue)
     IN  \/ /\ row[m] = None
            /\ row' = [row EXCEPT ![m] = "NEW"]
            /\ stored' = Append(stored, m)
            /\ stage' = "saved"
            /\ UNCHANGED queue
         \/ /\ row[m] # None
            /\ TaskDone
            /\ UNCHANGED <<row, stored>>
  /\ UNCHANGED <<inbox, handled, reading, action, acted, page, world>>

(* ... and removes the message from core; when that throws the task ends   *)
(* and the row stays as it is.                                             *)
Remove ==
  /\ stage = "saved"
  /\ \/ /\ core' = [core EXCEPT ![Head(queue)] = "removed"]
        /\ stage' = "removed" /\ UNCHANGED queue
     \/ Unreliable /\ TaskDone /\ UNCHANGED core
  /\ UNCHANGED <<received, notices, database, reading, action, acted, page, world>>

(* MarketplaceMessageProcessor.process(): the status is set before the     *)
(* message goes into the actionQueue.  Only the two callers below await    *)
(* their turn there, so no priority ever decides anything.                 *)
Dispatch(m) ==
  /\ m \notin Unheard
  /\ row' = [row EXCEPT ![m] = "PROCESSING"]
  /\ action' = Append(action, m)

(* ... and when there is no listener for the type, or the text cannot be   *)
(* parsed, it throws instead; only the latter is noted in the row.         *)
DispatchThrows(m) ==
  /\ \/ m \in Unheard /\ row' = [row EXCEPT ![m] = "PROCESSING"]
     \/ Unreliable /\ row' = [row EXCEPT ![m] = "PARSING_FAILED"]
  /\ UNCHANGED action

Start ==
  /\ stage = "removed"
  /\ \/ Dispatch(Head(queue)) /\ stage' = "acting" /\ UNCHANGED queue
     \/ DispatchThrows(Head(queue)) /\ TaskDone
  /\ UNCHANGED <<inbox, stored, handled, reading, acted, page, world>>

-----------------------------------------------------------------------------
(* BaseActionMessageProcessor.process() for the message at the head of the *)
(* actionQueue, and the return to the caller that awaits it.               *)

InSequence(m) == \A p \in Prerequisite[m] : row[p] = "PROCESSED"

Return ==
  /\ action' = Tail(action)
  /\ IF stage = "acting" /\ Head(queue) = Head(action)
     THEN TaskDone /\ UNCHANGED page
     ELSE page' = Tail(page) /\ UNCHANGED <<queue, stage>>

SetStatus(m, status) ==
  /\ row' = [row EXCEPT ![m] = status]
  /\ Return

(* Mutant: the status of a refused message is not updated.                 *)
RefuseSilently ==
  /\ action # <<>> /\ ~ acted
  /\ Head(action) \in Refused
  /\ Return
  /\ UNCHANGED <<inbox, database, reading, acted, world>>

Refuse ==
  /\ action # <<>> /\ ~ acted
  /\ Head(action) \in Refused
  /\ \E status \in {"BLACKLISTED", "VALIDATION_FAILED"} :
       SetStatus(Head(action), status)
  /\ UNCHANGED <<inbox, stored, handled, reading, acted, world>>

(* Mutant: the expiration of a waiting message is not looked at.           *)
OutOfSequenceForEver ==
  /\ action # <<>> /\ ~ acted
  /\ Head(action) \notin Refused /\ ~ InSequence(Head(action))
  /\ SetStatus(Head(action), "WAITING")
  /\ UNCHANGED <<inbox, stored, handled, reading, acted, world>>

OutOfSequence ==
  /\ action # <<>> /\ ~ acted
  /\ Head(action) \notin Refused /\ ~ InSequence(Head(action))
  /\ SetStatus(Head(action),
       IF Head(action) \in expired THEN "PROCESSING_FAILED" ELSE "WAITING")
  /\ UNCHANGED <<inbox, stored, handled, reading, acted, world>>

(* onEvent() of MPA_SHIP looks at the order once more, and returns WAITING *)
(* before it has done anything when the order is not where it should be    *)
(* (a command was faster, or a stop left it between two updates).  Nobody  *)
(* asks for the expiration then.                                           *)
LookedTooEarly ==
  /\ action # <<>> /\ ~ acted
  /\ Head(action) \in LooksAgain \ Refused /\ InSequence(Head(action))
  /\ SetStatus(Head(action), "WAITING")
  /\ UNCHANGED <<inbox, stored, handled, reading, acted, world>>

(* Otherwise it does its work, or finds it done, and is not run again.     *)
onEvent ==
  /\ action # <<>> /\ ~ acted
  /\ Head(action) \notin Refused /\ InSequence(Head(action))
  /\ acted' = TRUE
  /\ handled' = [handled EXCEPT ![Head(action)] = @ + 1]
  /\ UNCHANGED <<inbox, row, stored, reading, queue, stage, action, page, world>>

(* Mutant: a message whose handler has failed is tried again.              *)
FinishRetries ==
  /\ acted
  /\ acted' = FALSE
  /\ \/ SetStatus(Head(action), "PROCESSED")
     \/ Unreliable /\ SetStatus(Head(action), "WAITING")
  /\ UNCHANGED <<inbox, stored, handled, reading, world>>

Finish ==
  /\ acted
  /\ acted' = FALSE
  /\ \/ SetStatus(Head(action), "PROCESSED")
     \/ Unreliable /\ SetStatus(Head(action), "PROCESSING_FAILED")
  /\ UNCHANGED <<inbox, stored, handled, reading, world>>

-----------------------------------------------------------------------------
(* WaitingMessageService.run(), every five seconds.                        *)

Waiting == {m \in Msg : row[m] = "WAITING"}

(* The newest first, no more than one page of them.                        *)
getWaitingSmsgMessages ==
  LET newer(m) == {x \in Waiting : ReceivedAt(x) >= ReceivedAt(m)}
      fetched == {m \in Waiting : Cardinality(newer(m)) <= PageLimit}
  IN  [i \in 1 .. Cardinality(fetched) |->
         CHOOSE m \in fetched : Cardinality(newer(m)) = i]

FetchPage ==
  /\ up /\ page = <<>> /\ Waiting # {}
  /\ page' = getWaitingSmsgMessages
  /\ UNCHANGED <<inbox, database, reading, queue, stage, action, acted, world>>

(* shouldReprocessMessage(): two minutes to a day have to pass between two *)
(* tries.  run() waits until the message has been processed; when that     *)
(* throws, run() ends and leaves the rest of its page.                     *)
OnPage == page # <<>> /\ ~ \E i \in DOMAIN action : action[i] = Head(page)

PassOver ==
  /\ OnPage /\ Head(page) \notin due
  /\ page' = Tail(page)
  /\ UNCHANGED <<inbox, database, reading, queue, stage, action, acted, world>>

Reprocess ==
  /\ OnPage /\ Head(page) \in due
  /\ \/ Dispatch(Head(page)) /\ UNCHANGED page
     \/ DispatchThrows(Head(page)) /\ page' = <<>>
  /\ due' = due \ {Head(page)}
  /\ UNCHANGED <<inbox, stored, handled, reading, queue, stage, acted,
                 expired, up, crashes>>

PauseEnds(m) ==
  /\ row[m] = "WAITING" /\ m \notin due
  /\ due' = due \cup {m}
  /\ UNCHANGED <<inbox, database, memory, expired, up, crashes>>

Expire(m) ==
  /\ row[m] \notin Final \cup {None} /\ m \notin expired
  /\ expired' = expired \cup {m}
  /\ UNCHANGED <<inbox, database, memory, due, up, crashes>>

-----------------------------------------------------------------------------
(* The node stops: what it had in memory and what was on its way from core *)
(* is gone.                                                                *)
Crash ==
  /\ up /\ crashes < MaxCrashes
  /\ up' = FALSE /\ crashes' = crashes + 1
  /\ notices' = [m \in Msg |-> 0]
  /\ reading' = [m \in Msg |-> 0] /\ queue' = <<>> /\ stage' = "idle"
  /\ action' = <<>> /\ acted' = FALSE /\ page' = <<>>
  /\ UNCHANGED <<core, received, database, due, expired>>

(* bootstrap() ends with the request for the unread messages.              *)
Boot ==
  /\ ~ up /\ up' = TRUE
  /\ pushUnreadCoreSmsgMessages
  /\ UNCHANGED <<core, received, database, memory, due, expired, crashes>>

-----------------------------------------------------------------------------
CoreTask == Save \/ Remove \/ Start
ActionTask == Refuse \/ OutOfSequence \/ LookedTooEarly \/ onEvent \/ Finish
Observer == FetchPage \/ PassOver \/ Reprocess

Next ==
  \/ \E m \in Msg : \/ Arrive(m) \/ smsgScanBuckets(m) \/ Read(m) \/ Check(m)
                    \/ PauseEnds(m) \/ Expire(m)
  \/ CoreTask \/ ActionTask \/ Observer
  \/ Crash \/ Boot

Spec == Init /\ [][Next]_vars

(* The event loop runs every task it has, the observer loops for ever, a   *)
(* stopped node is started again and time passes.  Nobody owes a message.  *)
FairSpec ==
  /\ Spec
  /\ \A m \in Msg : /\ WF_vars(Read(m)) /\ WF_vars(Check(m))
                    /\ WF_vars(PauseEnds(m)) /\ WF_vars(Expire(m))
  /\ WF_vars(CoreTask) /\ WF_vars(ActionTask) /\ WF_vars(Observer)
  /\ WF_vars(Boot)
-----------------------------------------------------------------------------
(* However often a message is announced, taken up and looked at again, and *)
(* wherever the node stops, its handler does its work at most once: the    *)
(* look-up, the unique key, the one task at a time and the status that is  *)
(* set before a message is taken up again have to work together for that.  *)
HandledOnce == \A m \in Msg : handled[m] <= 1

(* Core's copy of a message is not deleted before the node has its own.    *)
NeverLost == \A m \in Msg : core[m] = "removed" => row[m] # None

(* What was decided about a message stays decided.                         *)
FateIsFinal ==
  [][\A m \in Msg : row[m] \in Final => row'[m] = row[m]]_vars

(* The status tells what was done for a message: all of it when it is      *)
(* processed, and nothing when it has not begun, was refused or waits, for *)
(* whichever of the two reasons; else to take it up again would repeat it. *)
StatusTellsHandling ==
  \A m \in Msg :
    /\ row[m] = "PROCESSED" => handled[m] = 1
    /\ row[m] \in {None, "NEW", "PARSING_FAILED", "VALIDATION_FAILED", "BLACKLISTED", "WAITING"} =>
         handled[m] = 0

(* While the node runs, a message that is shown as being processed really  *)
(* is: it is in the actionQueue with somebody waiting for it.  But for one *)
(* that nobody listens for: its row says so for ever.                      *)
BeingProcessed(m) ==
  /\ \E i \in DOMAIN action : action[i] = m
  /\ \/ stage = "acting" /\ Head(queue) = m
     \/ page # <<>> /\ Head(page) = m
Attended ==
  crashes = 0 =>
    \A m \in Msg \ Unheard : row[m] = "PROCESSING" => BeingProcessed(m)

(* A waiting message is taken up in the end when what it waits for has     *)
(* been processed, also when newer ones fill the page: those expire.  But  *)
(* for newer ones that wait because their handler said so: they do not.    *)
PageTaken(m) ==
  PageLimit <= Cardinality({x \in Waiting \cap LooksAgain : InSequence(x) /\ ReceivedAt(x) > ReceivedAt(m)})
WaitingIsTakenUp ==
  \A m \in Msg :
    (row[m] = "WAITING" /\ InSequence(m)) ~> (row[m] # "WAITING" \/ PageTaken(m))

(* What core has received after the last message that the node has stored  *)
(* and has not shown to it is stored when the node has come back.  (What   *)
(* was overtaken before the node stopped is not asked for again.)          *)
LaterThanStored(m) ==
  \A x \in Msg : row[x] # None => ReceivedAt(x) < ReceivedAt(m)
DowntimeRecovered ==
  \A m \in Msg :
    (~ up /\ core[m] = "unread" /\ LaterThanStored(m)) ~> row[m] # None

=============================================================================
