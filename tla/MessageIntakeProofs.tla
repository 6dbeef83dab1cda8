------------------------ MODULE MessageIntakeProofs ------------------------
(***************************************************************************)
(* The safety of MessageIntake, proved for every set of messages with any  *)
(* prerequisites and copies, any number of workers, announcements, stops   *)
(* and waiting messages on a page.                                         *)
(***************************************************************************)
EXTENDS MessageIntake, FiniteSetTheorems, TLAPS

-----------------------------------------------------------------------------
(* Sequences without repetition.                                           *)

Holds(s, x) == \E i \in DOMAIN s : s[i] = x
Distinct(s) == \A i, j \in DOMAIN s : s[i] = s[j] => i = j

(* What is appended is held from then on, and only that is new.            *)
LEMMA Appended ==
  ASSUME NEW S, NEW s \in Seq(S), NEW e \in S
  PROVE  /\ Append(s, e) \in Seq(S) /\ Append(s, e) # <<>>
         /\ Head(Append(s, e)) = IF s = <<>> THEN e ELSE Head(s)
         /\ \A x : Holds(Append(s, e), x) <=> (Holds(s, x) \/ x = e)
         /\ Distinct(s) /\ ~ Holds(s, e) => Distinct(Append(s, e))
<1> DEFINE t == Append(s, e)
<1>1. t \in Seq(S) /\ t # <<>> /\ Head(t) = IF s = <<>> THEN e ELSE Head(s)
  <2>1. t \in Seq(S) /\ Len(t) = Len(s) + 1 /\ Len(s) \in Nat
    OBVIOUS
  <2>2. t # <<>> /\ Head(t) = t[1]
    BY <2>1
  <2>3. CASE s = <<>>
    BY <2>2, <2>3
  <2>4. CASE s # <<>>
    BY <2>2, <2>4
  <2>5. QED
    BY <2>1, <2>2, <2>3, <2>4
<1>2. /\ DOMAIN s = 1 .. Len(s) /\ DOMAIN t = 1 .. Len(s) + 1 /\ Len(s) \in Nat
      /\ \A i \in 1 .. Len(s) : t[i] = s[i]
      /\ t[Len(s) + 1] = e
  OBVIOUS
<1>3. ASSUME NEW x PROVE Holds(t, x) <=> (Holds(s, x) \/ x = e)
  <2>1. CASE Holds(t, x)
    <3>1. PICK i \in DOMAIN t : t[i] = x
      BY <2>1 DEF Holds
    <3>2. CASE i = Len(s) + 1
      BY <3>1, <3>2, <1>2, <2>1
    <3>3. CASE i # Len(s) + 1
      BY <3>1, <3>3, <1>2, <2>1 DEF Holds
    <3>4. QED
      BY <3>2, <3>3
  <2>2. CASE Holds(s, x)
    BY <2>2, <1>2 DEF Holds
  <2>3. CASE x = e
    <3>1. Len(s) + 1 \in DOMAIN t
      BY <1>2
    <3>2. QED
      BY <3>1, <1>2, <2>3 DEF Holds
  <2>4. QED
    BY <2>1, <2>2, <2>3
<1>4. ASSUME Distinct(s), ~ Holds(s, e) PROVE Distinct(t)
  <2>1. SUFFICES ASSUME NEW i \in DOMAIN t, NEW j \in DOMAIN t, t[i] = t[j] PROVE i = j
    BY DEF Distinct
  <2>2. CASE i \in DOMAIN s /\ j \in DOMAIN s
    BY <2>1, <2>2, <1>2, <1>4 DEF Distinct
  <2>3. CASE i = Len(s) + 1 \/ j = Len(s) + 1
    BY <2>1, <2>3, <1>2, <1>4 DEF Holds
  <2>4. QED
    BY <2>2, <2>3, <1>2
<1>5. QED
  BY <1>1, <1>3, <1>4

(* The head of a sequence without repetition is not in its tail, and all   *)
(* else is.                                                                *)
LEMMA Shortened ==
  ASSUME NEW S, NEW s \in Seq(S), s # <<>>, Distinct(s)
  PROVE  /\ Tail(s) \in Seq(S) /\ Head(s) \in S /\ Holds(s, Head(s))
         /\ \A x : Holds(Tail(s), x) <=> (Holds(s, x) /\ x # Head(s))
         /\ Distinct(Tail(s))
<1> DEFINE t == Tail(s)
<1>1. /\ t \in Seq(S) /\ Head(s) \in S /\ Head(s) = s[1] /\ Len(s) \in Nat \ {0}
      /\ DOMAIN s = 1 .. Len(s) /\ DOMAIN t = 1 .. Len(s) - 1
      /\ \A i \in 1 .. Len(s) - 1 : t[i] = s[i + 1]
  OBVIOUS
<1>2. 1 \in DOMAIN s /\ Holds(s, Head(s))
  BY <1>1 DEF Holds
<1>3. ASSUME NEW x PROVE Holds(t, x) <=> (Holds(s, x) /\ x # Head(s))
  <2>1. CASE Holds(t, x)
    <3>1. PICK i \in DOMAIN t : t[i] = x
      BY <2>1 DEF Holds
    <3>2. i + 1 \in DOMAIN s /\ s[i + 1] = x /\ i + 1 # 1
      BY <3>1, <1>1
    <3>3. x # Head(s)
      BY <3>2, <1>1, <1>2 DEF Distinct
    <3>4. QED
      BY <2>1, <3>2, <3>3 DEF Holds
  <2>2. CASE Holds(s, x) /\ x # Head(s)
    <3>1. PICK i \in DOMAIN s : s[i] = x
      BY <2>2 DEF Holds
    <3>2. i - 1 \in DOMAIN t /\ t[i - 1] = x
      BY <3>1, <2>2, <1>1
    <3>3. QED
      BY <2>2, <3>2 DEF Holds
  <2>3. QED
    BY <2>1, <2>2
<1>4. Distinct(t)
  <2>1. SUFFICES ASSUME NEW i \in DOMAIN t, NEW j \in DOMAIN t, t[i] = t[j] PROVE i = j
    BY DEF Distinct
  <2>2. i + 1 \in DOMAIN s /\ j + 1 \in DOMAIN s /\ s[i + 1] = s[j + 1]
    BY <2>1, <1>1
  <2>3. i + 1 = j + 1
    BY <2>2 DEF Distinct
  <2>4. QED
    BY <2>3, <1>1
<1>5. QED
  BY <1>1, <1>2, <1>3, <1>4

-----------------------------------------------------------------------------
(* The inductive invariant.  It says where each status comes from: a row   *)
(* is NEW while its task is between saving and starting, PROCESSING from   *)
(* the moment it goes into the actionQueue, and whatever can still go      *)
(* there has not been handled.                                             *)

Typing ==
  /\ core \in [Msg -> {None, "unread", "read", "removed"}]
  /\ row \in [Msg -> SmsgMessageStatus \cup {None}]
  /\ handled \in [Msg -> Nat]
  /\ queue \in Seq(Msg) /\ action \in Seq(Msg)
  /\ stage \in {"idle", "saved", "removed", "acting"}
  /\ acted \in BOOLEAN /\ crashes \in Nat

(* A task that has begun has a message, and until it starts its row is new. *)
TaskRests ==
  /\ stage # "idle" => queue # <<>>
  /\ stage \in {"saved", "removed"} => row[Head(queue)] = "NEW"

(* What is in the actionQueue is there once, shown as being processed, and *)
(* not handled but for the head of which onEvent() has returned.           *)
ActionRests ==
  /\ Distinct(action)
  /\ acted => action # <<>>
  /\ \A m \in Msg : Holds(action, m) =>
       /\ m \notin Unheard /\ row[m] = "PROCESSING"
       /\ handled[m] = IF acted /\ m = Head(action) THEN 1 ELSE 0

(* Only what waits is due.                                                 *)
DueRests == due \subseteq Msg /\ \A m \in due : row[m] = "WAITING"

SafeRows == HandledOnce /\ NeverLost /\ StatusTellsHandling /\ DueRests

IInv == Typing /\ TaskRests /\ ActionRests /\ SafeRows /\ Attended

(* The inductive invariant holds before any message has come.              *)
LEMMA Initially == Init => IInv
<1> SUFFICES ASSUME Init PROVE IInv
  OBVIOUS
<1> USE DEF Init
<1>1. Typing /\ TaskRests
  <2>1. <<>> \in Seq(Msg)
    OBVIOUS
  <2>2. QED
    BY <2>1 DEF Typing, TaskRests, SmsgMessageStatus, None
<1>2. ActionRests
  BY DEF ActionRests, Distinct, Holds
<1>3. SafeRows
  BY DEF SafeRows, HandledOnce, NeverLost, StatusTellsHandling, DueRests, None
<1>4. Attended
  BY DEF Attended, BeingProcessed, None
<1>5. QED
  BY <1>1, <1>2, <1>3, <1>4 DEF IInv

(* Steps that neither begin nor end the processing of a message.           *)
LEMMA IntakeSteps ==
  ASSUME IInv,
         \/ \E m \in Msg : Arrive(m) \/ smsgScanBuckets(m) \/ Read(m) \/ Check(m) \/ Expire(m)
         \/ Boot \/ FetchPage \/ PassOver
         \/ UNCHANGED vars
  PROVE  IInv'
<1> USE DEF IInv, inbox, database, memory, world
<1>1. UNCHANGED <<row, handled, action, acted, due, crashes, stage>>
  BY DEF Arrive, smsgScanBuckets, Read, Check, Expire, Boot, FetchPage, PassOver,
         pushUnreadCoreSmsgMessages, vars
<1>2. /\ queue' \in Seq(Msg)
      /\ queue # <<>> => queue' # <<>> /\ Head(queue') = Head(queue)
  <2>1. CASE \E m \in Msg : Check(m)
    <3>1. PICK m \in Msg : Check(m)
      BY <2>1
    <3>2. CASE queue' = Append(queue, m)
      BY <3>2, Appended DEF Typing
    <3>3. CASE queue' = queue
      BY <3>3 DEF Typing
    <3>4. QED
      BY <3>1, <3>2, <3>3 DEF Check
  <2>2. CASE UNCHANGED queue
    BY <2>2 DEF Typing
  <2>3. QED
    BY <2>1, <2>2 DEF Arrive, smsgScanBuckets, Read, Expire, Boot, FetchPage, PassOver, vars
<1>3. /\ core' \in [Msg -> {None, "unread", "read", "removed"}]
      /\ \A m \in Msg : core'[m] = "removed" => core[m] = "removed"
  BY DEF Typing, Arrive, smsgScanBuckets, Read, Check, Expire, Boot, FetchPage, PassOver,
         pushUnreadCoreSmsgMessages, vars, None
<1>4. \A m \in Msg : page # <<>> /\ Head(page) = m /\ Holds(action, m)
         => page' # <<>> /\ Head(page') = m
  BY DEF Arrive, smsgScanBuckets, Read, Check, Expire, Boot, FetchPage, PassOver, OnPage,
         pushUnreadCoreSmsgMessages, vars, Holds
<1>5. Typing' /\ TaskRests'
  BY <1>1, <1>2, <1>3 DEF Typing, TaskRests
<1>6. ActionRests'
  BY <1>1 DEF ActionRests
<1>7. SafeRows'
  BY <1>1, <1>3 DEF SafeRows, HandledOnce, NeverLost, StatusTellsHandling, DueRests
<1>8. Attended'
  BY <1>1, <1>2, <1>4 DEF Attended, BeingProcessed, TaskRests, Holds
<1>9. QED
  BY <1>5, <1>6, <1>7, <1>8

(* Steps on the way of a message to its dispatch.                          *)
LEMMA SaveStep == ASSUME IInv, Save PROVE IInv'
<1> USE DEF IInv, inbox, world
<1> DEFINE m == Head(queue)
<1>1. m \in Msg /\ Tail(queue) \in Seq(Msg)
  BY DEF Save, Typing
<1>2. UNCHANGED <<core, handled, action, acted, due, crashes, page>>
  BY DEF Save
<1>3. CASE row[m] = None
  <2>1. row' = [row EXCEPT ![m] = "NEW"] /\ stage' = "saved" /\ queue' = queue
    BY <1>3 DEF Save
  <2>2. Typing' /\ TaskRests'
    BY <1>1, <1>2, <2>1 DEF Typing, TaskRests, Save, SmsgMessageStatus
  <2>3. ActionRests'
    BY <1>1, <1>2, <1>3, <2>1 DEF ActionRests, Typing, None
  <2>4. SafeRows'
    BY <1>1, <1>2, <1>3, <2>1
    DEF SafeRows, HandledOnce, NeverLost, StatusTellsHandling, DueRests,
        Typing, None
  <2>5. Attended'
    BY <1>1, <1>2, <1>3, <2>1 DEF Attended, BeingProcessed, Typing, Save
  <2>6. QED
    BY <2>2, <2>3, <2>4, <2>5
<1>4. CASE row[m] # None
  <2>1. row' = row /\ stage' = "idle" /\ queue' = Tail(queue)
    BY <1>4 DEF Save, TaskDone
  <2>2. Typing' /\ TaskRests'
    BY <1>1, <1>2, <2>1 DEF Typing, TaskRests
  <2>3. ActionRests'
    BY <1>2, <2>1 DEF ActionRests
  <2>4. SafeRows'
    BY <1>2, <2>1 DEF SafeRows, HandledOnce, NeverLost, StatusTellsHandling, DueRests
  <2>5. Attended'
    BY <1>2, <2>1 DEF Attended, BeingProcessed, Save
  <2>6. QED
    BY <2>2, <2>3, <2>4, <2>5
<1>5. QED
  BY <1>3, <1>4

(* The message leaves core's inbox when its row is there already.          *)
LEMMA RemoveStep == ASSUME IInv, Remove PROVE IInv'
<1> USE DEF IInv, database, world
<1>1. /\ Head(queue) \in Msg /\ Tail(queue) \in Seq(Msg) /\ row[Head(queue)] = "NEW"
      /\ queue # <<>>
  BY DEF Remove, Typing, TaskRests
<1>2. UNCHANGED <<row, handled, action, acted, due, crashes, page>>
  BY DEF Remove
<1>3. /\ core' \in [Msg -> {None, "unread", "read", "removed"}]
      /\ \A m \in Msg : core'[m] = "removed" => core[m] = "removed" \/ m = Head(queue)
  BY <1>1 DEF Remove, Typing
<1>4. \/ stage' = "removed" /\ queue' = queue
      \/ stage' = "idle" /\ queue' = Tail(queue)
  BY DEF Remove, TaskDone
<1>5. Typing' /\ TaskRests'
  BY <1>1, <1>2, <1>3, <1>4 DEF Typing, TaskRests
<1>6. ActionRests'
  BY <1>2 DEF ActionRests
<1>7. SafeRows'
  BY <1>1, <1>2, <1>3 DEF SafeRows, HandledOnce, NeverLost, StatusTellsHandling, DueRests, None
<1>8. Attended'
  BY <1>2, <1>4 DEF Attended, BeingProcessed, Remove
<1>9. QED
  BY <1>5, <1>6, <1>7, <1>8

(* Dispatching a message that is new or waits and was not handled.         *)
LEMMA Dispatched ==
  ASSUME IInv, NEW m \in Msg, row[m] \in {"NEW", "WAITING"}, Dispatch(m),
         UNCHANGED <<core, handled, acted, crashes, queue, page>>,
         due' = due \ {m},
         \/ stage = "removed" /\ stage' = "acting" /\ m = Head(queue)
         \/ stage' = stage /\ page # <<>> /\ m = Head(page) /\ row[m] = "WAITING"
  PROVE  IInv'
<1> USE DEF IInv
<1>1. ~ Holds(action, m)
  BY DEF ActionRests
<1>2. /\ action' \in Seq(Msg) /\ action' # <<>> /\ Distinct(action')
      /\ Head(action') = IF action = <<>> THEN m ELSE Head(action)
      /\ \A x : Holds(action', x) <=> (Holds(action, x) \/ x = m)
  BY <1>1, Appended DEF Dispatch, Typing, ActionRests
<1>3. /\ row' \in [Msg -> SmsgMessageStatus \cup {None}] /\ row'[m] = "PROCESSING"
      /\ \A x \in Msg \ {m} : row'[x] = row[x]
  BY DEF Dispatch, Typing, SmsgMessageStatus
<1>4. handled[m] = 0
  BY DEF SafeRows, StatusTellsHandling, None
<1>5. Typing'
  BY <1>2, <1>3 DEF Typing
<1>6. TaskRests'
  <2>1. stage' \in {"saved", "removed"} => Head(queue) # m
    BY DEF TaskRests, SafeRows, DueRests
  <2>2. QED
    BY <1>3, <2>1 DEF TaskRests, Typing
<1>7. ActionRests'
  <2>1. acted => Head(action') = Head(action) /\ Head(action) # m
    BY <1>1, <1>2, Shortened DEF ActionRests, Typing
  <2>2. ASSUME NEW x \in Msg, Holds(action', x)
        PROVE  x \notin Unheard /\ row'[x] = "PROCESSING" /\ handled'[x] = IF acted' /\ x = Head(action') THEN 1 ELSE 0
    BY <1>2, <1>3, <1>4, <2>1, <2>2 DEF ActionRests, Dispatch
  <2>3. QED
    BY <1>2, <2>2 DEF ActionRests
<1>8. SafeRows'
  BY <1>3, <1>4 DEF SafeRows, HandledOnce, NeverLost, StatusTellsHandling, DueRests, None
<1>9. Attended'
  BY <1>2, <1>3 DEF Attended, BeingProcessed, Holds
<1>10. QED
  BY <1>5, <1>6, <1>7, <1>8, <1>9

(* The dispatch throws: nobody works on the message from then on.          *)
LEMMA DispatchThrown ==
  ASSUME IInv, NEW m \in Msg, row[m] \in {"NEW", "WAITING"}, DispatchThrows(m),
         UNCHANGED <<core, handled, acted, crashes>>,
         due' = due \ {m},
         \/ stage = "removed" /\ m = Head(queue) /\ TaskDone /\ UNCHANGED page
         \/ UNCHANGED <<stage, queue>> /\ OnPage /\ m = Head(page) /\ page' = <<>>
            /\ row[m] = "WAITING"
  PROVE  IInv'
<1> USE DEF IInv
<1>1. ~ Holds(action, m) /\ UNCHANGED action
  BY DEF ActionRests, DispatchThrows
<1>2. /\ row' \in [Msg -> SmsgMessageStatus \cup {None}]
      /\ row'[m] \in {"PROCESSING", "PARSING_FAILED"}
      /\ row'[m] = "PROCESSING" => m \in Unheard
      /\ \A x \in Msg \ {m} : row'[x] = row[x]
  BY DEF DispatchThrows, Typing, SmsgMessageStatus
<1>3. handled[m] = 0
  BY DEF SafeRows, StatusTellsHandling
<1>4. Typing'
  <2>1. queue' \in Seq(Msg) /\ stage' \in {"idle", "saved", "removed", "acting"}
    <3>1. CASE stage = "removed" /\ TaskDone
      BY <3>1 DEF TaskDone, Typing, TaskRests
    <3>2. CASE UNCHANGED <<stage, queue>>
      BY <3>2 DEF Typing
    <3>3. QED
      BY <3>1, <3>2
  <2>2. QED
    BY <1>1, <1>2, <2>1 DEF Typing
<1>5. TaskRests'
  <2>1. CASE TaskDone
    BY <2>1 DEF TaskDone, TaskRests
  <2>2. CASE UNCHANGED <<stage, queue>> /\ row[m] = "WAITING"
    BY <1>2, <2>2 DEF TaskRests, Typing
  <2>3. QED
    BY <2>1, <2>2
<1>6. ActionRests'
  BY <1>1, <1>2 DEF ActionRests
<1>7. SafeRows'
  BY <1>2, <1>3 DEF SafeRows, HandledOnce, NeverLost, StatusTellsHandling, DueRests, None
<1>8. Attended'
  <2>1. SUFFICES ASSUME crashes = 0, NEW x \in Msg \ Unheard, row'[x] = "PROCESSING"
        PROVE  BeingProcessed(x)'
    BY DEF Attended, BeingProcessed
  <2>2. x # m /\ row[x] = "PROCESSING" /\ BeingProcessed(x)
    BY <1>2, <2>1 DEF Attended, BeingProcessed
  <2>3. QED
    BY <1>1, <2>2 DEF BeingProcessed, OnPage, TaskDone
<1>9. QED
  BY <1>4, <1>5, <1>6, <1>7, <1>8

(* A saved message is queued for its action.                               *)
LEMMA StartStep == ASSUME IInv, Start PROVE IInv'
<1> USE DEF inbox, world
<1>1. queue # <<>> /\ Head(queue) \in Msg /\ row[Head(queue)] = "NEW"
  BY DEF Start, IInv, TaskRests, Typing
<1>2. due = due \ {Head(queue)}
  BY <1>1 DEF IInv, SafeRows, DueRests
<1>3. CASE Dispatch(Head(queue)) /\ stage' = "acting" /\ UNCHANGED queue
  BY <1>1, <1>2, <1>3, Dispatched DEF Start
<1>4. CASE DispatchThrows(Head(queue)) /\ TaskDone
  BY <1>1, <1>2, <1>4, DispatchThrown DEF Start
<1>5. QED
  BY <1>3, <1>4 DEF Start

(* A waiting message is queued for its action once more.                   *)
LEMMA ReprocessStep == ASSUME IInv, Reprocess PROVE IInv'
<1>1. page # <<>> /\ Head(page) \in Msg /\ row[Head(page)] = "WAITING"
  BY DEF Reprocess, OnPage, IInv, SafeRows, DueRests
<1>2. CASE Dispatch(Head(page)) /\ UNCHANGED page
  BY <1>1, <1>2, Dispatched DEF Reprocess, inbox
<1>3. CASE DispatchThrows(Head(page)) /\ page' = <<>>
  BY <1>1, <1>3, DispatchThrown DEF Reprocess, inbox
<1>4. QED
  BY <1>2, <1>3 DEF Reprocess

(* The pause of a waiting message ends.                                    *)
LEMMA PauseStep == ASSUME IInv, NEW m \in Msg, PauseEnds(m) PROVE IInv'
<1> USE DEF IInv, inbox, database, memory
<1>1. Typing' /\ TaskRests' /\ ActionRests' /\ Attended'
  BY DEF PauseEnds, Typing, TaskRests, ActionRests, Attended, BeingProcessed
<1>2. SafeRows'
  BY DEF PauseEnds, SafeRows, HandledOnce, NeverLost, StatusTellsHandling, DueRests
<1>3. QED
  BY <1>1, <1>2

(* The head of the actionQueue gets a status and is returned to its caller. *)
LEMMA Returned ==
  ASSUME IInv, action # <<>>, NEW status, SetStatus(Head(action), status), acted' = FALSE,
         UNCHANGED <<core, handled, due, crashes>>,
         \/ ~ acted /\ status \in {"WAITING", "PROCESSING_FAILED", "VALIDATION_FAILED", "BLACKLISTED"}
         \/ acted /\ status \in {"PROCESSED", "PROCESSING_FAILED"}
  PROVE  IInv'
<1> USE DEF IInv
<1> DEFINE m == Head(action)
<1>1. /\ action' \in Seq(Msg) /\ Distinct(action') /\ m \in Msg /\ Holds(action, m)
      /\ \A x : Holds(action', x) <=> (Holds(action, x) /\ x # m)
  BY Shortened DEF SetStatus, Return, Typing, ActionRests
<1>2. /\ row' \in [Msg -> SmsgMessageStatus \cup {None}] /\ row'[m] = status
      /\ \A x \in Msg \ {m} : row'[x] = row[x]
  BY <1>1 DEF SetStatus, Typing, SmsgMessageStatus
<1>3. m \notin Unheard /\ row[m] = "PROCESSING" /\ handled[m] = IF acted THEN 1 ELSE 0
  BY <1>1 DEF ActionRests
<1>4. \/ stage = "acting" /\ Head(queue) = m /\ queue' = Tail(queue) /\ stage' = "idle"
      \/ ~ (stage = "acting" /\ Head(queue) = m) /\ UNCHANGED <<queue, stage>>
  BY DEF SetStatus, Return, TaskDone
<1>5. stage = "acting" => Tail(queue) \in Seq(Msg)
  BY DEF TaskRests, Typing
<1>6. Typing'
  BY <1>1, <1>2, <1>4, <1>5 DEF Typing
<1>7. TaskRests'
  <2>1. stage \in {"saved", "removed"} => Head(queue) # m /\ Head(queue) \in Msg
    BY <1>3 DEF TaskRests, Typing
  <2>2. QED
    BY <1>2, <1>4, <2>1 DEF TaskRests
<1>8. ActionRests'
  BY <1>1, <1>2 DEF ActionRests
<1>9. SafeRows'
  BY <1>2, <1>3 DEF SafeRows, HandledOnce, NeverLost, StatusTellsHandling, DueRests, None
<1>10. Attended'
  <2>1. SUFFICES ASSUME crashes = 0, NEW x \in Msg \ Unheard, row'[x] = "PROCESSING"
        PROVE  /\ Holds(action', x)
               /\ \/ stage' = "acting" /\ Head(queue') = x
                  \/ page' # <<>> /\ Head(page') = x
    BY DEF Attended, BeingProcessed, Holds
  <2>2. x # m /\ row[x] = "PROCESSING"
    BY <1>2, <2>1
  <2>3. /\ Holds(action, x)
        /\ (stage = "acting" /\ Head(queue) = x) \/ (page # <<>> /\ Head(page) = x)
        /\ (stage = "acting" /\ Head(queue) = m) \/ (page # <<>> /\ Head(page) = m)
    <3>1. crashes = 0 /\ m \in Msg \ Unheard /\ x \in Msg \ Unheard
      BY <1>3, <1>1, <2>1
    <3>2. BeingProcessed(m) /\ BeingProcessed(x)
      BY <1>3, <2>2, <3>1 DEF Attended
    <3>3. QED
      BY <3>2 DEF BeingProcessed, Holds
  <2>4. QED
    BY <1>1, <1>4, <2>2, <2>3 DEF SetStatus, Return
<1>11. QED
  BY <1>6, <1>7, <1>8, <1>9, <1>10

(* A message is refused, made to wait, or done: its status is stored.      *)
LEMMA ActionSteps == ASSUME IInv, Refuse \/ OutOfSequence \/ LookedTooEarly \/ Finish PROVE IInv'
<1> USE DEF inbox, world
<1>1. CASE Refuse
  BY <1>1, Returned DEF Refuse, IInv, Typing
<1>2. CASE OutOfSequence
  BY <1>2, Returned DEF OutOfSequence, IInv, Typing
<1>3. CASE Finish
  BY <1>3, Returned DEF Finish, IInv, ActionRests
<1>4. CASE LookedTooEarly
  BY <1>4, Returned DEF LookedTooEarly, IInv, Typing
<1>5. QED
  BY <1>1, <1>2, <1>3, <1>4

(* The event of a message is handled; its status is stored only later.     *)
LEMMA OnEventStep == ASSUME IInv, onEvent PROVE IInv'
<1> USE DEF IInv, inbox, world
<1> DEFINE m == Head(action)
<1>1. m \in Msg /\ Holds(action, m)
  BY Shortened DEF onEvent, Typing, ActionRests
<1>2. row[m] = "PROCESSING" /\ handled[m] = 0
  BY <1>1 DEF ActionRests, onEvent
<1>3. /\ handled' \in [Msg -> Nat] /\ handled'[m] = 1
      /\ \A x \in Msg \ {m} : handled'[x] = handled[x]
  BY <1>1, <1>2 DEF onEvent, Typing
<1>4. Typing' /\ TaskRests' /\ Attended'
  BY <1>3 DEF onEvent, Typing, TaskRests, Attended, BeingProcessed
<1>5. ActionRests'
  BY <1>1, <1>3 DEF onEvent, ActionRests
<1>6. SafeRows'
  BY <1>2, <1>3 DEF onEvent, SafeRows, HandledOnce, NeverLost, StatusTellsHandling, DueRests, None
<1>7. QED
  BY <1>4, <1>5, <1>6

(* What is stored outlives a stop, what is in memory does not.             *)
LEMMA CrashStep == ASSUME IInv, Crash PROVE IInv'
<1> USE DEF IInv, database
<1>1. <<>> \in Seq(Msg)
  OBVIOUS
<1>2. Typing' /\ TaskRests'
  <2>1. crashes' \in Nat
    BY DEF Crash, Typing
  <2>2. QED
    BY <1>1, <2>1 DEF Crash, Typing, TaskRests
<1>3. ActionRests'
  BY DEF Crash, ActionRests, Distinct, Holds
<1>4. SafeRows'
  BY DEF Crash, SafeRows, HandledOnce, NeverLost, StatusTellsHandling, DueRests
<1>5. Attended'
  BY DEF Crash, Attended, BeingProcessed, Typing
<1>6. QED
  BY <1>2, <1>3, <1>4, <1>5

(* Every step keeps the inductive invariant.                               *)
LEMMA Inductive == ASSUME IInv, [Next]_vars PROVE IInv'
<1>1. CASE Save \/ Remove \/ Start
  BY <1>1, SaveStep, RemoveStep, StartStep
<1>2. CASE ActionTask
  BY <1>2, ActionSteps, OnEventStep DEF ActionTask
<1>3. CASE Reprocess
  BY <1>3, ReprocessStep
<1>4. CASE \E m \in Msg : PauseEnds(m)
  BY <1>4, PauseStep
<1>5. CASE Crash
  BY <1>5, CrashStep
<1>6. CASE \/ \E m \in Msg : Arrive(m) \/ smsgScanBuckets(m) \/ Read(m) \/ Check(m) \/ Expire(m)
           \/ Boot \/ FetchPage \/ PassOver
           \/ UNCHANGED vars
  BY <1>6, IntakeSteps
<1>7. QED
  BY <1>1, <1>2, <1>3, <1>4, <1>5, <1>6 DEF Next, CoreTask, Observer

(* The invariant, for every set of messages and every bound.               *)
THEOREM Invariance == Spec => []IInv
<1>1. IInv /\ [Next]_vars => IInv'
  BY Inductive
<1>2. QED
  BY Initially, <1>1, PTL DEF Spec

(* However often a message is announced, found again, copied or taken up,  *)
(* however often its handler looks and returns WAITING, and wherever the   *)
(* node stops, the handler does its work at most once.                     *)
THEOREM HandledOnceHolds == Spec => []HandledOnce
<1>1. IInv => HandledOnce
  BY DEF IInv, SafeRows
<1>2. QED
  BY Invariance, <1>1, PTL

(* Core's copy of a message is deleted only when the node has a row of it. *)
THEOREM NeverLostHolds == Spec => []NeverLost
<1>1. IInv => NeverLost
  BY DEF IInv, SafeRows
<1>2. QED
  BY Invariance, <1>1, PTL

(* What is shown as processed has been handled, and nothing has been done  *)
(* for what has not begun, was refused or waits.                           *)
THEOREM StatusTellsHandlingHolds == Spec => []StatusTellsHandling
<1>1. IInv => StatusTellsHandling
  BY DEF IInv, SafeRows
<1>2. QED
  BY Invariance, <1>1, PTL

(* Until the node stops, what is shown as being processed really is in the *)
(* actionQueue, and somebody waits for it, unless nobody listens for it.   *)
THEOREM AttendedHolds == Spec => []Attended
<1>1. IInv => Attended
  BY DEF IInv
<1>2. QED
  BY Invariance, <1>1, PTL

(* A status that says what became of a message is never changed: the       *)
(* actions that write a status find another one there.                     *)
LEMMA FinalStays ==
  ASSUME IInv, [Next]_vars, NEW m \in Msg, row[m] \in Final
  PROVE  row'[m] = row[m]
<1> USE DEF IInv
<1>1. CASE Save
  BY <1>1 DEF Save, Final, SmsgMessageStatus, None, Typing
<1>2. CASE Start
  BY <1>2 DEF Start, Dispatch, DispatchThrows, TaskRests, Final, Typing
<1>3. CASE Reprocess
  BY <1>3 DEF Reprocess, OnPage, Dispatch, DispatchThrows, SafeRows, DueRests, Final, Typing
<1>4. CASE Refuse \/ OutOfSequence \/ LookedTooEarly \/ Finish
  <2>1. action # <<>>
    BY <1>4 DEF Refuse, OutOfSequence, LookedTooEarly, Finish, ActionRests
  <2>2. Head(action) \in Msg /\ row[Head(action)] = "PROCESSING"
    BY <2>1, Shortened DEF ActionRests, Typing
  <2>3. QED
    BY <1>4, <2>2 DEF Refuse, OutOfSequence, LookedTooEarly, Finish, SetStatus, Final, Typing
<1>5. CASE UNCHANGED row
  BY <1>5
<1>6. QED
  BY <1>1, <1>2, <1>3, <1>4, <1>5
  DEF Next, CoreTask, ActionTask, Observer, Remove, onEvent, FetchPage, PassOver, Crash, Boot,
      Arrive, smsgScanBuckets, Read, Check, PauseEnds, Expire, inbox, database, memory, world, vars

(* So no step of the specification changes what became of a message.       *)
THEOREM FateIsFinalHolds == Spec => FateIsFinal
<1>1. IInv /\ [Next]_vars => [\A m \in Msg : row[m] \in Final => row'[m] = row[m]]_vars
  BY FinalStays
<1>2. QED
  BY Invariance, <1>1, PTL DEF Spec, FateIsFinal

-----------------------------------------------------------------------------
(* Types.  Three of them rest on more than types: the workers that are     *)
(* reading are fewer than there are, an announcement of a new message is   *)
(* the first, and a page of waiting messages is a sequence, as these have  *)
(* an order.                                                               *)

(* Core, and so the node, knows the messages that it has received.         *)
Reached ==
  /\ received \in Seq(Msg) /\ Distinct(received)
  /\ \A m \in Msg :
       /\ core[m] # None <=> Holds(received, m)
       /\ row[m] # None \/ reading[m] > 0 \/ notices[m] > 0 \/ Holds(queue, m) => core[m] # None

(* Whoever has put a message into the actionQueue waits for it.            *)
Awaited ==
  \A m \in Msg : Holds(action, m) =>
    \/ stage = "acting" /\ Head(queue) = m
    \/ page # <<>> /\ Head(page) = m

TInv == IInv /\ TypeOK /\ Reached /\ Awaited /\ IsFiniteSet(Readings)

(* An injection of a set into as many numbers takes every one of them.     *)
LEMMA EveryRank ==
  ASSUME NEW W, IsFiniteSet(W), NEW f \in Injection(W, 1 .. Cardinality(W))
  PROVE  \A i \in 1 .. Cardinality(W) : \E m \in W : f[m] = i
<1>1. Cardinality(W) \in Nat
  BY FS_CardinalityType
<1>2. IsFiniteSet(1 .. Cardinality(W)) /\ Cardinality(1 .. Cardinality(W)) = Cardinality(W)
  BY <1>1, FS_Interval
<1>3. f \in Surjection(W, 1 .. Cardinality(W))
  BY <1>2, FS_Injection
<1>4. QED
  BY <1>3 DEF Surjection

(* What is newer than m, or m itself.                                      *)
Newer(m) == {x \in Waiting : ReceivedAt(x) >= ReceivedAt(m)}

(* Of two messages that wait, the older one has more that are newer.       *)
LEMMA Ranks ==
  ASSUME IsFiniteSet(Waiting), \A m \in Waiting : ReceivedAt(m) \in Nat,
         \A m, x \in Waiting : ReceivedAt(m) = ReceivedAt(x) => m = x
  PROVE  /\ Cardinality(Waiting) \in Nat
         /\ [m \in Waiting |-> Cardinality(Newer(m))] \in Injection(Waiting, 1 .. Cardinality(Waiting))
<1>1. Cardinality(Waiting) \in Nat
  BY FS_CardinalityType
<1>2. ASSUME NEW m \in Waiting
      PROVE  /\ IsFiniteSet(Newer(m)) /\ m \in Newer(m)
             /\ Cardinality(Newer(m)) \in 1 .. Cardinality(Waiting)
  <2>1. Newer(m) \in SUBSET Waiting /\ m \in Newer(m)
    BY DEF Newer
  <2>2. IsFiniteSet(Newer(m)) /\ Cardinality(Newer(m)) <= Cardinality(Waiting)
    BY <2>1, FS_Subset
  <2>3. Cardinality(Newer(m)) \in Nat /\ Cardinality(Newer(m)) # 0
    BY <2>1, <2>2, FS_CardinalityType, FS_EmptySet
  <2>4. QED
    BY <1>1, <2>1, <2>2, <2>3
<1>3. ASSUME NEW m \in Waiting, NEW x \in Waiting, Cardinality(Newer(m)) = Cardinality(Newer(x)),
             ReceivedAt(m) < ReceivedAt(x)
      PROVE  FALSE
  <2>1. Newer(x) \in SUBSET Newer(m)
    BY <1>3 DEF Newer
  <2>2. m \in Newer(m) /\ m \notin Newer(x)
    BY <1>3 DEF Newer
  <2>3. Newer(m) = Newer(x)
    BY <1>2, <1>3, <2>1, FS_Subset
  <2>4. QED
    BY <2>2, <2>3
<1>4. \A m, x \in Waiting : Cardinality(Newer(m)) = Cardinality(Newer(x)) => m = x
  <2>1. \A m, x \in Waiting : ReceivedAt(m) = ReceivedAt(x) \/ ReceivedAt(m) < ReceivedAt(x)
                                \/ ReceivedAt(x) < ReceivedAt(m)
    OBVIOUS
  <2>2. QED
    BY <1>3, <2>1
<1>5. QED
  BY <1>1, <1>2, <1>4 DEF Injection, IsInjective

(* So what is fetched is a page of messages.                               *)
LEMMA PageTyped ==
  ASSUME IntakeAssumption, IsFiniteSet(Waiting), \A m \in Waiting : ReceivedAt(m) \in Nat,
         \A m, x \in Waiting : ReceivedAt(m) = ReceivedAt(x) => m = x
  PROVE  getWaitingSmsgMessages \in Seq(Msg)
<1> DEFINE n == Cardinality(Waiting)
           f == [m \in Waiting |-> Cardinality(Newer(m))]
           F == {m \in Waiting : Cardinality(Newer(m)) <= PageLimit}
           s == [i \in 1 .. Cardinality(F) |-> CHOOSE m \in F : Cardinality(Newer(m)) = i]
<1>1. n \in Nat /\ f \in Injection(Waiting, 1 .. n)
  BY Ranks
<1>2. \A i \in 1 .. n : \E m \in Waiting : f[m] = i
  BY <1>1, EveryRank
<1>3. IsFiniteSet(F) /\ Cardinality(F) \in Nat /\ Cardinality(F) <= n
  BY FS_Subset, FS_CardinalityType
<1>4. Cardinality(F) <= PageLimit
  <2>1. PageLimit \in Nat
    BY DEF IntakeAssumption
  <2>2. IsFiniteSet(1 .. PageLimit) /\ Cardinality(1 .. PageLimit) = PageLimit
    BY <2>1, FS_Interval
  <2> DEFINE g == [m \in F |-> Cardinality(Newer(m))]
  <2>3. g \in [F -> 1 .. PageLimit]
    <3>1. \A m \in F : Cardinality(Newer(m)) \in 1 .. n
      BY <1>1 DEF Injection
    <3>2. QED
      BY <1>1, <2>1, <3>1
  <2>4. \A m, x \in F : g[m] = g[x] => m = x
    <3>1. \A m, x \in Waiting : f[m] = f[x] => m = x
      BY <1>1 DEF Injection, IsInjective
    <3>2. QED
      BY <3>1
  <2>5. g \in Injection(F, 1 .. PageLimit)
    BY <2>3, <2>4 DEF Injection, IsInjective
  <2>6. QED
    BY <2>2, <2>5, FS_Injection
<1>5. ASSUME NEW i \in 1 .. Cardinality(F) PROVE s[i] \in Msg
  <2>1. i \in 1 .. n /\ i <= PageLimit
    BY <1>1, <1>3, <1>4 DEF IntakeAssumption
  <2>2. PICK m \in Waiting : Cardinality(Newer(m)) = i
    BY <1>2, <2>1
  <2>3. \E x \in F : Cardinality(Newer(x)) = i
    BY <2>1, <2>2
  <2>4. (CHOOSE x \in F : Cardinality(Newer(x)) = i) \in F
    BY <2>3
  <2>5. QED
    BY <2>4 DEF Waiting
<1>6. s \in Seq(Msg)
  <2>1. s \in [1 .. Cardinality(F) -> Msg]
    BY <1>5, Zenon
  <2> HIDE DEF s, F
  <2>2. QED
    BY <1>3, <2>1
<1>7. QED
  BY <1>6 DEF getWaitingSmsgMessages, Newer

(* What waits is in the order in which core has received it.               *)
LEMMA WaitingInOrder ==
  ASSUME TInv
  PROVE  /\ IsFiniteSet(Waiting) /\ \A m \in Waiting : ReceivedAt(m) \in Nat
         /\ \A m, x \in Waiting : ReceivedAt(m) = ReceivedAt(x) => m = x
<1> DEFINE f == [m \in Waiting |-> ReceivedAt(m)]
<1>1. DOMAIN received = 1 .. Len(received) /\ Len(received) \in Nat
  BY DEF TInv, Reached
<1>2. ASSUME NEW m \in Waiting
      PROVE  ReceivedAt(m) \in 1 .. Len(received) /\ received[ReceivedAt(m)] = m
  <2>1. Holds(received, m)
    BY DEF TInv, Reached, Waiting, None
  <2>2. QED
    BY <1>1, <2>1 DEF Holds, ReceivedAt
<1>3. \A m, x \in Waiting : ReceivedAt(m) = ReceivedAt(x) => m = x
  BY <1>2
<1>4. f \in Injection(Waiting, 1 .. Len(received))
  BY <1>2, <1>3 DEF Injection, IsInjective
<1>5. IsFiniteSet(Waiting)
  BY <1>1, <1>4, FS_Interval, FS_Injection
<1>6. QED
  BY <1>1, <1>2, <1>3, <1>5

(* A message is not read by more workers than are reading at all.          *)
LEMMA FewerThanBusy ==
  ASSUME IntakeAssumption, TInv, NEW m \in Msg PROVE reading[m] <= Cardinality(Readings)
<1> DEFINE r == reading[m]
           f == [k \in 1 .. r |-> <<m, k>>]
<1>1. Workers \in Nat /\ r \in 0 .. Workers
  BY DEF IntakeAssumption, TInv, TypeOK
<1>2. f \in Injection(1 .. r, Readings)
  <2>1. \A k \in 1 .. r : <<m, k>> \in Readings
    <3>1. ASSUME NEW k \in 1 .. r PROVE k \in 1 .. Workers
      BY <1>1
    <3>2. QED
      BY <3>1 DEF Readings
  <2>2. QED
    BY <2>1 DEF Injection, IsInjective
<1>3. r = Cardinality(1 .. r)
  BY <1>1, FS_Interval
<1>4. QED
  BY <1>2, <1>3, FS_Injection DEF TInv

(* So a free worker may read what others are reading.                      *)
LEMMA ReadingTyped ==
  ASSUME IntakeAssumption, TInv, [Next]_vars
  PROVE  reading' \in [Msg -> 0 .. Workers] /\ IsFiniteSet(Readings')
<1>1. reading \in [Msg -> 0 .. Workers] /\ IsFiniteSet(Readings) /\ Workers \in Nat
  BY DEF IntakeAssumption, TInv, TypeOK
<1>2. ASSUME NEW m \in Msg, Read(m), reading' = [reading EXCEPT ![m] = @ + 1]
      PROVE  reading' \in [Msg -> 0 .. Workers] /\ IsFiniteSet(Readings')
  <2>1. reading[m] < Workers
    <3>1. Cardinality(Readings) \in Nat /\ Len(queue) \in Nat
      BY <1>1, FS_CardinalityType DEF TInv, TypeOK
    <3>2. Cardinality(Readings) + Len(queue) < Workers
      BY <1>2 DEF Read, Busy
    <3>3. QED
      BY <1>1, <3>1, <3>2, FewerThanBusy
  <2>2. reading' \in [Msg -> 0 .. Workers]
    BY <1>1, <1>2, <2>1
  <2>3. Readings' \in SUBSET (Readings \cup {<<m, reading[m] + 1>>})
    BY <1>1, <1>2, <2>1 DEF Readings
  <2>4. IsFiniteSet(Readings \cup {<<m, reading[m] + 1>>})
    BY <1>1, FS_AddElement
  <2>5. QED
    BY <2>2, <2>3, <2>4, FS_Subset
<1>3. ASSUME \A m \in Msg : reading'[m] \in 0 .. reading[m], reading' = [m \in Msg |-> reading'[m]]
      PROVE  reading' \in [Msg -> 0 .. Workers] /\ IsFiniteSet(Readings')
  <2>1. reading' \in [Msg -> 0 .. Workers]
    <3>1. ASSUME NEW m \in Msg PROVE reading'[m] \in 0 .. Workers
      BY <1>1, <1>3
    <3>2. QED
      BY <1>3, <3>1
  <2>2. Readings' \in SUBSET Readings
    BY <1>1, <1>3 DEF Readings
  <2>3. QED
    BY <1>1, <2>1, <2>2, FS_Subset
<1>4. CASE \E m \in Msg : Check(m)
  <2>1. PICK m \in Msg : reading[m] > 0 /\ reading' = [reading EXCEPT ![m] = @ - 1]
    BY <1>4 DEF Check
  <2>2. reading' = [x \in Msg |-> reading'[x]]
    BY <1>1, <2>1
  <2>3. ASSUME NEW x \in Msg PROVE reading'[x] \in 0 .. reading[x]
    BY <1>1, <2>1
  <2>4. QED
    BY <1>3, <2>2, <2>3
<1>5. CASE Crash
  BY <1>1, <1>3, <1>5 DEF Crash
<1>6. CASE UNCHANGED reading
  BY <1>1, <1>3, <1>6
<1>7. QED
  BY <1>2, <1>4, <1>5, <1>6
  DEF Next, CoreTask, ActionTask, Observer, Arrive, smsgScanBuckets, Read, PauseEnds, Expire,
      Save, Remove, Start, Refuse, OutOfSequence, LookedTooEarly, onEvent, Finish, FetchPage, PassOver, Reprocess,
      Boot, inbox, database, memory, world, vars

(* What is left of a sequence was there before.                            *)
LEMMA LeftOver ==
  ASSUME NEW S, NEW s \in Seq(S), s # <<>>
  PROVE  /\ Tail(s) \in Seq(S) /\ Head(s) \in S /\ Holds(s, Head(s))
         /\ \A x : Holds(Tail(s), x) => Holds(s, x)
<1> DEFINE t == Tail(s)
<1>1. /\ t \in Seq(S) /\ Head(s) \in S /\ Head(s) = s[1] /\ Len(s) \in Nat \ {0}
      /\ DOMAIN s = 1 .. Len(s) /\ DOMAIN t = 1 .. Len(s) - 1
      /\ \A i \in 1 .. Len(s) - 1 : t[i] = s[i + 1] /\ i + 1 \in 1 .. Len(s)
  OBVIOUS
<1>2. 1 \in DOMAIN s
  BY <1>1
<1>3. ASSUME NEW x, Holds(t, x) PROVE Holds(s, x)
  <2>1. PICK i \in DOMAIN t : t[i] = x
    BY <1>3 DEF Holds
  <2>2. i + 1 \in DOMAIN s /\ s[i + 1] = x
    BY <1>1, <2>1
  <2>3. QED
    BY <2>2 DEF Holds
<1>4. QED
  BY <1>1, <1>2, <1>3 DEF Holds

(* A message is announced, read, queued or stored when core has received   *)
(* it, and core never forgets that it has.                                 *)
LEMMA ReachedArrive == ASSUME TInv, NEW m \in Msg, Arrive(m) PROVE Reached'
<1> USE DEF TInv, Reached, database, memory, world
<1>1. received \in Seq(Msg) /\ ~ Holds(received, m)
  BY DEF Arrive
<1>2. /\ received' \in Seq(Msg) /\ Distinct(received')
      /\ \A x : Holds(received', x) <=> (Holds(received, x) \/ x = m)
  BY <1>1, Appended DEF Arrive
<1>3. /\ core'[m] # None /\ \A x \in Msg \ {m} : core'[x] = core[x] /\ notices'[x] = notices[x]
  BY DEF Arrive, TypeOK, None
<1>4. UNCHANGED <<row, reading, queue>>
  BY DEF Arrive
<1>5. QED
  BY <1>2, <1>3, <1>4

(* The same for the steps that leave core and its announcements alone.     *)
LEMMA ReachedInside ==
  ASSUME TInv, UNCHANGED inbox,
         \A m \in Msg : row'[m] # None \/ reading'[m] > 0 \/ Holds(queue', m)
                          => row[m] # None \/ reading[m] > 0 \/ Holds(queue, m)
  PROVE  Reached'
BY DEF TInv, Reached, inbox

(* The same for the steps in which core tells of what it has received.     *)
LEMMA ReachedCore ==
  ASSUME TInv, UNCHANGED received,
         \A m \in Msg : /\ core'[m] # None <=> core[m] # None
                        /\ row'[m] # None => row[m] # None
                        /\ reading'[m] > 0 => reading[m] > 0 \/ notices[m] > 0
                        /\ Holds(queue', m) => Holds(queue, m)
                        /\ notices'[m] > 0 => core[m] # None
  PROVE  Reached'
BY DEF TInv, Reached

(* And so for every step.                                                  *)
LEMMA ReachedStep == ASSUME IntakeAssumption, TInv, [Next]_vars PROVE Reached'
<1> USE DEF database, memory, world
<1>1. /\ queue \in Seq(Msg) /\ action \in Seq(Msg) /\ row \in [Msg -> SmsgMessageStatus \cup {None}]
      /\ core \in [Msg -> {None, "unread", "read", "removed"}]
      /\ notices \in [Msg -> 0 .. MaxNotices] /\ reading \in [Msg -> 0 .. Workers]
      /\ MaxNotices \in Nat /\ Workers \in Nat
  BY DEF IntakeAssumption, TInv, TypeOK
<1>2. ASSUME NEW m \in Msg, smsgScanBuckets(m) PROVE Reached'
  BY <1>1, <1>2, ReachedCore DEF smsgScanBuckets, TInv, Reached, None
<1>3. ASSUME NEW m \in Msg, Read(m) PROVE Reached'
  <2>1. core[m] # None
    BY <1>3 DEF Read, TInv, Reached
  <2>2. \A x \in Msg : /\ core'[x] # None <=> core[x] # None
                       /\ reading'[x] > 0 => reading[x] > 0 \/ notices[x] > 0
                       /\ notices'[x] > 0 => notices[x] > 0
    BY <1>1, <1>3, <2>1 DEF Read, None
  <2>3. QED
    BY <1>3, <2>2, ReachedCore DEF Read, TInv, Reached
<1>4. ASSUME NEW m \in Msg, Check(m) PROVE Reached'
  <2>1. \A x \in Msg : reading'[x] > 0 => reading[x] > 0
    BY <1>1, <1>4 DEF Check
  <2>2. \A x \in Msg : Holds(queue', x) => Holds(queue, x) \/ x = m
    BY <1>1, <1>4, Appended DEF Check
  <2>3. QED
    BY <1>4, <2>1, <2>2, ReachedInside DEF Check
<1>5. CASE Save
  <2>1. Holds(queue, Head(queue)) /\ \A x : Holds(queue', x) => Holds(queue, x)
    BY <1>1, <1>5, LeftOver DEF Save, TaskDone
  <2>2. \A x \in Msg : row'[x] # None => row[x] # None \/ x = Head(queue)
    BY <1>1, <1>5 DEF Save
  <2>3. QED
    BY <1>5, <2>1, <2>2, ReachedInside DEF Save
<1>6. CASE Remove
  <2>1. queue # <<>>
    BY <1>6 DEF Remove, TInv, IInv, TaskRests
  <2>2. Holds(queue, Head(queue)) /\ \A x : Holds(queue', x) => Holds(queue, x)
    BY <1>1, <1>6, <2>1, LeftOver DEF Remove, TaskDone
  <2>3. \A x \in Msg : core'[x] # None <=> core[x] # None
    BY <1>1, <1>6, <2>1, <2>2 DEF Remove, None, TInv, Reached
  <2>4. QED
    BY <1>6, <2>2, <2>3, ReachedCore DEF Remove, TInv, Reached
<1>7. CASE Start
  <2>1. queue # <<>> /\ row[Head(queue)] = "NEW"
    BY <1>7 DEF Start, TInv, IInv, TaskRests
  <2>2. \A x \in Msg : row'[x] # None => row[x] # None
    BY <1>1, <1>7, <2>1 DEF Start, Dispatch, DispatchThrows, None
  <2>3. \A x : Holds(queue', x) => Holds(queue, x)
    BY <1>1, <1>7, <2>1, LeftOver DEF Start, TaskDone
  <2>4. QED
    BY <1>7, <2>2, <2>3, ReachedInside DEF Start
<1>8. CASE Reprocess
  <2>1. row[Head(page)] = "WAITING"
    BY <1>8 DEF Reprocess, TInv, IInv, SafeRows, DueRests
  <2>2. \A x \in Msg : row'[x] # None => row[x] # None
    BY <1>1, <1>8, <2>1 DEF Reprocess, Dispatch, DispatchThrows, None
  <2>3. QED
    BY <1>8, <2>2, ReachedInside DEF Reprocess
<1>9. CASE Refuse \/ OutOfSequence \/ LookedTooEarly \/ Finish
  <2>1. action # <<>>
    BY <1>9 DEF Refuse, OutOfSequence, LookedTooEarly, Finish, TInv, IInv, ActionRests
  <2>2. row[Head(action)] = "PROCESSING"
    BY <1>1, <2>1, LeftOver DEF TInv, IInv, ActionRests
  <2>3. \A x \in Msg : row'[x] # None => row[x] # None
    BY <1>1, <1>9, <2>2 DEF Refuse, OutOfSequence, LookedTooEarly, Finish, SetStatus, None
  <2>4. stage # "idle" => queue # <<>>
    BY DEF TInv, IInv, TaskRests
  <2>5. \A x : Holds(queue', x) => Holds(queue, x)
    BY <1>1, <1>9, <2>4, LeftOver DEF Refuse, OutOfSequence, LookedTooEarly, Finish, SetStatus, Return, TaskDone
  <2>6. QED
    BY <1>9, <2>3, <2>5, ReachedInside DEF Refuse, OutOfSequence, LookedTooEarly, Finish
<1>10. CASE Crash
  <2>1. \A x : ~ Holds(queue', x)
    BY <1>10 DEF Crash, Holds
  <2>2. QED
    BY <1>10, <2>1, ReachedCore DEF Crash
<1>11. CASE Boot
  <2>1. \A x \in Msg : notices'[x] > 0 => core[x] # None
    BY <1>11 DEF Boot, pushUnreadCoreSmsgMessages, None
  <2>2. QED
    BY <1>11, <2>1, ReachedCore DEF Boot
<1>12. CASE UNCHANGED <<inbox, row, reading, queue>>
  BY <1>12, ReachedInside
<1>13. QED
  BY <1>2, <1>3, <1>4, <1>5, <1>6, <1>7, <1>8, <1>9, <1>10, <1>11, <1>12, ReachedArrive
  DEF Next, CoreTask, ActionTask, Observer, onEvent, FetchPage, PassOver, PauseEnds, Expire, vars

(* A message that waits to be handled is awaited until it has been.        *)
LEMMA AwaitedReturn ==
  ASSUME TInv, action # <<>>, Return PROVE Awaited'
<1> USE DEF TInv
<1> DEFINE m == Head(action)
<1>1. m \in Msg /\ Holds(action, m) /\ \A x : Holds(action', x) <=> (Holds(action, x) /\ x # m)
  BY Shortened DEF Return, IInv, Typing, ActionRests
<1>2. ASSUME NEW x \in Msg, Holds(action', x)
      PROVE  \/ stage' = "acting" /\ Head(queue') = x
             \/ page' # <<>> /\ Head(page') = x
  <2>1. Holds(action, x) /\ x # m
    BY <1>1, <1>2
  <2>2. CASE stage = "acting" /\ Head(queue) = m
    BY <2>1, <2>2 DEF Return, Awaited
  <2>3. CASE ~ (stage = "acting" /\ Head(queue) = m)
    BY <1>1, <2>1, <2>3 DEF Return, Awaited
  <2>4. QED
    BY <2>2, <2>3
<1>3. QED
  BY <1>2 DEF Awaited

(* Whoever puts a message into the actionQueue waits for it from then on.  *)
LEMMA AwaitedDispatch ==
  ASSUME TInv, NEW m \in Msg, Dispatch(m), UNCHANGED <<queue, page>>,
         \/ stage = "removed" /\ stage' = "acting" /\ m = Head(queue)
         \/ stage' = stage /\ page # <<>> /\ m = Head(page)
  PROVE  Awaited'
<1>1. \A x : Holds(action', x) <=> (Holds(action, x) \/ x = m)
  BY Appended DEF Dispatch, TInv, TypeOK
<1>2. QED
  BY <1>1 DEF TInv, Awaited

(* And so for every step.                                                  *)
LEMMA AwaitedStep == ASSUME TInv, [Next]_vars PROVE Awaited'
<1> USE DEF inbox, database, memory, world
<1>1. queue \in Seq(Msg) /\ page \in Seq(Msg)
  BY DEF TInv, TypeOK
<1>2. CASE Refuse \/ OutOfSequence \/ LookedTooEarly \/ Finish
  BY <1>2, AwaitedReturn DEF Refuse, OutOfSequence, LookedTooEarly, Finish, SetStatus, TInv, IInv, ActionRests
<1>3. CASE Start
  <2>1. Head(queue) \in Msg
    BY <1>1, <1>3 DEF Start, TInv, IInv, TaskRests
  <2>2. CASE Dispatch(Head(queue)) /\ stage' = "acting" /\ UNCHANGED queue
    BY <1>3, <2>1, <2>2, AwaitedDispatch DEF Start
  <2>3. CASE DispatchThrows(Head(queue)) /\ TaskDone
    BY <1>3, <2>3 DEF Start, DispatchThrows, TInv, Awaited
  <2>4. QED
    BY <1>3, <2>2, <2>3 DEF Start
<1>4. CASE Reprocess
  <2>1. page # <<>> /\ Head(page) \in Msg
    BY <1>1, <1>4 DEF Reprocess, OnPage
  <2>2. CASE Dispatch(Head(page)) /\ UNCHANGED page
    BY <1>4, <2>1, <2>2, AwaitedDispatch DEF Reprocess
  <2>3. CASE DispatchThrows(Head(page)) /\ page' = <<>>
    BY <1>4, <2>1, <2>3 DEF Reprocess, OnPage, DispatchThrows, TInv, Awaited, Holds
  <2>4. QED
    BY <1>4, <2>2, <2>3 DEF Reprocess
<1>5. CASE Save \/ Remove
  BY <1>5 DEF Save, Remove, TInv, Awaited
<1>6. CASE \E m \in Msg : Check(m)
  <2>1. stage = "acting" => Head(queue') = Head(queue)
    BY <1>1, <1>6, Appended DEF Check, TInv, IInv, TaskRests
  <2>2. QED
    BY <1>6, <2>1 DEF Check, TInv, Awaited
<1>7. CASE FetchPage
  BY <1>7 DEF FetchPage, TInv, Awaited
<1>8. CASE PassOver
  BY <1>8 DEF PassOver, OnPage, TInv, Awaited, Holds
<1>9. CASE Crash
  BY <1>9 DEF Crash, Awaited, Holds
<1>10. CASE UNCHANGED <<action, stage, queue, page>>
  BY <1>10 DEF TInv, Awaited
<1>11. QED
  BY <1>2, <1>3, <1>4, <1>5, <1>6, <1>7, <1>8, <1>9, <1>10
  DEF Next, CoreTask, ActionTask, Observer, Arrive, smsgScanBuckets, Read, onEvent, PauseEnds,
      Expire, Boot, vars

(* A message that core has just received is announced for the first time.  *)
LEMMA NoticesTyped ==
  ASSUME IntakeAssumption, TInv, [Next]_vars PROVE notices' \in [Msg -> 0 .. MaxNotices]
<1> USE DEF inbox
<1>1. notices \in [Msg -> 0 .. MaxNotices] /\ MaxNotices \in Nat \ {0}
  BY DEF IntakeAssumption, TInv, TypeOK
<1>2. ASSUME NEW m \in Msg, Arrive(m) PROVE notices' \in [Msg -> 0 .. MaxNotices]
  <2>1. notices[m] = 0
    BY <1>1, <1>2 DEF Arrive, TInv, Reached
  <2>2. notices' = [notices EXCEPT ![m] = 1] \/ notices' = notices
    BY <1>2, <2>1 DEF Arrive
  <2>3. 1 \in 0 .. MaxNotices
    BY <1>1
  <2>4. QED
    BY <1>1, <2>2, <2>3
<1>3. ASSUME NEW m \in Msg, smsgScanBuckets(m) \/ Read(m)
      PROVE  notices' \in [Msg -> 0 .. MaxNotices]
  BY <1>1, <1>3 DEF smsgScanBuckets, Read
<1>4. CASE Boot \/ Crash
  BY <1>1, <1>4 DEF Boot, Crash, pushUnreadCoreSmsgMessages
<1>5. CASE UNCHANGED notices
  BY <1>1, <1>5
<1>6. QED
  BY <1>2, <1>3, <1>4, <1>5
  DEF Next, CoreTask, ActionTask, Observer, Check, PauseEnds, Expire, Save, Remove, Start, Refuse,
      OutOfSequence, LookedTooEarly, onEvent, Finish, FetchPage, PassOver, Reprocess, vars

(* A page is gone over from its newest message on.                         *)
LEMMA PageKept == ASSUME IntakeAssumption, TInv, [Next]_vars PROVE page' \in Seq(Msg)
<1> USE DEF memory
<1>1. page \in Seq(Msg)
  BY DEF TInv, TypeOK
<1>2. CASE FetchPage
  BY <1>2, WaitingInOrder, PageTyped DEF FetchPage
<1>3. CASE PassOver
  BY <1>1, <1>3, LeftOver DEF PassOver, OnPage
<1>4. CASE Refuse \/ OutOfSequence \/ LookedTooEarly \/ Finish
  <2>1. action # <<>>
    BY <1>4 DEF Refuse, OutOfSequence, LookedTooEarly, Finish, TInv, IInv, ActionRests
  <2>2. Head(action) \in Msg /\ Holds(action, Head(action))
    BY <2>1, LeftOver DEF TInv, TypeOK
  <2>3. \/ stage = "acting" /\ Head(queue) = Head(action)
        \/ page # <<>> /\ Head(page) = Head(action)
    BY <2>2 DEF TInv, Awaited
  <2>4. Return
    BY <1>4 DEF Refuse, OutOfSequence, LookedTooEarly, Finish, SetStatus
  <2>5. page' = page \/ (page # <<>> /\ page' = Tail(page))
    BY <2>3, <2>4 DEF Return
  <2>6. QED
    BY <1>1, <2>5, LeftOver
<1>5. CASE Crash
  BY <1>5 DEF Crash
<1>6. CASE Reprocess
  <2>1. page' \in {page, <<>>}
    BY <1>6 DEF Reprocess
  <2>2. <<>> \in Seq(Msg)
    OBVIOUS
  <2>3. QED
    BY <1>1, <2>1, <2>2
<1>7. CASE UNCHANGED page
  BY <1>1, <1>7
<1>8. QED
  BY <1>2, <1>3, <1>4, <1>5, <1>6, <1>7
  DEF Next, CoreTask, ActionTask, Observer, Arrive, smsgScanBuckets, Read, Check, PauseEnds, Expire,
      Save, Remove, Start, onEvent, Boot, vars

(* The rest of the types.                                                  *)
LEMMA OthersTyped ==
  ASSUME IntakeAssumption, TInv, [Next]_vars
  PROVE  /\ stored' \in Seq(Msg) /\ up' \in BOOLEAN /\ expired' \subseteq Msg
         /\ crashes' \in 0 .. MaxCrashes
<1> USE DEF inbox, database, memory, world
<1>1. /\ stored \in Seq(Msg) /\ queue \in Seq(Msg) /\ up \in BOOLEAN /\ expired \subseteq Msg
      /\ crashes \in 0 .. MaxCrashes /\ MaxCrashes \in Nat
  BY DEF IntakeAssumption, TInv, TypeOK
<1>2. stored' \in Seq(Msg)
  <2>1. CASE Save
    BY <1>1, <2>1 DEF Save
  <2>2. CASE UNCHANGED stored
    BY <1>1, <2>2
  <2>3. QED
    BY <2>1, <2>2
    DEF Next, CoreTask, ActionTask, Observer, Arrive, smsgScanBuckets, Read, Check, PauseEnds,
        Expire, Remove, Start, Refuse, OutOfSequence, LookedTooEarly, onEvent, Finish, FetchPage, PassOver,
        Reprocess, Crash, Boot, vars
<1>3. up' \in BOOLEAN /\ crashes' \in 0 .. MaxCrashes
  <2>1. CASE Crash
    <3>1. crashes < MaxCrashes /\ crashes' = crashes + 1
      BY <2>1 DEF Crash
    <3>2. crashes' \in 0 .. MaxCrashes
      BY <1>1, <3>1
    <3>3. up' \in BOOLEAN
      BY <2>1 DEF Crash
    <3>4. QED
      BY <3>2, <3>3
  <2>2. CASE up' \in BOOLEAN /\ UNCHANGED crashes
    BY <1>1, <2>2
  <2>3. QED
    BY <1>1, <2>1, <2>2
    DEF Next, CoreTask, ActionTask, Observer, Arrive, smsgScanBuckets, Read, Check, PauseEnds,
        Expire, Save, Remove, Start, Refuse, OutOfSequence, LookedTooEarly, onEvent, Finish, FetchPage, PassOver,
        Reprocess, Boot, vars
<1>4. expired' \subseteq Msg
  <2>1. CASE \E m \in Msg : Expire(m)
    BY <1>1, <2>1 DEF Expire
  <2>2. CASE UNCHANGED expired
    BY <1>1, <2>2
  <2>3. QED
    BY <2>1, <2>2
    DEF Next, CoreTask, ActionTask, Observer, Arrive, smsgScanBuckets, Read, Check, PauseEnds,
        Save, Remove, Start, Refuse, OutOfSequence, LookedTooEarly, onEvent, Finish, FetchPage, PassOver,
        Reprocess, Crash, Boot, vars
<1>5. QED
  BY <1>2, <1>3, <1>4

(* Types hold with what they rest on, before any message and after a step. *)
LEMMA TypesInitially == ASSUME IntakeAssumption, Init PROVE TInv
<1> USE DEF Init
<1>1. IInv
  BY Initially
<1>2. /\ 0 \in 0 .. MaxNotices /\ 0 \in 0 .. Workers /\ 0 \in 0 .. MaxCrashes
      /\ <<>> \in Seq(Msg)
  BY DEF IntakeAssumption
<1>3. TypeOK
  BY <1>2 DEF TypeOK, SmsgMessageStatus, None
<1>4. Reached /\ Awaited
  BY <1>2 DEF Reached, Awaited, Distinct, Holds, None
<1>5. Readings = {}
  <2>1. ASSUME NEW k \in 1 .. Workers PROVE ~ k <= 0
    BY DEF IntakeAssumption
  <2>2. QED
    BY <2>1 DEF Readings
<1>6. QED
  BY <1>1, <1>3, <1>4, <1>5, FS_EmptySet DEF TInv

LEMMA TypesKept == ASSUME IntakeAssumption, TInv, [Next]_vars PROVE TInv'
<1>1. IInv'
  BY Inductive DEF TInv
<1>2. Reached' /\ Awaited'
  BY ReachedStep, AwaitedStep
<1>3. TypeOK'
  BY <1>1, <1>2, ReadingTyped, NoticesTyped, PageKept, OthersTyped
  DEF TypeOK, IInv, Typing, SafeRows, DueRests, Reached
<1>4. QED
  BY <1>1, <1>2, <1>3, ReadingTyped DEF TInv

(* Every variable keeps its type: no more workers than there are read a    *)
(* message, no message has more announcements than the bound, and every    *)
(* page that is fetched is a sequence of messages.                         *)
THEOREM TypeCorrect == Spec => []TypeOK
<1>1. Init => TInv
  BY IntakeAssumption, TypesInitially
<1>2. TInv /\ [Next]_vars => TInv'
  BY IntakeAssumption, TypesKept
<1>3. TInv => TypeOK
  BY DEF TInv
<1>4. QED
  BY <1>1, <1>2, <1>3, PTL DEF Spec
=============================================================================
