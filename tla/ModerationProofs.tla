-------------------------- MODULE ModerationProofs --------------------------
(***************************************************************************)
(* The safety of Moderation, proved for any addresses, balances and        *)
(* listings of the hash, whatever is attached to them, and any number of   *)
(* votes, copies of them and stops.                                        *)
(***************************************************************************)
EXTENDS Moderation, TLAPS

-----------------------------------------------------------------------------
(* What happens to the rows of votes.                                      *)

Votes == [Voter -> Seq(VoteRow)]

(* A refresh changes weights only: nobody gets or loses a row by it.       *)
LEMMA RefreshedRows ==
  ASSUME NEW vs \in Votes, balance \in [Voter -> Weight]
  PROVE  /\ Refreshed(vs) \in Votes
         /\ \A v \in Voter : Len(Refreshed(vs)[v]) = Len(vs[v])
<1> DEFINE rows(v) == [i \in 1 .. Len(vs[v]) |-> [vs[v][i] EXCEPT !.weight = balance[v]]]
<1>1. ASSUME NEW v \in Voter PROVE rows(v) \in Seq(VoteRow) /\ Len(rows(v)) = Len(vs[v])
  <2>1. Len(vs[v]) \in Nat /\ \A i \in 1 .. Len(vs[v]) : vs[v][i] \in VoteRow
    BY DEF Votes
  <2>2. ASSUME NEW i \in 1 .. Len(vs[v]) PROVE [vs[v][i] EXCEPT !.weight = balance[v]] \in VoteRow
    BY <2>1 DEF VoteRow
  <2>3. QED
    BY <2>1, <2>2
<1>2. Refreshed(vs) = [v \in Voter |-> rows(v)]
  BY DEF Refreshed
<1> HIDE DEF rows
<1>3. QED
  BY <1>1, <1>2 DEF Votes

(* A vote makes a row for its voter unless it has found one.               *)
LEMMA RecordedRows ==
  ASSUME NEW task \in VoteTask, votes \in Votes
  PROVE  /\ Recorded(task) \in Votes
         /\ \A v \in Voter : v # task.voter => Len(Recorded(task)[v]) = Len(votes[v])
         /\ Len(Recorded(task)[task.voter]) =
              IF task.found THEN Len(votes[task.voter]) ELSE Len(votes[task.voter]) + 1
<1> DEFINE row == [option |-> task.option, weight |-> task.weight]
           mine == votes[task.voter]
           new == IF task.found THEN [mine EXCEPT ![1] = row] ELSE Append(mine, row)
<1>1. row \in VoteRow /\ task.voter \in Voter /\ mine \in Seq(VoteRow)
  BY DEF VoteTask, VoteRow, Votes
<1>2. /\ [mine EXCEPT ![1] = row] \in Seq(VoteRow)
      /\ Len([mine EXCEPT ![1] = row]) = Len(mine)
  <2>1. Len(mine) \in Nat /\ mine \in [1 .. Len(mine) -> VoteRow]
    BY <1>1
  <2>2. [mine EXCEPT ![1] = row] \in [1 .. Len(mine) -> VoteRow]
    BY <1>1, <2>1
  <2>3. QED
    BY <2>1, <2>2
<1>3. Append(mine, row) \in Seq(VoteRow) /\ Len(Append(mine, row)) = Len(mine) + 1
  BY <1>1
<1>4. Recorded(task) = [votes EXCEPT ![task.voter] = new]
  BY DEF Recorded
<1>5. new \in Seq(VoteRow) /\ Len(new) = IF task.found THEN Len(mine) ELSE Len(mine) + 1
  BY <1>2, <1>3
<1> HIDE DEF new
<1>6. QED
  BY <1>1, <1>4, <1>5 DEF Votes

-----------------------------------------------------------------------------
(* The inductive invariant.  It follows a vote of an own address from the  *)
(* command over the message to the row, so that whatever hides a listing   *)
(* was cast before, and ties what the action queue has looked up to the    *)
(* rows as they are when it makes one.                                     *)

CommandTask ==
  [at : {"command"}, option : ItemVote, flags : SUBSET Row, left : SUBSET Mine]

ItemsTyped ==
  /\ posted \in 0 .. MaxListings
  /\ listed \subseteq 1 .. posted /\ lapsed \subseteq 1 .. posted
  /\ removed \subseteq Row /\ flagged \subseteq Row
  /\ related \in [Row -> SUBSET (Relations \cup {"order"})]

BallotTyped ==
  /\ proposal \in {"none", "active", "final", "gone"}
  /\ ended \in BOOLEAN /\ verdict \in BOOLEAN /\ blacklisted \in BOOLEAN
  /\ votes \in Votes

WorldTyped ==
  /\ balance \in [Voter -> Weight]
  /\ cast \subseteq Mine \X ItemVote
  /\ crashes \in 0 .. MaxCrashes /\ torn \in BOOLEAN /\ spoiled \subseteq Row

TasksTyped ==
  /\ incoming \in VoteTask \cup ListingTask \cup ProposalTask \cup {NoTask}
  /\ outgoing \in VoteTask \cup {NoTask}
  /\ command \in CommandTask \cup ProposalTask \cup {NoTask}
  /\ bidding \subseteq Row /\ removing \subseteq Row /\ doomed \subseteq Row

Typed == ItemsTyped /\ BallotTyped /\ WorldTyped /\ TasksTyped

(* The invariant says a little more of the running command than TypeOK.    *)
LEMMA TypedIsOK == Typed => TypeOK
<1> SUFFICES ASSUME Typed PROVE TypeOK
  OBVIOUS
<1>1. \/ command \in ProposalTask \cup {NoTask}
      \/ /\ command.at = "command" /\ command.option \in ItemVote
         /\ command.left \subseteq Mine /\ command.flags \subseteq Row
  BY DEF Typed, TasksTyped, CommandTask
<1>2. QED
  BY <1>1 DEF Typed, ItemsTyped, BallotTyped, WorldTyped, TasksTyped, Votes, TypeOK

(* An own address votes by command only; a command that has nobody left to *)
(* vote has voted at least once.                                           *)
VotesCast ==
  /\ incoming.at = "vote" /\ incoming.voter \in Mine => <<incoming.voter, incoming.option>> \in cast
  /\ outgoing # NoTask => outgoing.voter \in Mine /\ <<outgoing.voter, outgoing.option>> \in cast
  /\ command.at = "command" /\ command.left = {} => \E v \in Mine : <<v, command.option>> \in cast

(* What was looked up about somebody else's vote is still so.              *)
LookUpHolds ==
  incoming.at = "vote" /\ incoming.voter \notin Mine =>
    (incoming.found <=> Len(votes[incoming.voter]) # 0)

(* Flags are looked at only when the result is final.                      *)
RemovingWhenFinal == removing # {} => proposal \in {"final", "gone"}

(* A proposal is there while its flag is still to come, and a listing      *)
(* whose flag is still to come is one that has come.                       *)
FlaggingKnown ==
  /\ incoming.at = "proposal" \/ command.at = "proposal" => proposal \in {"active", "final"}
  /\ incoming.at = "listing" => incoming.row \in 1 .. posted

IInv ==
  /\ Typed /\ VotesCast /\ LookUpHolds /\ RemovingWhenFinal /\ FlaggingKnown
  /\ FlagsRefer /\ FlaggedIfKnown /\ OthersVoteOnce /\ HiddenByOwnVote

(* A node that has seen nothing of the listing satisfies it.               *)
LEMMA InitInv == Init => IInv
<1> SUFFICES ASSUME Init PROVE IInv
  OBVIOUS
<1> USE ModerationAssumption
<1>1. ItemsTyped
  BY DEF Init, ItemsTyped
<1>2. BallotTyped
  <2>1. <<>> \in Seq(VoteRow)
    OBVIOUS
  <2>2. votes \in Votes
    BY <2>1 DEF Init, Votes
  <2>3. QED
    BY <2>2 DEF Init, BallotTyped
<1>3. WorldTyped /\ TasksTyped
  <2>1. WorldTyped
    <3>1. balance \in [Voter -> Weight] /\ cast = {}
      BY DEF Init
    <3>2. crashes \in 0 .. MaxCrashes /\ spoiled = {}
      BY DEF Init
    <3>3. torn \in BOOLEAN
      BY DEF Init
    <3>4. QED
      BY <3>1, <3>2, <3>3 DEF WorldTyped
  <2>2. incoming = NoTask /\ outgoing = NoTask /\ command = NoTask
    BY DEF Init
  <2>3. bidding = {} /\ removing = {} /\ doomed = {}
    BY DEF Init
  <2>4. QED
    BY <2>1, <2>2, <2>3 DEF TasksTyped
<1>4. VotesCast /\ LookUpHolds /\ RemovingWhenFinal /\ FlaggingKnown
  BY DEF Init, VotesCast, LookUpHolds, RemovingWhenFinal, FlaggingKnown, NoTask
<1>5. FlagsRefer /\ FlaggedIfKnown /\ HiddenByOwnVote
  BY DEF Init, FlagsRefer, FlaggedIfKnown, HiddenByOwnVote
<1>6. OthersVoteOnce
  BY DEF Init, OthersVoteOnce
<1>7. QED
  BY <1>1, <1>2, <1>3, <1>4, <1>5, <1>6 DEF IInv, Typed

(* The listings there are have a row of their own.                         *)
LEMMA ListedRows ==
  ASSUME ItemsTyped
  PROVE  /\ posted \in Nat /\ 1 .. posted \subseteq Row
         /\ listed \subseteq Row /\ FirstListed \subseteq listed
<1>1. posted \in Nat /\ 1 .. posted \subseteq Row
  BY ModerationAssumption DEF ItemsTyped, Row
<1>2. QED
  BY <1>1 DEF ItemsTyped, FirstListed

-----------------------------------------------------------------------------
(* Every step preserves it: the types first, then votes, casts and flags.  *)

(* Types: the rows of votes stay sequences of rows.                        *)
LEMMA TypedStep ==
  ASSUME IInv, [Next]_vars
  PROVE  Typed'
<1> USE ModerationAssumption DEF IInv, Typed, ItemsTyped, BallotTyped, WorldTyped, TasksTyped, Row, items, ballot, world, past, tasks
<1>1. CASE ListingItemAdd
  <2>1. posted' \in 0 .. MaxListings /\ posted + 1 \in Row
    BY <1>1 DEF ListingItemAdd
  <2>2. listed' \subseteq 1 .. posted' /\ lapsed' \subseteq 1 .. posted'
    BY <1>1 DEF ListingItemAdd
  <2>3. incoming' \in ListingTask
    BY <1>1, <2>1 DEF ListingItemAdd, ListingTask
  <2>4. QED
    BY <1>1, <2>1, <2>2, <2>3 DEF ListingItemAdd
<1>25. CASE FlagListing
  <2>1. listed \subseteq Row
    BY ListedRows
  <2>2. flagged' \subseteq Row
    BY <1>25, <2>1 DEF FlagListing
  <2>3. QED
    BY <1>25, <2>2 DEF FlagListing
<1>2. CASE ProposalAdd
  <2>1. incoming' \in ProposalTask
    BY <1>2 DEF ProposalAdd, ProposalTask
  <2>2. QED
    BY <1>2, <2>1 DEF ProposalAdd, CreateProposal
<1>26. CASE FlagProposed
  <2>1. FirstListed \subseteq Row
    BY ListedRows
  <2>2. flagged' \subseteq Row
    BY <1>26, <2>1 DEF FlagProposed, FlagFirst
  <2>3. QED
    BY <1>26, <2>2 DEF FlagProposed, FlagFirst
<1>27. ASSUME NEW r \in Row, CreateBid(r) PROVE Typed'
  <2>1. related' \in [Row -> SUBSET (Relations \cup {"order"})]
    BY <1>27 DEF CreateBid
  <2>2. QED
    BY <1>27, <2>1 DEF CreateBid
<1>28. ASSUME NEW r \in Row, CreateOrder(r) PROVE Typed'
  <2>1. related' \in [Row -> SUBSET (Relations \cup {"order"})]
    BY <1>28 DEF CreateOrder
  <2>2. QED
    BY <1>28, <2>1 DEF CreateOrder
<1>29. ASSUME NEW r \in Row, OrderFails(r) PROVE Typed'
  BY <1>29 DEF OrderFails
<1>30. CASE FlagAndVote
  <2>1. FirstListed \subseteq Row
    BY ListedRows
  <2>2. flagged' \subseteq Row
    BY <1>30, <2>1 DEF FlagAndVote, FlagFirst
  <2>3. command' \in CommandTask \cup {NoTask}
    <3>1. {v \in Mine : balance[v] > 0} \subseteq Mine /\ "REMOVE" \in ItemVote
      BY DEF ItemVote
    <3>2. CASE Voting("REMOVE", flagged')
      BY <2>2, <3>1, <3>2 DEF Voting, CommandTask
    <3>3. QED
      BY <1>30, <3>2 DEF FlagAndVote
  <2>4. QED
    BY <1>30, <2>2, <2>3 DEF FlagAndVote, FlagFirst
<1>31. ASSUME NEW r \in Row, JudgeFails(r) PROVE Typed'
  BY <1>31 DEF JudgeFails
<1>32. ASSUME NEW r \in Row, DeleteFails(r) PROVE Typed'
  BY <1>32 DEF DeleteFails
<1>3. ASSUME NEW r \in Row, NEW what \in Relations, Attach(r, what) PROVE Typed'
  BY <1>3 DEF Attach
<1>4. ASSUME NEW r \in Row, NEW what \in Relations, Detach(r, what) PROVE Typed'
  BY <1>4 DEF Detach
<1>5. ASSUME NEW v \in Voter, NEW option \in ItemVote, ReceiveVote(v, option) PROVE Typed'
  <2>1. LookUp(v, option) \in VoteTask
    BY DEF LookUp, VoteTask
  <2>2. QED
    BY <1>5, <2>1 DEF ReceiveVote
<1>6. CASE FinishIncoming
  <2>1. incoming \in VoteTask
    BY <1>6 DEF FinishIncoming, ListingTask, ProposalTask, NoTask
  <2>2. Refreshed(Recorded(incoming)) \in Votes
    BY <2>1, RecordedRows, RefreshedRows
  <2>3. QED
    BY <1>6, <2>2 DEF FinishIncoming, FinishOutgoing, FinishVote, SetRemovedFlag
<1>7. CASE FinishOutgoing
  <2>1. outgoing \in VoteTask
    BY <1>7 DEF FinishIncoming, FinishOutgoing
  <2>2. Refreshed(Recorded(outgoing)) \in Votes
    BY <2>1, RecordedRows, RefreshedRows
  <2>3. QED
    BY <1>7, <2>2 DEF FinishIncoming, FinishOutgoing, FinishVote, SetRemovedFlag
<1>8. ASSUME NEW option \in ItemVote, VotePost(option) PROVE Typed'
  <2>1. command' \in CommandTask \cup {NoTask}
    BY <1>8 DEF VotePost, Voting, CommandTask
  <2>2. QED
    BY <1>8, <2>1 DEF VotePost
<1>9. ASSUME NEW r \in Row, ListingItemFlag(r) PROVE Typed'
  <2>1. command' \in ProposalTask
    BY <1>9 DEF ListingItemFlag, ProposalTask
  <2>2. QED
    BY <1>9, <2>1 DEF ListingItemFlag, CreateProposal
<1>10. ASSUME NEW v \in Mine, PostVote(v) PROVE Typed'
  <2>1. command \in CommandTask
    BY <1>10 DEF PostVote, ProposalTask, NoTask
  <2>2. LookUp(v, command.option) \in VoteTask
    BY <2>1 DEF LookUp, VoteTask, CommandTask
  <2>3. [command EXCEPT !.left = command.left \ {v}] \in CommandTask
    BY <2>1 DEF CommandTask
  <2>4. command' \in CommandTask
    BY <1>10, <2>3 DEF PostVote
  <2>5. cast' \subseteq Mine \X ItemVote
    BY <1>10, <2>1 DEF PostVote, CommandTask
  <2>6. outgoing' \in VoteTask \cup {NoTask}
    BY <1>10, <2>2 DEF PostVote
  <2>7. QED
    BY <1>10, <2>4, <2>5, <2>6 DEF PostVote
<1>11. CASE PostFails
  BY <1>11 DEF PostFails
<1>12. CASE SetRemovedFlags
  <2>1. command \in CommandTask
    BY <1>12 DEF SetRemovedFlags, ProposalTask, NoTask
  <2>2. command.flags \subseteq Row
    BY <2>1 DEF CommandTask
  <2>3. removed' \subseteq Row
    BY <1>12, <2>2 DEF SetRemovedFlags
  <2>4. QED
    BY <1>12, <2>3 DEF SetRemovedFlags
<1>13. CASE Recalculate
  BY <1>13, RefreshedRows DEF Recalculate
<1>14. CASE Finalise
  <2>1. verdict' \in BOOLEAN
    BY <1>14 DEF Finalise, ForRemoval
  <2>2. Refreshed(votes) \in Votes
    BY RefreshedRows
  <2>3. QED
    BY <1>14, <2>1, <2>2 DEF Finalise
<1>15. ASSUME NEW r \in Row, Judge(r) PROVE Typed'
  BY <1>15 DEF Judge, Condemn, Spare
<1>16. ASSUME NEW r \in Row, Delete(r) PROVE Typed'
  BY <1>16 DEF Delete, RemoveRow
<1>17. CASE ExpireProposal
  <2>1. votes' \in Votes
    <3>1. <<>> \in Seq(VoteRow)
      OBVIOUS
    <3>2. QED
      BY <1>17, <3>1 DEF ExpireProposal, Votes
  <2>2. QED
    BY <1>17, <2>1 DEF ExpireProposal
<1>18. ASSUME NEW r \in Row, ExpireListing(r) PROVE Typed'
  BY <1>18 DEF ExpireListing
<1>19. ASSUME NEW r \in Row, ListingLapses(r) PROVE Typed'
  BY <1>19 DEF ListingLapses
<1>20. CASE ProposalEnds
  BY <1>20 DEF ProposalEnds
<1>21. ASSUME NEW v \in Spender, NEW amount \in Weight, BalanceChanges(v, amount) PROVE Typed'
  BY <1>21 DEF BalanceChanges
<1>22. CASE Crash
  BY <1>22 DEF Crash
<1>23. CASE UNCHANGED vars
  BY <1>23 DEF vars
<1>24. QED
  BY <1>1, <1>2, <1>3, <1>4, <1>5, <1>6, <1>7, <1>8, <1>9, <1>10, <1>11, <1>12, <1>13, <1>14, <1>15, <1>16, <1>17, <1>18, <1>19, <1>20, <1>21, <1>22, <1>23, <1>25, <1>26, <1>27, <1>28, <1>29, <1>30, <1>31, <1>32 DEF Next, Observer

(* Rows: a message that finds no row of its voter leaves the only one.     *)
LEMMA VotesStep ==
  ASSUME IInv, [Next]_vars
  PROVE  LookUpHolds' /\ OthersVoteOnce'
<1> USE DEF LookUpHolds, OthersVoteOnce
<1>0. /\ Typed /\ LookUpHolds /\ OthersVoteOnce
      /\ votes \in Votes /\ balance \in [Voter -> Weight]
      /\ \A v \in Voter : votes[v] \in Seq(VoteRow) /\ Len(votes[v]) \in Nat
      /\ incoming.at = "vote" => incoming \in VoteTask
      /\ outgoing \in VoteTask \cup {NoTask}
  BY DEF IInv, Typed, BallotTyped, WorldTyped, TasksTyped, Votes, ListingTask, ProposalTask, NoTask
<1>1. ASSUME NEW v \in Voter, NEW option \in ItemVote, ReceiveVote(v, option)
      PROVE  LookUpHolds' /\ OthersVoteOnce'
  <2>1. votes[v] # <<>> <=> Len(votes[v]) # 0
    BY <1>0
  <2>2. incoming' = LookUp(v, option) /\ votes' = votes
    BY <1>1 DEF ReceiveVote, ballot
  <2>3. QED
    BY <1>0, <2>1, <2>2 DEF LookUp
<1>2. CASE FinishIncoming
  <2>1. incoming \in VoteTask /\ incoming.voter \in Voter
    BY <1>0, <1>2 DEF FinishIncoming, VoteTask
  <2>2. /\ incoming' = NoTask
        /\ votes' = Refreshed(Recorded(incoming))
    BY <1>2 DEF FinishIncoming, FinishVote
  <2>3. /\ \A v \in Voter : v # incoming.voter => Len(votes'[v]) = Len(votes[v])
        /\ Len(votes'[incoming.voter]) =
             IF incoming.found THEN Len(votes[incoming.voter]) ELSE Len(votes[incoming.voter]) + 1
    BY <1>0, <2>1, <2>2, RecordedRows, RefreshedRows
  <2>4. incoming'.at # "vote"
    BY <2>2 DEF NoTask
  <2>5. QED
    BY <1>0, <1>2, <2>1, <2>2, <2>3, <2>4 DEF FinishIncoming
<1>3. CASE FinishOutgoing
  <2>1. outgoing \in VoteTask /\ outgoing.voter \in Mine
    BY <1>0, <1>3 DEF FinishOutgoing, IInv, VotesCast
  <2>2. incoming' = incoming /\ votes' = Refreshed(Recorded(outgoing))
    BY <1>3 DEF FinishOutgoing, FinishVote
  <2>3. \A v \in Voter : v # outgoing.voter => Len(votes'[v]) = Len(votes[v])
    BY <1>0, <2>1, <2>2, RecordedRows, RefreshedRows
  <2>4. incoming.at = "vote" => incoming.voter \in Voter
    BY <1>0 DEF VoteTask
  <2>5. QED
    BY <1>0, <2>1, <2>2, <2>3, <2>4
<1>4. ASSUME votes' = Refreshed(votes), incoming' = incoming
      PROVE  LookUpHolds' /\ OthersVoteOnce'
  <2>1. \A v \in Voter : Len(votes'[v]) = Len(votes[v])
    BY <1>0, <1>4, RefreshedRows
  <2>2. incoming.at = "vote" => incoming.voter \in Voter
    BY <1>0 DEF VoteTask
  <2>3. QED
    BY <1>0, <1>4, <2>1, <2>2
<1>5. CASE ExpireProposal
  BY <1>5 DEF ExpireProposal, tasks, NoTask
<1>6. ASSUME votes' = votes, incoming'.at \in {"none", "listing", "proposal"}
      PROVE  LookUpHolds' /\ OthersVoteOnce'
  BY <1>0, <1>6
<1>7. CASE UNCHANGED <<votes, incoming>>
  BY <1>0, <1>7
<1>8. CASE Crash \/ ListingItemAdd \/ FlagListing \/ ProposalAdd \/ FlagProposed
  BY <1>6, <1>8 DEF Crash, ListingItemAdd, FlagListing, ProposalAdd, CreateProposal,
     FlagProposed, FlagFirst, ballot, NoTask
<1>9. QED
  BY <1>1, <1>2, <1>3, <1>4, <1>5, <1>7, <1>8
  DEF Next, vars, items, ballot, world, tasks, Observer, FlagFirst,
      CreateProposal, Attach, Detach, CreateBid, CreateOrder, OrderFails, VotePost,
      ListingItemFlag, FlagAndVote, PostVote, PostFails,
      SetRemovedFlags, Recalculate, Finalise, Judge, JudgeFails, Delete, DeleteFails,
      ExpireListing, ListingLapses, ProposalEnds, BalanceChanges

(* Commands: whatever hides a listing was cast by the user before.         *)
LEMMA CastStep ==
  ASSUME IInv, [Next]_vars
  PROVE  VotesCast' /\ HiddenByOwnVote'
<1> USE DEF VotesCast, HiddenByOwnVote
<1>0. VotesCast /\ HiddenByOwnVote /\ NoTask.at = "none"
  BY DEF IInv, NoTask
<1>1. ASSUME NEW v \in Voter, NEW option \in ItemVote, ReceiveVote(v, option)
      PROVE  VotesCast' /\ HiddenByOwnVote'
  BY <1>0, <1>1 DEF ReceiveVote, LookUp, items, world
<1>2. CASE FinishIncoming
  <2>1. incoming.at = "vote" /\ incoming' = NoTask /\ UNCHANGED <<outgoing, command, cast>>
    BY <1>2 DEF FinishIncoming, world
  <2>2. removed' \subseteq removed \/ (incoming.voter \in Mine /\ incoming.option = "REMOVE")
    BY <1>2 DEF FinishIncoming, FinishVote, SetRemovedFlag
  <2>3. QED
    BY <1>0, <2>1, <2>2
<1>3. CASE FinishOutgoing
  <2>1. outgoing # NoTask /\ outgoing' = NoTask /\ UNCHANGED <<incoming, command, cast>>
    BY <1>3 DEF FinishOutgoing, world
  <2>2. removed' \subseteq removed \/ (outgoing.voter \in Mine /\ outgoing.option = "REMOVE")
    BY <1>3 DEF FinishOutgoing, FinishVote, SetRemovedFlag
  <2>3. QED
    BY <1>0, <2>1, <2>2
<1>4. ASSUME NEW option, NEW flags, Voting(option, flags),
             UNCHANGED <<incoming, outgoing, cast, removed>>
      PROVE  VotesCast' /\ HiddenByOwnVote'
  BY <1>0, <1>4 DEF Voting
<1>5. ASSUME NEW v \in Mine, PostVote(v)
      PROVE  VotesCast' /\ HiddenByOwnVote'
  <2>1. command \in CommandTask
    BY <1>5 DEF PostVote, IInv, Typed, TasksTyped, ProposalTask, NoTask
  <2>2. command'.option = command.option /\ <<v, command.option>> \in cast'
    BY <1>5, <2>1 DEF PostVote, CommandTask
  <2>3. cast \subseteq cast' /\ incoming' = incoming /\ removed' = removed
    BY <1>5 DEF PostVote, items
  <2>4. outgoing' # NoTask => outgoing'.voter = v /\ outgoing'.option = command.option
    BY <1>5 DEF PostVote, LookUp
  <2>5. QED
    BY <1>0, <1>5, <2>2, <2>3, <2>4
<1>6. CASE SetRemovedFlags
  <2>1. command' = NoTask /\ UNCHANGED <<incoming, outgoing, cast>>
    BY <1>6 DEF SetRemovedFlags, world
  <2>2. removed' \subseteq removed \/ command.option = "REMOVE"
    BY <1>6 DEF SetRemovedFlags
  <2>3. command.at = "command" /\ command.left = {}
    BY <1>6 DEF SetRemovedFlags
  <2>4. QED
    BY <1>0, <2>1, <2>2, <2>3
<1>7. ASSUME removed' \subseteq removed, cast' = cast,
             incoming' = incoming \/ incoming'.at \in {"none", "listing", "proposal"},
             outgoing' \in {outgoing, NoTask},
             command' = command \/ command'.at \in {"none", "proposal"}
      PROVE  VotesCast' /\ HiddenByOwnVote'
  BY <1>0, <1>7
<1>8. ASSUME NEW r \in Row, Delete(r) PROVE removed' \subseteq removed
  BY <1>8 DEF Delete, RemoveRow
<1>9. CASE FlagAndVote
  <2>1. CASE command' = NoTask
    BY <1>0, <1>7, <1>9, <2>1 DEF FlagAndVote, FlagFirst, world
  <2>2. CASE Voting("REMOVE", flagged')
    BY <1>4, <1>9, <2>2 DEF FlagAndVote, FlagFirst, world
  <2>3. QED
    BY <1>9, <2>1, <2>2 DEF FlagAndVote
<1>10. CASE ListingItemAdd \/ FlagListing \/ ProposalAdd \/ FlagProposed \/ Crash
  BY <1>0, <1>7, <1>10 DEF ListingItemAdd, FlagListing, ProposalAdd, CreateProposal,
     FlagProposed, FlagFirst, Crash, items, world
<1>11. ASSUME NEW r \in Row, ListingItemFlag(r) PROVE VotesCast' /\ HiddenByOwnVote'
  BY <1>0, <1>7, <1>11 DEF ListingItemFlag, CreateProposal, items, world
<1>12. ASSUME removed' \subseteq removed, UNCHANGED <<cast, incoming, outgoing, command>>
       PROVE  VotesCast' /\ HiddenByOwnVote'
  BY <1>7, <1>12
<1>13. CASE PostFails
  BY <1>0, <1>7, <1>13 DEF PostFails, items, world
<1>14. QED
  BY <1>1, <1>2, <1>3, <1>4, <1>5, <1>6, <1>8, <1>9, <1>10, <1>11, <1>12, <1>13
  DEF Next, vars, items, ballot, world, tasks, Observer,
      Attach, Detach, CreateBid, CreateOrder, OrderFails, VotePost,
      Recalculate, Finalise, Judge, JudgeFails, Delete, DeleteFails, ExpireProposal,
      ExpireListing, ListingLapses, ProposalEnds, BalanceChanges

(* Flags: they come and go with their listing and stay with the proposal.  *)
LEMMA FlagsStep ==
  ASSUME IInv, [Next]_vars
  PROVE  RemovingWhenFinal' /\ FlaggingKnown' /\ FlagsRefer' /\ FlaggedIfKnown'
<1> DEFINE Good == RemovingWhenFinal /\ FlaggingKnown /\ FlagsRefer /\ FlaggedIfKnown
<1> USE DEF RemovingWhenFinal, FlaggingKnown, FlagsRefer, FlaggedIfKnown, Flagging
<1>0. /\ Good /\ ItemsTyped /\ NoTask.at = "none"
      /\ posted \in Nat /\ listed \subseteq 1 .. posted /\ FirstListed \subseteq listed
  BY ListedRows DEF IInv, Typed, ItemsTyped, NoTask
<1>1. posted = 1 => FirstListed = listed
  <2>1. posted = 1 => \A r \in listed : r = 1
    BY <1>0
  <2>2. QED
    BY <2>1 DEF FirstListed
<1>2. CASE ListingItemAdd
  <2>1. /\ posted' = posted + 1 /\ listed' = listed \cup {posted + 1}
        /\ incoming'.at = "listing" /\ incoming'.row = posted + 1
        /\ UNCHANGED <<flagged, proposal, removing, command>>
    BY <1>2 DEF ListingItemAdd, ballot
  <2>2. incoming'.row \in 1 .. posted'
    BY <1>0, <2>1
  <2>3. QED
    BY <1>0, <2>1, <2>2
<1>3. CASE FlagListing
  <2>1. /\ incoming.at = "listing" /\ incoming'.at = "none"
        /\ flagged' = flagged \cup {r \in listed \cap {incoming.row} : proposal \in {"active", "final"}}
        /\ UNCHANGED <<posted, listed, proposal, removing, command>>
    BY <1>0, <1>3 DEF FlagListing, ballot
  <2>2. posted = 1 => listed \subseteq {incoming.row}
    BY <1>0, <2>1
  <2>3. posted = 1 /\ proposal = "active" => listed \subseteq flagged'
    BY <2>1, <2>2
  <2>4. flagged' \subseteq listed /\ (flagged' # {} => proposal \in {"active", "final"})
    BY <1>0, <2>1
  <2>5. QED
    BY <1>0, <2>1, <2>3, <2>4
<1>4. ASSUME CreateProposal, removing' = removing,
             incoming'.at = "proposal" \/ command'.at = "proposal",
             incoming'.at = "listing" => incoming' = incoming
      PROVE  Good'
  BY <1>0, <1>4 DEF CreateProposal, items
<1>5. ASSUME FlagFirst, removing' = removing,
             incoming.at = "proposal" \/ command.at = "proposal",
             incoming'.at \in {"proposal", "listing"} => incoming' = incoming,
             command'.at = "proposal" => command' = command
      PROVE  Good'
  <2>1. /\ flagged' = flagged \cup FirstListed /\ UNCHANGED <<posted, listed, proposal>>
        /\ proposal \in {"active", "final"}
    BY <1>0, <1>5 DEF FlagFirst, ballot
  <2>2. flagged' \subseteq listed /\ (posted = 1 => listed \subseteq flagged')
    BY <1>0, <1>1, <2>1
  <2>3. QED
    BY <1>0, <1>5, <2>1, <2>2
<1>6. CASE Finalise
  BY <1>0, <1>6 DEF Finalise, items
<1>7. ASSUME NEW r \in Row, Judge(r) \/ JudgeFails(r)
      PROVE  Good'
  <2>1. removing # {}
    BY <1>7 DEF Judge, JudgeFails
  <2>2. UNCHANGED <<proposal, posted, listed, incoming, command>>
    BY <1>7 DEF Judge, JudgeFails
  <2>3. flagged' \subseteq flagged
    BY <1>7 DEF Judge, JudgeFails, Condemn, Spare
  <2>4. QED
    BY <1>0, <2>1, <2>2, <2>3
<1>8. ASSUME NEW r \in Row, Delete(r)
      PROVE  Good'
  <2>1. UNCHANGED <<posted, proposal, removing, incoming, command, torn>>
    BY <1>8 DEF Delete, ballot, world, past
  <2>2. \/ UNCHANGED <<listed, flagged>>
        \/ listed' = listed \ {r} /\ flagged' = flagged \ {r}
    BY <1>8 DEF Delete, RemoveRow
  <2>3. QED
    BY <1>0, <2>1, <2>2
<1>9. CASE ExpireProposal
  BY <1>0, <1>9 DEF ExpireProposal, items, tasks
<1>10. CASE Crash
  BY <1>0, <1>10 DEF Crash, items, ballot
<1>11. ASSUME posted' = posted, listed' = listed, flagged' = flagged,
              proposal' = proposal, removing' = removing, torn' = torn,
              \/ incoming' = incoming
              \/ incoming.at = "vote" /\ incoming'.at = "none",
              \/ command' = command
              \/ command.at \in {"none", "command"} /\ command'.at \in {"none", "command"}
       PROVE  Good'
  BY <1>0, <1>11
<1>12. CASE ProposalAdd
  BY <1>0, <1>4, <1>12 DEF ProposalAdd
<1>13. ASSUME NEW r \in Row, ListingItemFlag(r) PROVE Good'
  BY <1>0, <1>4, <1>13 DEF ListingItemFlag
<1>14. CASE FlagProposed
  BY <1>0, <1>5, <1>14 DEF FlagProposed
<1>15. CASE FlagAndVote
  <2>1. command'.at \in {"none", "command"}
    BY <1>0, <1>15 DEF FlagAndVote, Voting
  <2>2. QED
    BY <1>0, <1>5, <1>15, <2>1 DEF FlagAndVote
<1>16. ASSUME NEW v \in Voter, NEW option \in ItemVote, ReceiveVote(v, option) PROVE Good'
  BY <1>0, <1>16 DEF ReceiveVote, LookUp, items, ballot, world, past
<1>17. CASE FinishIncoming
  BY <1>0, <1>11, <1>17 DEF FinishIncoming, FinishVote, world, past
<1>18. ASSUME NEW option \in ItemVote, VotePost(option) PROVE Good'
  BY <1>0, <1>11, <1>18 DEF VotePost, Voting, items, ballot, world, past
<1>19. ASSUME NEW v \in Mine, PostVote(v) PROVE Good'
  <2>1. command \in CommandTask
    BY <1>19 DEF PostVote, IInv, Typed, TasksTyped, ProposalTask, NoTask
  <2>2. command'.at = "command" /\ command.at = "command"
    BY <1>19, <2>1 DEF PostVote, CommandTask
  <2>3. UNCHANGED <<posted, listed, flagged, proposal, removing, torn, incoming>>
    BY <1>19 DEF PostVote, items, ballot, past
  <2>4. QED
    BY <1>11, <2>2, <2>3
<1>20. CASE PostFails \/ SetRemovedFlags
  BY <1>0, <1>11, <1>20 DEF PostFails, SetRemovedFlags, items, ballot, world, past
<1>21. ASSUME UNCHANGED <<posted, listed, flagged, proposal, removing, torn, incoming, command>>
       PROVE  Good'
  BY <1>0, <1>21
<1>22. QED
  BY <1>2, <1>3, <1>6, <1>7, <1>8, <1>9, <1>10, <1>12, <1>13, <1>14, <1>15, <1>16, <1>17, <1>18, <1>19, <1>20, <1>21
  DEF Next, vars, items, ballot, world, past, tasks, Observer, Attach, Detach,
      CreateBid, CreateOrder, OrderFails, FinishOutgoing, FinishVote, Recalculate,
      DeleteFails, ExpireListing, ListingLapses, ProposalEnds, BalanceChanges

(* Together: no step of the node, the user or the observers breaks it.     *)
LEMMA NextInv == IInv /\ [Next]_vars => IInv'
  BY TypedStep, VotesStep, CastStep, FlagsStep DEF IInv

(* destroy() leaves a listing that has an order, whatever it has looked at.*)
LEMMA BidsStep ==
  ASSUME [Next]_vars
  PROVE  \A r \in listed : "order" \in related[r] => r \in listed'
<1>1. ASSUME NEW x \in Row, Delete(x)
      PROVE  \A r \in listed : "order" \in related[r] => r \in listed'
  BY <1>1 DEF Delete, RemoveRow
<1>2. CASE listed \subseteq listed'
  BY <1>2
<1>3. QED
  BY <1>1, <1>2
  DEF Next, vars, items, ballot, world, tasks, Observer, ListingItemAdd, FlagListing,
      ProposalAdd, FlagProposed, FlagFirst, CreateProposal, Attach, Detach, CreateBid,
      CreateOrder, OrderFails, ReceiveVote, FinishIncoming, FinishOutgoing,
      FinishVote, VotePost, ListingItemFlag, FlagAndVote, PostVote, PostFails,
      SetRemovedFlags, Recalculate, Finalise, Judge, JudgeFails, DeleteFails,
      ExpireProposal, ExpireListing, ListingLapses, ProposalEnds, BalanceChanges, Crash

-----------------------------------------------------------------------------
(* The theorems.                                                           *)

(* The strengthening holds in every reachable state.                       *)
THEOREM Invariance == Spec => []IInv
<1>1. Init => IInv
  BY InitInv
<1>2. IInv /\ [Next]_vars => IInv'
  BY NextInv
<1>3. QED
  BY <1>1, <1>2, PTL DEF Spec

(* Tables, flags, tasks and votes keep their types, whatever comes.        *)
THEOREM TypeCorrect == Spec => []TypeOK
<1>1. IInv => TypeOK
  BY TypedIsOK DEF IInv
<1>2. QED
  BY <1>1, Invariance, PTL

(* createFlaggedItemIfNeeded() and createFlaggedItemsForProposal() between *)
(* them flag a listing posted once, in every order of the two rows and the *)
(* two looks, unless a stop comes between a row and the look after it.     *)
THEOREM KnownIsFlagged == Spec => []FlaggedIfKnown
<1>1. IInv => FlaggedIfKnown
  BY DEF IInv
<1>2. QED
  BY <1>1, Invariance, PTL

(* No FlaggedItem outlives its listing or its proposal: destroy(), the     *)
(* expiry of the proposal and stops in between included.                   *)
THEOREM FlagsAreBound == Spec => []FlagsRefer
<1>1. IInv => FlagsRefer
  BY DEF IInv
<1>2. QED
  BY <1>1, Invariance, PTL

(* The look-up of VoteActionService is as good as a unique key for all     *)
(* addresses that are not the node's own.                                  *)
THEOREM OneVoteOfOthers == Spec => []OthersVoteOnce
<1>1. IInv => OthersVoteOnce
  BY DEF IInv
<1>2. QED
  BY <1>1, Invariance, PTL

(* Neither setRemovedFlagIfNeeded() nor setRemovedFlags() hides a listing  *)
(* before a command of the user has sent a vote for it.                    *)
THEOREM OnlyOwnVoteHides == Spec => []HiddenByOwnVote
<1>1. IInv => HiddenByOwnVote
  BY DEF IInv
<1>2. QED
  BY <1>1, Invariance, PTL

(* The foreign key of the order item saves a listing that has been ordered *)
(* from every destroy(), however old the look is that led to it.           *)
THEOREM BidsAreKept == Spec => BidsKeepListing
<1>1. [Next]_vars => [\A r \in listed : "order" \in related[r] => r \in listed']_vars
  BY BidsStep
<1>2. QED
  BY <1>1, PTL DEF Spec, BidsKeepListing
=============================================================================
