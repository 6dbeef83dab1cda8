----------------------------- MODULE Moderation -----------------------------
(***************************************************************************)
(* How one node moderates one listing: a proposal to remove it, the votes  *)
(* of wallet addresses weighted with their balances, and the removal when  *)
(* the vote is over.  Messages are processed one at a time; a command of   *)
(* the user and the observers run beside them, and all of them interleave  *)
(* at their awaits.  The listing's hash may be posted more than once, each *)
(* time as a listing of its own.                                           *)
(***************************************************************************)
EXTENDS Naturals, Sequences, FiniteSets, FiniteSetsExt

CONSTANTS
  Voter,       \* the addresses that vote
  Mine,        \* those of this node's wallet
  Needed,      \* the weight that removal needs on top of what keeps it
  MaxBalance,  \* bound: the balance of an address
  Spender,     \* bound: the addresses whose balance changes
  MaxListings, \* bound: how often the listing is posted
  Relations,   \* bound: what refers to a listing
  MaxCrashes   \* bound: how often the node stops

ASSUME ModerationAssumption ==
  /\ Mine \subseteq Voter /\ Spender \subseteq Voter /\ IsFiniteSet(Voter)
  /\ Needed \in Nat /\ MaxBalance \in Nat
  /\ MaxListings \in Nat /\ MaxCrashes \in Nat
  /\ Relations \subseteq {"bid", "favorite", "cart"}

Row == 1 .. MaxListings
ItemVote == {"KEEP", "REMOVE"}
Weight == 0 .. MaxBalance
NoTask == [at |-> "none"]

(* A vote between the look for an earlier one and its own row.             *)
VoteTask ==
  [at : {"vote"}, voter : Voter, option : ItemVote, weight : Weight, found : BOOLEAN]

(* A listing or a proposal between its own row and the flag.               *)
ListingTask == [at : {"listing"}, row : Row]
ProposalTask == [at : {"proposal"}]

VARIABLES
  posted,      \* how many listings with the hash have come
  listed,      \* those in the table listing_items
  lapsed,      \* those whose expiration has passed
  removed,     \* those the user does not see any more
  related,     \* related[r]: what refers to the listing r, "order" by its bid
  flagged,     \* the listings with a FlaggedItem
  proposal,    \* "none", "active", "final" with a final result, or "gone"
  ended,       \* the proposal has expired
  verdict,     \* the final result is for removal
  blacklisted, \* the hash is on the blacklist
  votes,       \* votes[v]: the rows for voter v, oldest first
  balance,     \* balance[v]: what core says v has
  cast,        \* the votes the user's commands have sent
  incoming,    \* what the action queue is working on
  command,     \* the flagging or voting command that is running
  outgoing,    \* the vote that command is working on
  bidding,     \* the listings whose new bid has no order item yet
  removing,    \* the observer of results has still to look at these flags
  doomed,      \* destroy() has looked at these listings, not yet deleted them
  crashes,
  torn,        \* a stop came between a row and its flag
  spoiled      \* the listings whose removal was tried and failed

items == <<posted, listed, lapsed, removed, related, flagged>>
ballot == <<proposal, ended, verdict, blacklisted, votes>>
past == <<crashes, torn, spoiled>>
world == <<balance, cast, past>>
tasks == <<incoming, command, outgoing, bidding, removing, doomed>>
vars == <<items, ballot, world, tasks>>

VoteRow == [option : ItemVote, weight : Weight]

TypeOK ==
  /\ posted \in 0 .. MaxListings
  /\ listed \subseteq 1 .. posted /\ lapsed \subseteq 1 .. posted
  /\ removed \subseteq Row /\ removing \subseteq Row /\ doomed \subseteq Row
  /\ flagged \subseteq Row /\ bidding \subseteq Row /\ spoiled \subseteq Row
  /\ related \in [Row -> SUBSET (Relations \cup {"order"})]
  /\ proposal \in {"none", "active", "final", "gone"}
  /\ ended \in BOOLEAN /\ verdict \in BOOLEAN /\ blacklisted \in BOOLEAN
  /\ votes \in [Voter -> Seq(VoteRow)]
  /\ balance \in [Voter -> Weight]
  /\ cast \subseteq Mine \X ItemVote
  /\ incoming \in VoteTask \cup ListingTask \cup ProposalTask \cup {NoTask}
  /\ outgoing \in VoteTask \cup {NoTask}
  /\ \/ command \in ProposalTask \cup {NoTask}
     \/ /\ command.at = "command" /\ command.option \in ItemVote
        /\ command.left \subseteq Mine /\ command.flags \subseteq Row
  /\ crashes \in 0 .. MaxCrashes /\ torn \in BOOLEAN

Init ==
  /\ posted = 0 /\ listed = {} /\ lapsed = {} /\ removed = {} /\ flagged = {}
  /\ related = [r \in Row |-> {}]
  /\ proposal = "none" /\ ended = FALSE /\ verdict = FALSE /\ blacklisted = FALSE
  /\ votes = [v \in Voter |-> <<>>]
  /\ balance \in [Voter -> Weight]
  /\ cast = {} /\ crashes = 0 /\ torn = FALSE /\ spoiled = {}
  /\ incoming = NoTask /\ command = NoTask /\ outgoing = NoTask
  /\ bidding = {} /\ removing = {} /\ doomed = {}

-----------------------------------------------------------------------------
(* Counting votes.                                                         *)

(* recalculateProposalResult() adds up the weights as it has read them ... *)
Total(vs, option) ==
  MapThenSumSet(LAMBDA x : vs[x[1]][x[2]].weight,
    {x \in UNION {{v} \X (1 .. Len(vs[v])) : v \in Voter} :
       vs[x[1]][x[2]].option = option})
ForRemoval(vs) == Total(vs, "REMOVE") > Total(vs, "KEEP") + Needed

(* Mutant: the balance is added to the weight.                             *)
RefreshedByAdding(vs) ==
  [v \in Voter |-> [i \in 1 .. Len(vs[v]) |->
     [vs[v][i] EXCEPT !.weight = @ + balance[v]]]]

(* ... and leaves the balances in the rows for the next time.              *)
Refreshed(vs) ==
  [v \in Voter |-> [i \in 1 .. Len(vs[v]) |->
     [vs[v][i] EXCEPT !.weight = balance[v]]]]

(* shouldRemoveFlaggedItem(): a FlaggedItem is loaded with the favorites   *)
(* and the cart items of its listing, not with its bids.                   *)
SeenWithFlag == {"favorite", "cart"}
ShouldRemove(forRemoval, r) == forRemoval /\ related[r] \cap SeenWithFlag = {}

(* A listing is loaded with its bids and favorites, not its cart items.    *)
SeenWithListing == {"bid", "favorite"}
MayDestroy(r) == related[r] \cap SeenWithListing = {}

-----------------------------------------------------------------------------
(* Listings and the proposal.                                              *)

(* processMessage() of a listing makes its row ...                         *)
ListingItemAdd ==
  /\ incoming = NoTask /\ posted < MaxListings
  /\ posted' = posted + 1
  /\ listed' = listed \cup {posted + 1}
  /\ incoming' = [at |-> "listing", row |-> posted + 1]
  /\ UNCHANGED <<lapsed, removed, related, flagged, ballot, world>>
  /\ UNCHANGED <<command, outgoing, bidding, removing, doomed>>

(* Mutant: only a proposal that has its final result is looked for.        *)
FlagListingLate ==
  /\ incoming.at = "listing" /\ incoming' = NoTask
  /\ flagged' = flagged \cup {r \in listed \cap {incoming.row} : proposal = "final"}
  /\ UNCHANGED <<posted, listed, lapsed, removed, related, ballot, world>>
  /\ UNCHANGED <<command, outgoing, bidding, removing, doomed>>

(* ... and then createFlaggedItemIfNeeded() looks for a proposal, also for *)
(* one that has its final result.  No flag is made if the listing has gone.*)
FlagListing ==
  /\ incoming.at = "listing" /\ incoming' = NoTask
  /\ flagged' = flagged \cup
       {r \in listed \cap {incoming.row} : proposal \in {"active", "final"}}
  /\ UNCHANGED <<posted, listed, lapsed, removed, related, ballot, world>>
  /\ UNCHANGED <<command, outgoing, bidding, removing, doomed>>

(* processMessage() of a proposal makes its row ...                        *)
CreateProposal ==
  /\ proposal = "none" /\ proposal' = "active"
  /\ UNCHANGED <<items, ended, verdict, blacklisted, votes>>

ProposalAdd ==
  /\ incoming = NoTask /\ incoming' = [at |-> "proposal"]
  /\ CreateProposal
  /\ UNCHANGED <<world, command, outgoing, bidding, removing, doomed>>

(* ... and then createFlaggedItemsForProposal() flags the first listing    *)
(* with the hash; when there is none it throws.                            *)
FirstListed == {r \in listed : \A x \in listed : r <= x}

FlagFirst ==
  /\ flagged' = flagged \cup FirstListed
  /\ UNCHANGED <<posted, listed, lapsed, removed, related, ballot>>

FlagProposed ==
  /\ incoming.at = "proposal" /\ incoming' = NoTask
  /\ FlagFirst
  /\ UNCHANGED <<world, command, outgoing, bidding, removing, doomed>>

(* What users attach to a listing.                                         *)
Attach(r, what) ==
  /\ what # "bid" /\ r \in listed
  /\ related' = [related EXCEPT ![r] = @ \cup {what}]
  /\ UNCHANGED <<posted, listed, lapsed, removed, flagged, ballot, world, tasks>>

Detach(r, what) ==
  /\ what # "bid" /\ what \in related[r]
  /\ related' = [related EXCEPT ![r] = @ \ {what}]
  /\ UNCHANGED <<posted, listed, lapsed, removed, flagged, ballot, world, tasks>>

(* A bid names the listing by its hash and goes to the first one: its row  *)
(* comes first ...                                                         *)
CreateBid(r) ==
  /\ "bid" \in Relations /\ r \in FirstListed
  /\ related' = [related EXCEPT ![r] = @ \cup {"bid"}]
  /\ bidding' = bidding \cup {r}
  /\ UNCHANGED <<posted, listed, lapsed, removed, flagged, ballot, world>>
  /\ UNCHANGED <<incoming, command, outgoing, removing, doomed>>

(* ... and then the order item that refers to it, unless the bid has gone  *)
(* with its listing.                                                       *)
CreateOrder(r) ==
  /\ r \in bidding /\ bidding' = bidding \ {r}
  /\ related' = [related EXCEPT ![r] = @ \cup {x \in {"order"} : "bid" \in @}]
  /\ UNCHANGED <<posted, listed, lapsed, removed, flagged, ballot, world>>
  /\ UNCHANGED <<incoming, command, outgoing, removing, doomed>>

(* The bid is not from or for the right address: it stays without an order.*)
OrderFails(r) ==
  /\ r \in bidding /\ bidding' = bidding \ {r}
  /\ UNCHANGED <<items, ballot, world, incoming, command, outgoing, removing, doomed>>

-----------------------------------------------------------------------------
(* Votes: VoteActionService.processMessage() looks for the voter's row,    *)
(* and after further awaits updates it or makes one.                       *)

(* Mutant: the row is looked for by the message that made it.              *)
LookUpByMessage(v, option) ==
  [at |-> "vote", voter |-> v, option |-> option,
   weight |-> balance[v], found |-> FALSE]

LookUp(v, option) ==
  [at |-> "vote", voter |-> v, option |-> option,
   weight |-> balance[v], found |-> votes[v] # <<>>]

Recorded(task) ==
  LET row == [option |-> task.option, weight |-> task.weight]
  IN  [votes EXCEPT ![task.voter] =
         IF task.found THEN [@ EXCEPT ![1] = row] ELSE Append(@, row)]

(* Mutant: whose address voted is not asked for.                           *)
SetRemovedFlagWhoever(task, forRemoval) ==
  LET hit == {r \in flagged : ShouldRemove(forRemoval, r)}
  IN  removed' = IF task.option = "REMOVE" THEN removed \cup hit ELSE removed \ hit

(* setRemovedFlagIfNeeded(): only the votes of the own addresses count.    *)
SetRemovedFlag(task, forRemoval) ==
  LET hit == {r \in flagged : task.voter \in Mine /\ ShouldRemove(forRemoval, r)}
  IN  removed' = IF task.option = "REMOVE" THEN removed \cup hit ELSE removed \ hit

FinishVote(task) ==
  /\ votes' = Refreshed(Recorded(task))
  /\ SetRemovedFlag(task, ForRemoval(Recorded(task)))
  /\ UNCHANGED <<posted, listed, lapsed, related, flagged>>
  /\ UNCHANGED <<proposal, ended, verdict, blacklisted>>

(* A vote arrives: of somebody else, or one of the node's own that comes   *)
(* back to it, at any time after it was sent.  After the proposal has      *)
(* ended votes leave no trace.                                             *)
ReceiveVote(v, option) ==
  /\ incoming = NoTask
  /\ proposal \in {"active", "final"} /\ ~ ended
  /\ v \in Mine => <<v, option>> \in cast
  /\ incoming' = LookUp(v, option)
  /\ UNCHANGED <<items, ballot, world, command, outgoing, bidding, removing, doomed>>

FinishIncoming ==
  /\ incoming.at = "vote"
  /\ FinishVote(incoming)
  /\ incoming' = NoTask
  /\ UNCHANGED <<world, command, outgoing, bidding, removing, doomed>>

(* vote(): every own address with a balance votes in turn; when there is   *)
(* none nothing happens.  The command keeps the flags it has read before.  *)
Voting(option, flags) ==
  LET voters == {v \in Mine : balance[v] > 0}
  IN  command' = IF voters = {} THEN NoTask
                 ELSE [at |-> "command", option |-> option, flags |-> flags,
                       left |-> voters]

VotePost(option) ==
  /\ command = NoTask
  /\ proposal \in {"active", "final"}
  /\ Voting(option, flagged)
  /\ UNCHANGED <<items, ballot, world, incoming, outgoing, bidding, removing, doomed>>

(* The user flags a listing: a proposal of its own, the flag, and votes.   *)
ListingItemFlag(r) ==
  /\ command = NoTask /\ command' = [at |-> "proposal"]
  /\ r \in listed \ flagged
  /\ CreateProposal
  /\ UNCHANGED <<world, incoming, outgoing, bidding, removing, doomed>>

FlagAndVote ==
  /\ command.at = "proposal"
  /\ FlagFirst
  /\ IF FirstListed = {} THEN command' = NoTask ELSE Voting("REMOVE", flagged')
  /\ UNCHANGED <<world, incoming, outgoing, bidding, removing, doomed>>

PostVote(v) ==
  /\ command.at = "command" /\ outgoing = NoTask
  /\ v \in command.left
  /\ command' = [command EXCEPT !.left = @ \ {v}]
  /\ cast' = cast \cup {<<v, command.option>>}
  /\ outgoing' = IF ended THEN NoTask ELSE LookUp(v, command.option)
  /\ UNCHANGED <<items, ballot, balance, past, incoming, bidding, removing, doomed>>

FinishOutgoing ==
  /\ outgoing # NoTask
  /\ FinishVote(outgoing)
  /\ outgoing' = NoTask
  /\ UNCHANGED <<world, incoming, command, bidding, removing, doomed>>

(* A post that throws ends the command.                                    *)
PostFails ==
  /\ command.at = "command" /\ outgoing = NoTask /\ command.left # {}
  /\ command' = NoTask
  /\ UNCHANGED <<items, ballot, world, incoming, outgoing, bidding, removing, doomed>>

(* setRemovedFlags(): the flags in turn, up to one whose listing is gone.  *)
SetRemovedFlags ==
  /\ command.at = "command" /\ outgoing = NoTask /\ command.left = {}
  /\ LET set == {r \in command.flags : \A x \in command.flags : x <= r => x \in listed}
     IN  removed' = IF command.option = "REMOVE" THEN removed \cup set
                    ELSE removed \ set
  /\ command' = NoTask
  /\ UNCHANGED <<posted, listed, lapsed, related, flagged, ballot, world>>
  /\ UNCHANGED <<incoming, outgoing, bidding, removing, doomed>>

-----------------------------------------------------------------------------
(* The observers.                                                          *)

(* ProposalResultRecalcService: the results of the active proposals ...    *)
Recalculate ==
  /\ proposal = "active" /\ ~ ended /\ removing = {}
  /\ votes' = Refreshed(votes)
  /\ UNCHANGED <<items, proposal, ended, verdict, blacklisted, world, tasks>>

(* Mutant: a proposal whose listing is not known is passed over.           *)
FinaliseFlagged ==
  /\ proposal = "active" /\ ended /\ removing = {} /\ flagged # {}
  /\ proposal' = "final"
  /\ verdict' = ForRemoval(votes) /\ votes' = Refreshed(votes)
  /\ removing' = flagged
  /\ UNCHANGED <<items, ended, blacklisted, world>>
  /\ UNCHANGED <<incoming, command, outgoing, bidding, doomed>>

(* ... and the final one of a proposal that has ended, which is set first: *)
(* the flagged listings are looked at afterwards, one by one.              *)
Finalise ==
  /\ proposal = "active" /\ ended /\ removing = {}
  /\ proposal' = "final"
  /\ verdict' = ForRemoval(votes) /\ votes' = Refreshed(votes)
  /\ removing' = flagged
  /\ UNCHANGED <<items, ended, blacklisted, world>>
  /\ UNCHANGED <<incoming, command, outgoing, bidding, doomed>>

(* Mutant: the listing is not destroyed with its flag.                     *)
CondemnFlagOnly(r) ==
  /\ r \in flagged /\ ShouldRemove(verdict, r)
  /\ blacklisted' = TRUE
  /\ flagged' = flagged \ {r}
  /\ UNCHANGED doomed

(* addBlacklistAndRemoveFlagged(): blacklist, flag, and the first look of  *)
(* destroy() at the listing.                                               *)
Condemn(r) ==
  /\ r \in flagged /\ ShouldRemove(verdict, r)
  /\ blacklisted' = TRUE
  /\ flagged' = flagged \ {r}
  /\ doomed' = doomed \cup {x \in {r} : MayDestroy(x)}

Spare(r) ==
  /\ r \notin flagged \/ ~ ShouldRemove(verdict, r)
  /\ UNCHANGED <<blacklisted, flagged, doomed>>

Judge(r) ==
  /\ r \in removing /\ removing' = removing \ {r}
  /\ Condemn(r) \/ Spare(r)
  /\ UNCHANGED <<posted, listed, lapsed, removed, related>>
  /\ UNCHANGED <<proposal, ended, verdict, votes, world>>
  /\ UNCHANGED <<incoming, command, outgoing, bidding>>

(* What fails there, as the call to core does when core is not reached, is *)
(* caught: nothing, the blacklist, or the blacklist and the flag is done,  *)
(* and the next flag's turn comes.                                         *)
JudgeFails(r) ==
  /\ r \in removing /\ removing' = removing \ {r}
  /\ \/ UNCHANGED <<blacklisted, flagged>>
     \/ /\ r \in flagged /\ ShouldRemove(verdict, r)
        /\ blacklisted' = TRUE /\ flagged' \in {flagged, flagged \ {r}}
  /\ spoiled' = spoiled \cup {r}
  /\ UNCHANGED <<posted, listed, lapsed, removed, related>>
  /\ UNCHANGED <<proposal, ended, verdict, votes, balance, cast, crashes, torn>>
  /\ UNCHANGED <<incoming, command, outgoing, bidding, doomed>>

(* ExpiredListingItemService: the search leaves out listings with bids.    *)
ExpireListing(r) ==
  /\ r \in listed \cap lapsed /\ r \notin doomed
  /\ MayDestroy(r)
  /\ doomed' = doomed \cup {r}
  /\ UNCHANGED <<items, ballot, world>>
  /\ UNCHANGED <<incoming, command, outgoing, bidding, removing>>

RemoveRow(r) ==
  /\ listed' = listed \ {r} /\ removed' = removed \ {r} /\ flagged' = flagged \ {r}
  /\ related' = [related EXCEPT ![r] = {}]

(* Mutant: order items go with their bid.                                  *)
DeleteCascading(r) ==
  /\ r \in doomed /\ doomed' = doomed \ {r}
  /\ IF r \in listed THEN RemoveRow(r)
     ELSE UNCHANGED <<listed, removed, flagged, related>>
  /\ UNCHANGED <<posted, lapsed, ballot, world>>
  /\ UNCHANGED <<incoming, command, outgoing, bidding, removing>>

(* The rest of destroy().  Favorites, cart items, bids and the flag go     *)
(* with the listing; but a bid that an order item refers to cannot go, and *)
(* then the database refuses the whole.                                    *)
Delete(r) ==
  /\ r \in doomed /\ doomed' = doomed \ {r}
  /\ IF r \in listed /\ "order" \notin related[r] THEN RemoveRow(r)
     ELSE UNCHANGED <<listed, removed, flagged, related>>
  /\ UNCHANGED <<posted, lapsed, ballot, world>>
  /\ UNCHANGED <<incoming, command, outgoing, bidding, removing>>

(* An image cannot be destroyed: the listing stays.                        *)
DeleteFails(r) ==
  /\ r \in doomed /\ doomed' = doomed \ {r}
  /\ spoiled' = spoiled \cup {r}
  /\ UNCHANGED <<items, ballot, balance, cast, crashes, torn>>
  /\ UNCHANGED <<incoming, command, outgoing, bidding, removing>>

(* Mutant: the flags do not hold the proposal.                             *)
ExpireProposalAnyway ==
  /\ proposal = "final"
  /\ incoming = NoTask /\ command = NoTask /\ outgoing = NoTask
  /\ proposal' = "gone" /\ votes' = [v \in Voter |-> <<>>]
  /\ UNCHANGED <<items, ended, verdict, blacklisted, world, tasks>>

(* ExpiredProposalService, a month after the end: the votes go with the    *)
(* proposal, and the database refuses as long as a FlaggedItem refers to   *)
(* it.  Nothing of the vote is under way any more by then.                 *)
ExpireProposal ==
  /\ proposal = "final" /\ flagged = {}
  /\ incoming = NoTask /\ command = NoTask /\ outgoing = NoTask
  /\ proposal' = "gone" /\ votes' = [v \in Voter |-> <<>>]
  /\ UNCHANGED <<items, ended, verdict, blacklisted, world, tasks>>

-----------------------------------------------------------------------------
(* Time, core and the process.                                             *)

ProposalEnds ==
  /\ proposal = "active" /\ ~ ended /\ ended' = TRUE
  /\ UNCHANGED <<items, proposal, verdict, blacklisted, votes, world, tasks>>

ListingLapses(r) ==
  /\ r \in listed \ lapsed
  /\ lapsed' = lapsed \cup {r}
  /\ UNCHANGED <<posted, listed, removed, related, flagged, ballot, world, tasks>>

BalanceChanges(v, amount) ==
  /\ amount # balance[v]
  /\ balance' = [balance EXCEPT ![v] = amount]
  /\ UNCHANGED <<items, ballot, cast, past, tasks>>

(* A listing or a proposal has its row, and its flag is still to come.     *)
Flagging == incoming.at \in {"listing", "proposal"} \/ command.at = "proposal"

(* The node stops and is started again: what it had in memory is gone.     *)
Crash ==
  /\ crashes < MaxCrashes /\ crashes' = crashes + 1
  /\ torn' = (torn \/ Flagging)
  /\ incoming' = NoTask /\ command' = NoTask /\ outgoing' = NoTask
  /\ bidding' = {} /\ removing' = {} /\ doomed' = {}
  /\ UNCHANGED <<items, ballot, balance, cast, spoiled>>

Observer ==
  \/ Finalise
  \/ \E r \in Row : Judge(r) \/ JudgeFails(r) \/ Delete(r) \/ DeleteFails(r)

Next ==
  \/ ListingItemAdd \/ FlagListing \/ ProposalAdd \/ FlagProposed
  \/ \E r \in Row, what \in Relations : Attach(r, what) \/ Detach(r, what)
  \/ \E r \in Row : CreateBid(r) \/ CreateOrder(r) \/ OrderFails(r)
  \/ \E v \in Voter, option \in ItemVote : ReceiveVote(v, option)
  \/ FinishIncoming \/ FinishOutgoing
  \/ \E option \in ItemVote : VotePost(option)
  \/ \E r \in Row : ListingItemFlag(r)
  \/ \E v \in Mine : PostVote(v)
  \/ FlagAndVote \/ PostFails \/ SetRemovedFlags
  \/ Recalculate \/ Observer \/ ExpireProposal
  \/ \E r \in Row : ExpireListing(r) \/ ListingLapses(r)
  \/ ProposalEnds
  \/ \E v \in Spender, amount \in Weight : BalanceChanges(v, amount)
  \/ Crash

Spec == Init /\ [][Next]_vars

(* The observers loop for ever: each look and each deletion comes to an    *)
(* end, if only by failing.                                                *)
FairSpec ==
  /\ Spec /\ WF_vars(Finalise)
  /\ \A r \in Row : /\ WF_vars(Judge(r) \/ JudgeFails(r))
                     /\ WF_vars(Delete(r) \/ DeleteFails(r))
-----------------------------------------------------------------------------
(* Whichever of the listing and the proposal comes first, and whatever     *)
(* happens between a row and the look for the other, the listing is        *)
(* flagged while the vote is on, unless the node has stopped just between  *)
(* a row and its flag.  (Of several listings that are there when the       *)
(* proposal comes, only the first is.)                                     *)
FlaggedIfKnown ==
  proposal = "active" /\ posted = 1 /\ ~ Flagging /\ ~ torn
    => listed \subseteq flagged

(* Whatever messages come in which order, an address of somebody else has  *)
(* one vote.                                                               *)
OthersVoteOnce == \A v \in Voter \ Mine : Len(votes[v]) <= 1

(* A listing disappears from the user's sight only if the user has voted   *)
(* for that: no majority of others and no vote of theirs hides it.         *)
HiddenByOwnVote ==
  removed # {} => \E v \in Mine : <<v, "REMOVE">> \in cast

(* A listing whose bid has become an order is never deleted, neither by    *)
(* the vote nor when it expires, also when bid and order come after        *)
(* destroy() has looked.  (A bid that has no order item yet goes with the  *)
(* listing, and its order is never made.)                                  *)
BidsKeepListing ==
  [][\A r \in listed : "order" \in related[r] => r \in listed']_vars

(* Every flag refers to a listing and to a proposal that are there.        *)
FlagsRefer == flagged \subseteq listed /\ (flagged # {} => proposal \in {"active", "final"})

(* A proposal that has ended gets its final result, known listing or not.  *)
ProposalDecided == (proposal = "active" /\ ended) ~> proposal # "active"

(* What was decided is done, unless something was attached to the listing, *)
(* the removal failed on the way, or the node stopped: nothing takes it up *)
(* again.                                                                  *)
VerdictCarriedOut ==
  \A r \in Row :
    (verdict /\ r \in removing \cap flagged)
      ~> (r \notin listed \/ related[r] # {} \/ r \in spoiled \/ crashes > 0)

-----------------------------------------------------------------------------
(* A statement of the sources that the program does not keep.              *)

(* ProposalResultService says that listings with bids are not to be        *)
(* removed by a vote: their flag stays, and they are not blacklisted.      *)
BidsSpareListing ==
  [][\A r \in flagged \cap listed' : "bid" \in related[r] => r \in flagged']_vars
=============================================================================
