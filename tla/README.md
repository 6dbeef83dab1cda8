# A TLA+ model of the Particl marketplace

This directory keeps a formal model of the marketplace node in `src/`: TLA+
modules translated from the TypeScript sources, TLC configurations that check
them on small instances, and TLAPS proofs of the results that hold for every
instance. `PROJECT.json` lists, for every definition, the source lines it
stands for.

## The system

A marketplace node is one Node.js process next to one particl core node. Core
carries *smsg* messages between nodes (best effort, unordered, each with a
retention time) and holds the wallets; the marketplace node keeps a database of
its own and talks to its user through RPC commands. There is no server and no
shared state: everything two nodes agree on they agree on by messages, and
every decision is taken against the local database alone.

| component | state | operations | correct if |
|---|---|---|---|
| **buy flow: commands** (`commands/bid`, `escrow`, `orderitem`) | none of its own | `validate()`, `execute()` of send, accept, reject, cancel, lock, complete, ship, release, refund | a command succeeds only where the steps it builds on have happened |
| **buy flow: action services** (`services/action`, `BaseActionService`, `OmpService`) | Bids with child Bids, Order, OrderItem; wallet reservations; broadcast transactions | `post()`: create, validate, `beforePost()`, send, save, `processMessage()` | the two databases stay consistent; statuses are backed by transactions; outputs stay reserved while the bid lives |
| **buy flow: receiving** (`messageprocessors/action`, `messagevalidators`) | status of each received `SmsgMessage` | `validateSequence()`, `onEvent()` | no message is handled before what it builds on; early ones are not forgotten |
| **message intake** (`ZmqWorker`, `CoreMessageProcessor`, `MarketplaceMessageProcessor`, `BaseActionMessageProcessor`) | core's inbox, the worker queue, two in-memory queues, the table of messages | announce, read, look up, store, remove from core, dispatch, process | every message is handled at most once, none is lost between core and database |
| **waiting messages** (`WaitingMessageService`) | a page of WAITING rows | every five seconds, reprocess what is due | what has become processable is taken up |
| **smsg service** (`SmsgService`, `smsg resend`) | none | send, resend, read, remove, ask core for unread messages | see intake |
| **bootstrap** (`ServerStartedListener`, `DefaultProfileService`, `DefaultMarketService`, `DefaultItemCategoryService`) | started/bootstrapping flags, settings of the defaults | upgrade or first start, default profile and market, loading of wallets, asking for unread messages | what arrived while the node was down is seen; a started node has what its default profile needs |
| **governance** (`ProposalAddActionService`, `VoteActionService`, `ProposalService`, `ProposalResultService`, `FlaggedItemService`, the recalculation and expiry observers) | Proposals, Votes, results, FlaggedItems, blacklist | proposal add, vote, recalculation, removal of flagged listings | an address has one vote; what is decided is done; a listing the user still needs stays |
| **listings** (`ListingItemAddActionService`, `ListingItemService`, `ExpiredListingItemService`) | ListingItems with the removed flag, what refers to them | add, flag, hide, expire, destroy | nothing that is still referred to is deleted |
| **listing templates** (`ListingItemTemplateService`, `commands/listingitemtemplate`) | ListingItemTemplates in trees of base, market template, versions; their hashes | add, clone, edit, post, remove; relation of a listing that comes back | a listing that refers to a template is what the template shows; what was posted is not edited; the tree stays a tree |
| **images** (`ImageService`, `ImageDataService`, the two image messages) | Images, ImageDatas, the files named after hash and version | create, refresh, resize, link, destroy | a row's file can be read; a file with no row is gone; an image that came first is shown |
| **markets** (`commands/market`, `MarketService`) | Markets, joined or promoted; what core listens to | add, join, remove, default, promote, expire | a market has its profile's identity; the default market stays |
| **identities, profiles and wallets** (`IdentityService`, `ProfileService`) | Identities, Profiles, core's wallets with keys and accounts | profile and market identities | an identity's wallet has its key and account, wherever the node stopped |
| **item categories** (`ItemCategoryService`, `DefaultItemCategoryService`, `commands/itemcategory`) | ItemCategories: default ones and each market's, in trees from ROOT | seed, find or create by path, add, update, remove | a listing is in a category of its market with the key it was sent with, and that key is what its names say; what refers to a category keeps it |
| comments, addresses, shopping carts, favourites, other settings, notifications | local records | create, read, update, delete | record-level constraints |
| HTTP/RPC/socket servers, cookie and connection observers, models and repositories | transport and mapping | | not modelled |

How they interact. A user's command runs in the event loop of the RPC
controller; a received message runs in the queue of `CoreMessageProcessor` and
then in the `actionQueue` of `MarketplaceMessageProcessor` (both of concurrency
one); observers run on timers. All of them `await` database and core calls, so
they interleave at every `await` although there is one thread. The two nodes
interact by smsg only.

What is hard about it: messages that are lost, late, reordered, resent and
announced twice; commands that validate against a database the other node has
already overtaken; transactions that are broadcast before the message that
reports them; a process that stops between two awaits, with two queues in
memory; checks whose result is used after a wait; observers that look and then
delete. `PROJECT.json` lists these hazards at their lines, with the properties
that watch them.

## Modules

| module | models | proved about |
|---|---|---|
| `OrderLifecycle` | abstract: what the uncancelled buy flow promises of the two parties' stages | |
| `BuyFlow` | both nodes' side of one bid, from MPA_BID to MPA_RELEASE or MPA_REFUND, with the network between them | `BuyFlowProofs`, `BuyFlowRefinement` |
| `BuyFlowProofs` | type correctness, four safety invariants | |
| `BuyFlowRefinement` | that the uncancelled flow implements `OrderLifecycle`, and its agreement | |
| `MessageIntake` | one node's path from core's inbox to the message handler and back, with stops | `MessageIntakeProofs` |
| `MessageIntakeProofs` | types and five safety properties of the intake | |
| `Moderation` | one node's handling of one listing and the vote on its removal: proposal, votes, flags, removal, expiry | `ModerationProofs` |
| `ModerationProofs` | type correctness, four safety invariants, one action property | |
| `Images` | one node's rows and files of images, at the grain of the awaits that matter | `ImagesProofs` |
| `ImagesProofs` | types, rows and files, images that came first | |
| `Markets` | one node's boot, profiles, identities, wallets and markets, at the grain of calls to core and to the database | `MarketsProofs` |
| `MarketsProofs` | types, what stands behind identities and markets, what a boot leaves behind | |
| `Templates` | one seller's templates and the listings made from them, several clients at once | `TemplatesProofs` |
| `TemplatesProofs` | types, what is shown of a posted template, the tree | |
| `Categories` | one node's item categories, from the boot, from commands and from listings at once | `CategoriesProofs` |
| `CategoriesProofs` | types, where listings are filed, that they are stored | |
| `MCBuyFlow`, `MCMessageIntake`, `MCModeration`, `MCImages`, `MCMarkets`, `MCTemplates`, `MCCategories` | the instances TLC checks | |

### BuyFlow

Grain: one action is what one node does between two points where the *other
node, the network, or another task of the same node that matters* can get in.
`processMessage()` of one message is one step; a command is two, because a
received message may be processed while `beforePost()` talks to core.

| variable | in the code |
|---|---|
| `inbox[m]` | where an smsg is: not sent, on its way, or the `status` of its INCOMING `SmsgMessage` row at the receiver |
| `rows[n]` | the `Bid` of type MPA_BID and its `ChildBids` in n's table `bids` |
| `item[n]`, `order[n]` | `OrderItem.status`, `Order.status` in n's database |
| `reserved[n]` | the outputs omp-lib locked with `lockUnspent` for n's bid or acceptance, unlocked by `BidService.unlockBidOutputs` |
| `pending[n]` | commands between `validate()` and `sendMessage()` |
| `chain` | raw transactions handed to core by `beforePost()`, with the node that did |

| action | in the code |
|---|---|
| `Command` | `XCommand.validate/execute` and `BaseActionService.post()` up to `beforePost()` |
| `Post`, `PostFails`, `DiesAfterSend` | the rest of `post()`; `sendMessage()` throws; the process stops right after it |
| `Resend` | `SmsgResendCommand` |
| `Skip` | `CoreMessageProcessor` drops a known message |
| `BeginProcessing`, `Postpone`, `GiveUp` | `BaseActionMessageProcessor.process()` with a valid sequence; an invalid one before and after the expiry of the message |
| `OnEvent` | `onEvent()` of the processor of the message's type, including the second status check of MPA_SHIP |

Abstracted: one listing, one bid, one order item; the content of messages
(always valid here: content validation is in `MessageIntake`), message sizes
and fees, shipping addresses, web hooks. `findOneByHash()` returns the first
row, so a second `Bid` row for one MPA_BID gets an order that nothing
references. omp-lib and core are external: what they reserve and broadcast is
taken from how `OmpService` and the `beforePost()` methods use them.

### MessageIntake

Grain: every await between core and the handler's end is a step, because a stop
or another announcement may fall there. `core[m]` is the message in core's
inbox (unread, read, removed), `notices` the zmq announcements on their way,
`reading` the workers of `ZmqWorker` between `smsg()` and the look-up, `queue`
and `action` the two in-memory queues, `row` the status of the `SmsgMessage`,
`page` what `WaitingMessageService` has fetched. The handler itself is a counter
(`handled`); what it does is `BuyFlow`'s concern, and the two meet at
`InSequence`, which stands for `validateSequence()`. `LooksAgain` are the messages
whose handler looks once more (MPA_SHIP): it may return WAITING
(`LookedTooEarly`), which is stored, and the message is taken up and looked at
again. Such a run has changed nothing and is not counted in `handled`. Which of
the two it is is left open, as the order is not in this module. `Unheard` are the
messages of a type without a listener: their dispatch stores PROCESSING and throws
(`DispatchThrows`), as it does, with PARSING_FAILED, when the text cannot be parsed. A message's prerequisites
are a constant, so a chain of messages is given by the instance.

### Moderation

One listing (a hash, posted up to `MaxListings` times, each time a row of its
own) and one proposal to remove it. The queue of messages, one command of the
user and the observers are tasks of one node that interleave.

| variable | in the code |
|---|---|
| `posted`, `listed`, `lapsed` | rows made so far, rows in `listing_items`, those with `expired_at` behind them |
| `removed` | `ListingItem.removed`: the user does not see it |
| `related[r]` | Bids, FavoriteItems and ShoppingCartItems of the listing; "order" for an OrderItem of one of its bids |
| `flagged` | the listings with a `FlaggedItem` of the proposal |
| `proposal`, `ended`, `verdict` | the `Proposal` row and its `finalResultId`; `expiredAt` has passed; what the final result says |
| `votes[v]` | the `Vote` rows of voter v, option and weight |
| `balance[v]` | what core answers to `getaddressbalance` |
| `incoming`, `outgoing` | a `VoteActionService.processMessage()` between its look-up and the new or updated row, started by the queue or by `post()`; `incoming` also a listing's or a proposal's `processMessage()` between the row and the flag |
| `command` | a running `vote()`, with the FlaggedItems it read, or a `ListingItemFlagCommand` between the proposal's row and the flag |
| `bidding` | listings with a `BidActionService.processMessage()` between `bidService.create()` and `orderService.create()` |
| `removing`, `doomed` | flagged items the observer still has to look at; listings between the look and the deletion in `destroy()` |
| `torn`, `spoiled` | history: a stop came between a row and its flag; listings whose removal failed |
| `cast` | the votes the user's commands have sent (they come back by smsg) |

| action | in the code |
|---|---|
| `ListingItemAdd`, `FlagListing` | `processMessage()` of a listing up to its row, and `createFlaggedItemIfNeeded()` |
| `ProposalAdd`, `FlagProposed` | `processMessage()` of a proposal up to its row, and `createFlaggedItemsForProposal()` |
| `CreateBid`, `CreateOrder`, `OrderFails` | the two inserts of `BidActionService.processMessage()`, and its throw between them |
| `ReceiveVote`, `FinishIncoming` | `onEvent()` of MPA_VOTE; `PostVote`, `FinishOutgoing`: the same by `post()` |
| `VotePost`, `ListingItemFlag`, `FlagAndVote`, `PostFails`, `SetRemovedFlags` | the two commands and the end of `vote()` |
| `Recalculate`, `Finalise`, `Judge`, `JudgeFails` | `ProposalResultRecalcService`; a failure is caught with any part of the removal done |
| `ExpireListing`, `Delete`, `DeleteFails`, `ExpireProposal` | the two expiry observers and the second half of `destroy()` |
| `Attach`, `Detach` | the favorite and cart commands, as far as the listing is concerned |

Grain: the look for an earlier vote and its row are two steps, and so are
`destroy()`'s look and its deletion, a listing's or a proposal's row and its
flag, a bid's row and its order item, because other tasks or a stop get in there
and leave something behind. The look of the second step and its insert are one:
where a listing or proposal goes in between, the foreign key refuses the insert,
as if the look had come later. A listing that was flagged from both sides at once
has two FlaggedItems, which count as one here. The rest
of a vote's `processMessage()`, from its row to the removed flags, and
`addBlacklistAndRemoveFlagged()` up to `destroy()` are one step each. The node's
own votes come back at any time after they were sent. Foreign keys are part of
the actions: a FlaggedItem goes with its listing and holds its proposal; an
order item holds its bid and so the listing.

Left out: market votes (what their end destroys is in `Markets`) and public
votes, a second proposal for the same listing
(possible for a second copy that was never flagged), and results other than the
last: they are written and only read again by the user interface.

### Images, Markets, Templates, Categories

These four are of one node, and what they share is their form. An operation of
the code is a program: a sequence of steps in `work[a]`, made when its
`validate()` has passed and extended by the steps that find out more (`RefreshImage`,
`OpenWallet`, `InsertMarket`). A step is what happens at one row, file or call
to core, between two awaits; `Proceed(a)` takes the next step of actor `a`. A
step that does not find what it needs throws and ends its program, as an
exception does, with whatever it has done so far. `Crash` empties `work`.
Messages are one actor (the `actionQueue` has concurrency one), clients and
observers are one each.

| `Images` | in the code |
|---|---|
| `images[i]`, `datas`, `files[h][v]` | rows of `images` and `image_datas`; the file `<hash>-<version>` in the images directory |
| `images[i].target`, `.owner` | `Image.target`, the hash of the listing or market the message was for; `item_information_id`, resolved to the listing or the template |
| `posts[p]` | rows of `listing_items` and `markets`; `image` is `Market.image_id` |
| `ReceivePost`, `ReceiveImage` | `processMessage()` of the add messages and of the image messages |
| `ImageAdd`, `ImageCompress`, `ImageRemove` | the commands of that name |
| `DestroyListing`, `DestroyMarket` | `destroy()` of the two services, called by the expiry observers and, for listings, by the vote |

`disturbed` is not in the code: it collects the hashes for which a race between
two programs, an exception or a stop has put rows and files at odds, and the
properties about files speak of the others. The steps that add to it name the
races (`Meets`, `Cascade`, `Threw`, `Crash`): a file written and counted before
its row is there, two programs that each count the other's row, rows that go by
cascade. What is left is every order of whole messages, and every overlap of
programs that does not meet at one file.

| `Markets` | in the code |
|---|---|
| `profiles`, `identities`, `markets`, `settings` | the tables; the settings `DEFAULT_PROFILE_ID`, `DEFAULT_MARKETPLACE_ID` |
| `wallets[w]`, `loaded`, `listening` | core's wallets with imported key paths and default account, those loaded, the market keys `smsgimportprivkey` was called for |
| `boot` | `ServerStartedListener`: polling, `bootstrap()` running, started, or thrown |
| `BeginBoot` .. `FinishBoot` | `bootstrap()` with `isUpgradingFromSingleMarketWallet()`, the two default services and `loadWalletsForProfile()` |
| `MarketAdd`, `MarketJoin`, `MarketRemove`, `MarketDefault`, `IdentityAdd`, `ProfileAdd`, `ProfileDefault`, `ProfileRemove` | the commands; the first four and the default's getter are served during the boot, too |
| `ReceiveMarketAdd`, `ExpireMarket` | a promoted market by message, and its end |
| `VotedOut` | the end of a vote on markets: the flagged rows go (`ProposalResultRecalcService`, line 153); one that nobody has joined goes as if expired |
| `SettingSet`, `SettingRemove` | the setting commands, as far as they change a default; a row that goes with the market it was set for is removed, one found behind it is set |
| `Fault` | core does not answer the call the step makes |

`owed` says that nothing has happened that may keep the boot from succeeding: no
call has failed, and no client has changed profiles or defaults under it.

| `Templates` | in the code |
|---|---|
| `templates[t]` | the row with its parent, market and hash, and what `create()` inserts after it (ItemInformation, PaymentInformation with ItemPrice and payment address) |
| `CreatePrice` | the end of `paymentinformation update`: a new price, with the payment address that the command names, if it names one |
| `content` | texts and prices, as far as the hash covers them: a counter of edits |
| `sent`, `arrived`, `listings` | listings sent, come back, and the rows with `listing_item_template_id` |
| `TemplateAdd`, `TemplateClone`, `TemplatePost`, `TemplateRemove` | the commands; `TemplatePost` with `estimateFee` ends without sending |
| `TemplateUpdate` | the commands that edit a part of a template (`iteminformation update`, `paymentinformation update` and their like), all behind `isModifiable()` |
| `ReceiveListing`, `FindTemplate`, `RelateListing` | `processMessage()` of the node's own listing |

`overlapped` are the templates that two commands were at in the same time: each
validated a copy and nothing in the code keeps them apart.

| `Categories` | in the code |
|---|---|
| `categories[c]` | rows of `item_categories` |
| `Named`, `KeyOf` | a name is the sequence of its parts between commas; `hash(path.toString())` is all the parts of all the names, so that paths have one key here when they have one in the code |
| `templates`, `listings` | `item_category_id` of their ItemInformation |
| `sent`, `fate` | listings sent to a market of the node, and what became of each message |
| `SeedDefaultCategories` | `seedDefaultCategories()`, one `insertOrUpdateCategory()` (`Upsert`) per default category |
| `CreateMarketCategories` | `createMarketCategoriesFromArray()`: `LookForRoot`, then `FindOrCreate` for each name |
| `InsertOrUpdate`, `UpdateRow`, `InsertRow` | `insertOrUpdate()`: the look-up, the update, and the creation when there is nothing or the update fails |
| `CategoryAdd`, `CategoryUpdate`, `CategoryRemove` with `EditRow`, `RemoveRow` | the commands |
| `TemplateAdd`, `ItemInformationUpdate`, `TemplatePost` | the commands, as far as a category is concerned |
| `ReceiveListing`, `CreateListing`, `CreateInformation` | `ListingItemAddValidator`, `processMessage()` and the two rows it makes |

`shaken` are the messages in whose processing another actor changed categories;
such a listing may fail (the property speaks of the others). `Levels` is how many
ancestors are loaded with a category (the code: four): from a deeper one the key
is made without ROOT. `moved` are the categories that a command updated, those
that are or were below them, and those below a second ROOT: a key is not made
again when a category above gets another parent or name, and it no longer tells
where the category is. `FiledAsSent` speaks of the others, and compares what
the code can compare: the names joined by commas. A storefront's validator lets
in any path ("anything goes"), and one that does not begin with ROOT fails;
`StoredUnlessShaken` says so.

Left out: images of several templates and of markets added by command; resizing
loops; which profile a template belongs to (one profile); publish keys
(a market is an open one here); mnemonics and passphrases; removing a
market in `Categories` (its categories outlive it).


## Runs

| run | question | result |
|---|---|---|
| `happy` | one uncancelled order with a resent MPA_LOCK, under fairness: do the two databases walk through `OrderLifecycle`, agree at rest, and are early messages taken up or given up in the end? | `TypeOK`, `Agreement`, `KeepsOrderLifecycle`, `EarlyMessageRecovered` hold |
| `races` | accept, reject, cancel, lock and refund in every order, and the buyer's node stops between sending and saving | `History`, `Handshake`, `EscrowBacked`, `ReservedUntilDead` hold |
| `intake_crash` | announcements late, twice or never, failing calls, a type nobody listens for, one stop: at most one handling, no loss? | `TypeOK`, `HandledOnce`, `NeverLost`, `StatusTellsHandling`, `Attended`, `FateIsFinal` hold |
| `intake_calm` | a page of one, a message that waits in vain and one sent back by its handler, one stop, under fairness | `WaitingIsTakenUp`, `DowntimeRecovered` hold |
| `votes` | an own and another address vote by command and by message, with changing balances and a favorite | `TypeOK`, `OthersVoteOnce`, `HiddenByOwnVote` hold |
| `removal` | two copies of a listing, bids and orders at any moment, expiry, the end of the vote, failing removals, one stop, under fairness | `FlagsRefer`, `FlaggedIfKnown`, `BidsKeepListing`, `ProposalDecided`, `VerdictCarriedOut` hold |
| `bids_spare` | does a vote leave a listing with bids alone, as the code's comment says? | violated: finding |
| `images` | a listing, a market and their image in every order while the user edits, expiry destroys and the node stops once: do rows and files agree, and is what came first shown, once? | `TypeOK`, `DataReadable`, `NoFileLeft`, `EarlyImagesShown` hold |
| `markets` | a new and an old installation, commands during and after the boot, one stop, failing call, vote or change of the settings anywhere, under fairness of the boot | `TypeOK`, `IdentityUsable`, `MarketOfIdentity`, `StaysSeeded`, `BootReady`, `OwedStarts` hold |
| `templates` | two clients add, clone, edit, post and remove; listings come back at any time; one stop or failing call | `TypeOK`, `ShownAsPosted`, `FamilyTree` hold |
| `categories` | seeding, additions of markets, listings of a market and of a storefront, with names that share a key or lack ROOT, and the seller's commands overlap; one stop | `TypeOK`, `FiledAsSent`, `StoredUnlessShaken` hold |
| `versions` | is a new version refused while an earlier one can still be edited, as the code's comment says? | violated: finding |

Every property of a passing run has a mutant next to the definition it changes
(`Mutant:` in its comment): a plausible bug under which the run finds the
property violated.

### Bounds, and why they are enough

* Two nodes and one bid: the protocol is between one buyer and one seller, and
  commands and handlers of different bids touch different rows.
* `MaxRepeats`: how often a node sends a message of one kind. Handlers look at
  the *existence* of a row of a kind and at two statuses; a second message of a
  kind already shows every overwriting there is, a third adds no new row kind.
  The runs keep it at one and let all kinds cross; the proofs cover any number.
* `MaxResends`, `Resendable`: one resent copy of one kind at a time; copies
  meet the duplicate check and then the same handler as the original.
* `MaxMessages`: total number of messages. Six are
  enough for the whole chain, or for a shorter one with cancellation, refund or
  rejection beside it.
* `Mortal`: the nodes that may stop, the buyer in `races`, both in the proofs.
* `RejectedEarly`: in `races`, once a rejection has begun, the order goes no further
  than the lock; what can happen later to a bid that is not rejected is the rest
  of the run, and a rejection adds its one row to it.
* In `MessageIntake` three messages (one, one that depends on it, a copy or a
  hopeless one), two workers, a page of one (the code: five workers, a page of
  ten): one worker more than needed for two tasks to meet, and one waiting
  message more than the page holds. In `intake_crash` the
  third message is a refused copy or, without a stop, one that nobody listens for
  (`UnknownAlone`). One stop: the second would meet the same
  states with fewer messages. `handled` is in `Nat`, bounded by what can happen.
* The proofs have no bound at all; see below.
* In `Moderation` one own and one other address: votes of different voters meet
  in the sum only, and with weights 0 and 1 either side can win and lose.
  `votes` has one copy of the listing and all the votes, `removal` two copies
  and one voter: flags, verdict and deletion do not depend on who voted.
  Favorites are in `votes` and bids in `removal`: what a verdict spares for a
  favorite is as in the case that nothing is removed. One
  stop loses whatever is in memory once; `Spender` are the addresses whose
  balance changes.
* `Images`: three rows are a listing, its image and one of: a second image of the
  same hash, the listing again, a market. Everything that is counted or shared
  is so per hash and version, so one hash and one scaled version (the code: three,
  made by the same loop) show every meeting at a file. `SomeUndisturbed` prunes
  states in which every hash is disturbed: no property says anything there.
* `Markets`: two profiles and three markets are the default ones and another of
  each; a client is enough to meet the boot. `MaxMishaps` counts stops, failing calls, markets
  voted out and changes of the settings together: one may come between any two steps. `OneOfBoth` leaves out that a node
  with a mishap gets a second profile: profiles meet in the setting and in the
  names of wallets, which the runs without a mishap show.
* `Templates`: three templates are a base, its market template and a version.
  `AloneOrFew` keeps products of rare things apart: two listings come from at
  most two templates; while two commands overlap there are at most two templates,
  one listing and no mishap. Clients are interchangeable (no property names one,
  and the run has no liveness), so they are symmetric.
* `Categories`: two default categories (ROOT and one below, whose name has a
  comma), one market of each kind, one part for names, and `Levels = 1` (the code:
  four), so that a category three deep is already too deep. Others' listings come
  with two names whose key is that of the default category, and with one name
  without ROOT whose key can be that of a category that was too deep. `FewThings` bounds the sum of rows, listings, templates,
  updates and stops rather than each, and lets two of the three actors overlap.


`CHECK_DEADLOCK FALSE` is set because an order is really over at some point and
users owe no further command.

### Fairness

`BuyFlow!FairSpec`: weak fairness for each message that is being processed or
waiting. It is what a running node does by itself: the event loop runs the
promise of `onEvent()` to its end, `WaitingMessageService` loops every five
seconds, and every message has an expiration that passes. Users and the network
owe nothing, so no liveness property says that a command is issued or that a
message arrives. `MessageIntake!FairSpec`: weak fairness for the worker's read
and look-up, for the task at the head of each queue, for the observer, for the
passing of pauses and expirations, and for the restart of a stopped node (which
its operator does, and without which the node has no future). Not for arrivals,
scans or stops. `Moderation!FairSpec`: weak fairness for the final result of a
proposal that has ended, for each flag the observer has still to look at and for
the second half of `destroy()`, each of which comes to an end, if only by failing:
the observers loop on timers and await each call.
Not for messages, commands, time or stops. `Markets!FairSpec`: weak fairness for
the boot alone: `ServerStartedListener` polls on a timer until core is there,
and its promise runs on. Its clients owe nothing, and core and the process may
fail it.

## Proofs

`BuyFlowProofs` proves, for every value of the constants that
`BuyFlowAssumption` allows (any set of commands, any bound, either node
stopping):

| theorem | statement |
|---|---|
| `TypeCorrect` | `Spec => []TypeOK` |
| `Invariance` | `Spec => []IInv` |
| `HistoryHolds` | `Spec => []History`: a node's child Bids have no gap |
| `HandshakeHolds` | `Spec => []Handshake`: a row at either node proves that its sender had the step before |
| `EscrowBackedHolds` | `Spec => []EscrowBacked`: no escrow status without its transaction |
| `ReservedHolds` | `Spec => []ReservedUntilDead`: outputs stay locked until the node has a cancellation or a rejection |

None of the safety invariants is inductive: `EscrowBacked` speaks of statuses,
but the transaction was broadcast by another node several messages ago. `IInv`
adds what connects them: every status marks a row (`ItemRests`), every row was
sent (`RowsSent`), every sent message rests on its sender's rows and
transactions (`SentRests`), so does every command under way (`PendingRests`),
and a message in process is at a node whose rows it needs (`ProcessingRests`:
the validator's look is still true when the handler runs, since rows are only
ever added). `Grows` says that rows, transactions and sent messages only become
more, so a step answers only for what it adds. `RInv` adds to `ReservedUntilDead`
that the outputs of a command under way are reserved, too.

`MessageIntakeProofs` proves, for any set of messages with any
prerequisites and copies, any number of workers, notices and stops:

| theorem | statement |
|---|---|
| `Invariance` | `Spec => []IInv` |
| `HandledOnceHolds` | `Spec => []HandledOnce`: a handler does its work at most once for each message |
| `NeverLostHolds` | `Spec => []NeverLost`: core's copy goes only when the node has a row |
| `StatusTellsHandlingHolds` | `Spec => []StatusTellsHandling`: what is processed was handled, and nothing was done for what is new, refused or waits |
| `AttendedHolds` | `Spec => []Attended`: what is shown as being processed is in the queue and awaited, unless nobody listens for it |
| `FateIsFinalHolds` | `Spec => FateIsFinal`: a status that says what became of a message stays |
| `TypeCorrect` | `Spec => []TypeOK`, with the bounds on announcements and workers |

`HandledOnce` counts, and a count says nothing of what may still happen to a
message. `IInv` adds that the two in-memory structures that can lead to the
handler are disjoint from what was handled: the `actionQueue` holds a message at
most once, with status PROCESSING and not handled unless it is the head whose
handler has returned (`ActionRests`); nothing was done for a row that can still be
dispatched (none, NEW, WAITING: part of `StatusTellsHandling`); the task in work has a row
that is NEW until it starts (`TaskRests`); only WAITING rows are due
(`DueRests`). The lemmas on sequences without repetition say what appending and
taking the head does to them.

`TypeOK` rests on more than types (`TInv`). A new message is announced for the
first time because everything announced, read, queued or stored has been received
(`Reached`). A worker can read once more because the messages being read are a
finite set as large as the workers that are busy (`FewerThanBusy`: an injection
into `Readings`). The `Tail(page)` of a returning task exists because somebody
awaits every message in the `actionQueue`, and it is the page when it is not the
queue (`Awaited`). And the page that is fetched is a sequence because messages that
wait were received one after the other: counting the newer ones ranks them
without gaps (`Ranks`, `EveryRank`).

`ModerationProofs` proves, for any addresses, balances, margin, number of copies of
the listing, things attached to them and stops:

| theorem | statement |
|---|---|
| `TypeCorrect` | `Spec => []TypeOK` |
| `Invariance` | `Spec => []IInv` |
| `KnownIsFlagged` | `Spec => []FlaggedIfKnown`: a listing posted once is flagged, but for a stop between a row and its flag |
| `FlagsAreBound` | `Spec => []FlagsRefer`: no flag without its listing and its proposal |
| `OneVoteOfOthers` | `Spec => []OthersVoteOnce`: the look-up does the work of a unique key |
| `OnlyOwnVoteHides` | `Spec => []HiddenByOwnVote` |
| `BidsAreKept` | `Spec => BidsKeepListing`: a listing that was ordered outlives every `destroy()` |

`OthersVoteOnce` speaks of rows, but whether the next vote makes another row was
decided a step earlier: `LookUpHolds` says that what the message in process has
looked up about somebody else's address is still so, because the only other task
that makes rows, the user's command, votes with own addresses. `HiddenByOwnVote`
needs the way of an own vote from the command over the message to the row
(`VotesCast`): each vote under way was cast, and a command with nobody left to
vote has cast one. `RemovingWhenFinal` keeps the observer that takes flags away
apart from the proposals that are still open, for `FlaggedIfKnown`; and
`FlaggingKnown` says that the proposal a flag is being made for has not expired
and that a listing waiting for its flag has been posted, so that the later of the
two looks finds the earlier of the two rows.

`BuyFlowRefinement` proves, for every escrow type and every number of messages
and resends that the constants allow, under the hypothesis `Uncancelled`:

| theorem | statement |
|---|---|
| `LifecycleInvariance` | `Uncancelled => (Spec => []LInv)` |
| `ImplementsOrderLifecycle` | `Uncancelled => (Spec => KeepsOrderLifecycle)`: `OrderLifecycle!Spec` with each node's stage for `stage` |
| `AgreementHolds` | `Uncancelled => (Spec => []Agreement)`: with nothing under way both show the same statuses |

`Uncancelled` is a restriction of the constants, and the instance of the run `happy`
satisfies it, where TLC checks both properties. Each of its clauses is needed,
as the code overwrites statuses without looking: only the six kinds from
MPA_BID to MPA_RELEASE (a cancellation is the other flow); one message of each
kind (a second MPA_ACCEPT takes a paid order back); copies of an MPA_BID, MPA_LOCK,
MPA_SHIP or MPA_RELEASE only (a late copy of the other two does the same); no stop between
`sendMessage()` and `save()` (the peer may then be a step ahead of its own
sender). Stops are in the runs, and the theorems of `BuyFlowProofs` hold with them.
`LInv` says that what was sent or is about to be is of that flow and that copies
follow their originals, that a sender has its row, that a processed message
has its row at the receiver (a shipment overtaken by its release excepted), and
that rows, OrderItem and Order of a node tell of the same stage (`StagesFit`). The
validators' look at child Bids then puts the two stages where the abstract step
wants them (`Fits`).

`MarketsProofs` proves, for any installation, profiles, markets, clients,
failing calls and stops:

| theorem | statement |
|---|---|
| `TypeCorrect` | `Spec => []TypeOK` |
| `Invariance` | `Spec => []IInv` |
| `IdentitiesUsable` | `Spec => []IdentityUsable`: an identity's wallet has its key and account |
| `MarketsOfIdentities` | `Spec => []MarketOfIdentity` |
| `SeededForOneClient` | `OneClient => (Spec => StaysSeeded)`: nothing but a vote or a setting command takes the default market or its identity away |
| `BootInvariance` | `OneClient => (Spec => [](Owing /\ Listening))` |
| `BootReadyForOneClient` | `OneClient => (Spec => BootReady)`: a boot that succeeds undisturbed leaves the default profile ready for work |

No step here is a transaction with the next, and a step writes a row because
its program has made the wallet, imported the key and derived the account
before. So `IInv` looks into the programs: each step needs and gives facts, and a
fact that a step of a program in `work` needs is there already or given by an
earlier step of that program (`Programs`). The facts are such that other actors
do not take them away. `MasterKeys` says the same of profile wallets, whose
account and key come in one call. `Adding` keeps ids apart: no two programs are about
to add a profile.

`StaysSeeded` looks at one step, but whether a step may take the default market away is
decided when a command is validated, a step or more before. `Seeded` therefore speaks of
programs, too: nobody is about to remove the default market or to choose one that is not
there. `SInv` adds what holds of all programs: one that destroys a market is a client's
and has no other step, and only the boot's program chooses the default profile.
`OneClient` says that all clients are one, who waits for the end of a command before
the next; the run `markets` has one. The hypothesis is needed: one client may make a
market the default while another, whose command was validated before, is about to
destroy it. TLC shows that with two clients and no mishaps (Findings).

`BootReady` looks at the last step of a boot and speaks of what twenty steps before it
have done. `Owing` says what a boot that is still `owed` has done or has still to do.
Before it begins, no client is at work and no default market is set (`Fresh`). From
then on it is in one of two cases. Either it is `Seeding` a profile: the last step of
its program, and no other, looks for the default market, inserts it or sets it, and
the setting of the profile and its identity are there or a step of the program makes
them. Or it is `Keeping` what is there (`Seeded`) and has nothing left but to load
wallets and to look. A command takes the first kind of boot out of
`owed`, so there the clients are idle; in the second they may do anything, and
`SeededStays` says it does no harm. In both the wallets of the profile are loaded or
the step that loads them is still to come (`Loads`); a wallet of an identity inserted
meanwhile is loaded, which is why the fact that backs the step `identity` speaks of loaded wallets.
With no program left only `Keeping` is possible. `Listening` is about the
address: while nothing has gone wrong, each market that a profile has joined is
listened to, or its `join` is the next step of some actor. A client sets a
default market only when nobody is at such a step, and the boot only after its own
join. With two clients TLC refutes `BootReady`: one makes a market the default that the
other has inserted and not yet joined.

`TemplatesProofs` proves, for any markets, any set of clients and every bound:

| theorem | statement |
|---|---|
| `TypeCorrect` | `Spec => []TypeOK` |
| `Invariance` | `Spec => []IInv` |
| `ShownAsPostedHolds` | `Spec => []ShownAsPosted`: a listing that refers to a template is what the template shows |
| `FamilyTreeHolds` | `Spec => []FamilyTree` |

A command checks `isModifiable()` at one await and writes at another, and a listing
finds its template at one await and is related at another. `Frozen` therefore
says of each template that is not overlapped, beside the row itself, what the
programs at it carry: an edit under way is of a template without a hash, what is
being sent has the hash of the row, and a relation under way is to the template
of that hash. This is kept because one client at most is at such a template
(`Exclusive`), and because ids that are about to be used are nobody's (`Fresh`).
`Family` says of rows, and of rows about to be inserted, that a version is below a
market template of its market and that below a base, and `OneEach` that a clone
under way is the only one of its market; a removal takes the whole line below
a template, so no parent goes before its children. An unused payment address
exists as the used ones are finitely many.

`CategoriesProofs` proves, for any markets, names, default categories in an order
of seeding, number of loaded ancestors and every bound:

| theorem | statement |
|---|---|
| `TypeCorrect` | `Spec => []TypeOK`: parents and what is referred to are there |
| `Invariance` | `Spec => []IInv` |
| `FiledAsSentHolds` | `Spec => []FiledAsSent`: a listing is in a category of its market whose names, joined, are those it was sent with |
| `StoredUnlessShakenHolds` | `Spec => []StoredUnlessShaken` |

`IInv` has two halves. The first is of the tree: `Whole` joins the names from the
top down to each category that was not moved, and the key of such a category is
all of that or, if it is so deep that the key was made without ROOT, the end of
it (`Keyed`); what is below a moved category is moved (`MovedBelow`). Joining
forgets where one name ends, so nothing is said of the path a key was made from;
what `getArray()` reads going up is, joined, an end of `Whole` (`LineWhole`), two
ends of one length are the same, and ROOT is nowhere but at the top
(`FiledByKey`); and the key made for a new category fits (`AddFits`). The second is
of the programs: what a program has found is the line of categories down the
names it has done, by their keys, as far as they are still there and not moved (`Line`), and its
next steps go on from there (`Thread`). That outlasts the steps of others, as none
of them gives a category that is not moved another key or market (`Kept`). While a
message is not shaken and begins with ROOT all of the line is there and a row about to be inserted
has no rival (`Firm`), so no step of its program can throw.

`getArray()` is a recursive function over the number of ancestors. Induction over it
is not available to the provers, but a least counterexample is: the
set of numbers for which the claim fails has a least one (`Least`), and one step
of the recursion contradicts it.

The first attempt at this proof failed for a good reason. `FiledAsSent` had
excused only what an update touched and what is below that now. A category added
below an updated one gets its key from the names it is below then. In trees deeper
than those of the run, the next boot's seeding (`insertOrUpdate()`, which finds
a market's row by its key) can put a category between the two below the default
ROOT; what was added is then below no updated category any more, and its key
still tells of where it was. So a listing sent by that key is filed elsewhere. TLC
showed it from a state made up for this. `moved` remembers what was below an
updated category at any time.

`ImagesProofs` proves, for any hashes, scaled versions, listings and markets with
any images announced, observers and every bound:

| theorem | statement |
|---|---|
| `TypeCorrect` | `Spec => []TypeOK` |
| `Invariance` | `Spec => []IInv` |
| `Readable` | `Spec => []DataReadable`: a row that names a file finds it |
| `NothingLeft` | `Spec => []NoFileLeft`: a file goes with its last row |
| `EarlyImages` | `Spec => []EarlyImagesShown` |

The properties are of hashes that are settled, the proof has to be of programs that
are half done. `Programs` says what a program looks like wherever it is: a file is
written just before its row is saved, and removed just before the row goes or the file
is written again (`Paired`); operations that are steps only when they are reached
(load, refresh, resize) come last and are replaced by pieces that fit (`Ordered`,
`Grown`, `Sound`); an original that goes is followed by a new one or by the end of
its image (`Fulfilled`). `OneRow` says that an image has one row for a version and that
who inserts one is alone in that. On these stands `FileOK`: of an undisturbed hash
every row has its file or its actor is just replacing it, every file has a row or
its actor is just saving it, and of two rows about to be deleted there is one at
most, so the count in `removeImageFile()` is still right when the row goes. For
`EarlyImagesShown`, `Linking` says of the message in process what it has still
to link, `Early` of each image before its post that it is linked, about to be, or
linked to a newer posting of the same listing, and `Claims` that a post has one
image for a hash, of those it has and those on their way.

The steps of one program are sequences put together by `FlattenSeq` over sets of
rows in the order of ids. What a set put in order looks like is proved from the least
of a set of numbers (`Least`, `InOrderLists`), and that joined pieces keep their form
by a least counterexample (`FlattenNeat`).

The first attempt found two things the model had not said. A market has one image
(`MarketAddMessage.image` is one `ContentReference`); with two of them
`EarlyImagesShown` is false, as `setImage()` keeps the last one. And the sets of
images and versions are finite. `ImagesAssumption` says both now.

Only model-checked: liveness, which is beyond the prover (`EarlyMessageRecovered`, `WaitingIsTakenUp`, `DowntimeRecovered`,
`ProposalDecided`, `VerdictCarriedOut`, `OwedStarts`); flows that cancel, repeat or stop
as far as `Agreement` and `KeepsOrderLifecycle` go, where they do not hold; and
`StaysSeeded` and `BootReady` with two clients, where they do not hold either.

## Findings

`PROJECT.json` lists the disagreements between the code and its own comments
that a run shows. Further things the models show, for which no run is kept (most
of them nothing in the repository denies):

* A bid can be cancelled at any moment before the completion, also after it was
  accepted and paid (`BidCancelCommand` looks for an MPA_COMPLETE only).
* A seller can accept the same bid again; the second MPA_ACCEPT takes a paid
  order back to AWAITING_ESCROW at both nodes.
* An MPA_SHIP that reaches a buyer who has released fails once it expires: its
  validator asks for the status ESCROW_COMPLETED, and so the branch of its
  processor for completed orders is reached only when the release slips in
  between the two checks.
* When `sendMessage()` fails after `beforePost()`, the transaction is on the
  chain and neither database knows; the command can be given again.
* A node that stops with a message in its `actionQueue` leaves the row at
  PROCESSING, and one whose removal from core fails leaves it at NEW; nothing
  takes either up again.
* Messages overtaken by a stored one before a stop are not asked for at the
  next boot; a failing `bootstrap()` is not tried again; a zmq reconnect without
  a restart asks for nothing.
* The priorities of the `actionQueue` never decide anything: only two callers
  use it and each awaits its own message.
* The node's own vote can get two rows: `post()` and the returned message may
  both look for a row before either makes one (`votes` has no unique key), and
  both count. `OthersVoteOnce` is therefore about other voters; a second vote of
  an address replaces the first in the order of processing, not of sending.
* `recalculateProposalResult()` stores the current balances but sums the weights
  it read before; the final result may be one recalculation behind.
* A stop between the final result and the removal of the flagged items leaves
  the verdict undone: only proposals without a final result are looked at.
* A blacklisted listing that is posted again is accepted; the incoming check of
  the blacklist compares recipients, not hashes. Of several copies of a hash
  only the first is flagged by a proposal that comes later.
* A stop between the row of a listing or a proposal and the FlaggedItem
  (`ListingItemAddActionService`, lines 148 to 158; `ProposalAddActionService`,
  lines 136 to 139) leaves the listing without its flag for ever: the vote goes on
  and cannot remove it. A failure while a flagged listing is removed
  (`ProposalResultRecalcService`, line 160) leaves the removal undone for ever.
* A message of a type without a listener, or whose text cannot be parsed at its
  dispatch, keeps the status PROCESSING or PARSING_FAILED and is never handled
  (`MarketplaceMessageProcessor`, lines 113 to 119 and 223), although PROCESSING
  is "currently being processed" (`SmsgMessageStatus.ts:17`).
* An MPA_SHIP whose handler returns WAITING (`OrderItemShipActionMessageProcessor`,
  line 102) comes back as long as it does so, however long its expiration has
  passed: only a wrong sequence is looked at for that (`BaseActionMessageProcessor`,
  line 96), and enough of them fill the page of `WaitingMessageService` for ever.
* A Bid is there before its Order (`BidActionService`, lines 187 and 213), and for
  good without one when the addresses do not match (line 199): such a bid goes
  with its listing where only an order item would have kept it.
* `destroy()` does not see shopping cart items (`ListingItem.RELATIONS` leaves
  them out), so an expired listing is taken out of the carts it is in although
  the comment at `ListingItemService.ts:315` says it stays; and its images are gone before the
  database refuses to delete a listing that got a bid meanwhile.
* A vote command reads its FlaggedItems before it votes; when the first of them
  is gone afterwards, the removed flags of the rest are not set.
* A copy of an MPA_COMPLETE that is resent while the buyer's MPA_SHIP is on its
  way takes OrderItem and Order back from SHIPPING: `EscrowCompleteActionService`
  (line 147) overwrites where `EscrowLockActionService` (line 157) looks first.
* A release waits for the shipment at the seller (`EscrowReleaseValidator`, line
  44) though the command (`EscrowReleaseCommand`, line 112) takes it for optional;
  a refund broadcasts the completing transaction (`OmpService`, line 143).
* An original and its resent copy both get a row of `SmsgMessage` when both are
  announced before either is stored; the second fails where its handler refuses.
* An image that comes *after* its listing fills no placeholder: the placeholder has
  no target (`ItemInformationFactory`, line 142), the look-up is by target, and so
  the listing shows an image without data and the data belongs to nobody.
* `removeImageFile()` counts rows at one await and deletes its own at another:
  two images of one hash that go at once leave the file, and one that comes while
  another goes loses it. Rows that go by foreign key leave their files, a market
  that is destroyed leaves its image, and a stop in a refresh leaves an image
  without data.
* A stop or a failure of core between `createwallet` and `extkeygenesisimport`, or
  between an identity's row and the settings, makes every later `bootstrap()`
  throw, and a thrown one counts as started.
* Removing the default profile does the same: the setting keeps its id.
* "Default Market cannot be removed." (`MarketRemoveCommand`, line 75) is
  looked at in `validate()` only: a market that the boot or another client's
  `MarketDefaultCommand` makes the default one between that and `execute()` (line
  55) is destroyed. With one client and no boot this cannot be: `StaysSeeded`.
  The end of a vote asks nobody (`ProposalResultRecalcService`, line 153): it destroys
  the default market like any other, and the setting commands replace or remove a
  default without a look at what it names. These are the exceptions `StaysSeeded` states.
* The checks for an already joined market and for a duplicate unjoined one throw
  inside the promise whose `catch` returns the good answer (`MarketJoinCommand`,
  lines 150 to 156; `MarketAddCommand`, lines 187 to 193).
* A listing that comes back before `updateHash()` has stored its hash never gets
  its template, and bids on it throw at the seller (`BidActionService`, line 158).
* The price of a template whose update failed half way cannot be set again, as
  the update begins by destroying the one that is gone. Removing a base whose
  version has a listing deletes the images of the base before the database
  refuses.
* `insertOrUpdate()` without a market looks for the key in every market. When a
  market's ROOT is made before the first seeding (a market added while the first
  boot runs or after it failed), the seeding takes that row for its own: there is
  no default ROOT, which `ItemCategoryService` (line 96) says "should NEVER
  happen", and the default categories hang below a market's. Removing that ROOT,
  which is no default category and so may be removed, takes all of them along.
* The key is a hash of the names joined by commas, and two default names have
  commas ("High Value (10,000$+)" and "End of life, Estate ...",
  `DefaultItemCategoryService`, lines 37 and 118). Names cut elsewhere have the same
  key: a listing sent with them is filed under the names that were there first, and
  seeding, which looks in every market, may take such a market's category for
  its own and rename it.
* `ListingItemAddValidator` (line 92) lets any path into a storefront. One that does
  not begin with ROOT has no parent to make its first category under
  (`ItemCategoryService`, line 183; `ItemCategoryFactory`, line 33) and fails, unless a
  category happens to have that key.
* A category with more ancestors than are loaded gets a key without ROOT; it can
  be added and filed under, and a template in it cannot be posted.
* An update may put a category below itself or below one of another market
  (`ItemCategoryUpdateCommand` looks at the market of the category only).

## Not modelled

* **Comments, favourites, addresses, notifications, other settings, searches**: one
  call, one record, no protocol between records; what matters of favourites and carts
  is in `Moderation`, the settings that name defaults are in `Markets`.
* **Market promotions sent and markets flagged**: sent like the messages of
  `Moderation` and received as in `Markets`; the votes on a market would repeat
  those on a listing, and what their end removes is in `Markets`.
* **Servers, controllers, RPC and CLI, models and repositories**: transport and
  mapping; their only state is what the variables stand for. The guard of
  `RpcMiddleware` during the boot is in `Markets`.
* **Core itself, omp-lib, the network**: external; taken from how the code calls
  them.
* **Test data, generated documentation, front-end libraries**: not part of the
  node's behaviour. They are most of the repository's lines: the map covers the
  services, commands and validators in which state changes, and few others.
* **One order at the grain of awaits**: OrderItem and Order are updated in one step
  in `BuyFlow`; a command between the two would need every handler split.


## Plan

Done in this order, the most important behaviour first: `OrderLifecycle` and
`BuyFlow`, `BuyFlowProofs`, `MessageIntake`, `Moderation`, `Images`, `Markets`,
`Templates`, `MessageIntakeProofs`, `Categories`, `ModerationProofs`,
`BuyFlowRefinement`, `MarketsProofs`, `TemplatesProofs`, `CategoriesProofs`,
`ImagesProofs`. What is left, in order:

1. **`Moderation`**, wider: proposals for markets and several proposals for one
   target, each with its own flags, and `ModerationProofs` with it.
2. **`BuyerNode`** (one node at the grain of its awaits): `processMessage()` of
   the escrow messages with OrderItem and Order in separate steps, commands and
   `SmsgResend` in between; shown to implement one node of `BuyFlow` or where not.
3. An abstract `Attachments` (an owner in the end has all of its images that
   came) for `Images`, with the refinement shown by TLC.

Bounds stay as small as now. The twelve runs are kept few enough to be repeated
in minutes, so a new run takes the place of one whose properties were proved.
