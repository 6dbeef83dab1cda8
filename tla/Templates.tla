------------------------------- MODULE Templates -------------------------------
(***************************************************************************)
(* The listing templates of one seller and the listings made from them.  A *)
(* base template has a market template for each market, and a market       *)
(* template has later versions.  Posting sends a listing, stores its hash  *)
(* in the template, which freezes it, and then waits for the listing to    *)
(* come back as a message like everybody else's: only then it gets a row,  *)
(* which finds its template by the hash.  Commands are programs of steps,  *)
(* the awaits of the code, and several clients may have one running; the   *)
(* node may stop between any two steps, and core may not answer.           *)
(***************************************************************************)
EXTENDS Naturals, Sequences, FiniteSets, FiniteSetsExt

CONSTANTS
  Market,       \* receive addresses of the markets that the profile has joined
  Clients,      \* who sends commands, one at a time each
  MaxTemplates, \* bound: how many templates get a row
  MaxBases,     \* bound: how many base templates there are at a time
  MaxEdits,     \* bound: how often a template is edited
  MaxPosts,     \* bound: how many listings are sent
  MaxMishaps    \* bound: how often the node stops or core does not answer

ASSUME TemplatesAssumption ==
  /\ Market # {} /\ {"none", "inbox"} \cap (Market \cup Clients) = {} /\ IsFiniteSet(Clients)
  /\ MaxTemplates \in Nat /\ MaxBases \in Nat /\ MaxEdits \in Nat /\ MaxPosts \in Nat
  /\ MaxMishaps \in Nat

Actor == {"inbox"} \cup Clients
Id == 1 .. MaxTemplates
None == 0
Base == "none"  \* the market of a base template

VARIABLES
  templates,  \* templates[t]: the row with id t and what belongs to it
  last,       \* the last id given to a template
  sent,       \* the hashes of the listings sent, in the order of sending
  arrived,    \* the numbers of those that have come back
  listings,   \* listings[n]: the template that the row of listing n refers to
  work,       \* work[a]: the template that actor a is at, and its steps
  overlapped, \* templates that two commands were at in the same time
  mishaps

rows == <<templates, listings>>
vars == <<rows, last, sent, arrived, work, overlapped, mishaps>>

(* What the hash of a template is made from: generatedAt, which tells two  *)
(* templates apart, texts and prices, and the payment address.             *)
Hash == [of : Id, content : Nat, address : Nat \ {None}]
NoHash == [of |-> None, content |-> 0, address |-> None]

Template ==
  [parent : Id \cup {None}, market : Market \cup {Base}, content : Nat,
   filled : BOOLEAN,    \* what create() inserts after the template is there
   category : BOOLEAN,
   price : BOOLEAN,     \* there is an ItemPrice
   address : Nat,       \* its payment address, None until it is needed
   hash : Hash \cup {NoHash}]

HashOf(t, row) == [of |-> t, content |-> row.content, address |-> row.address]
Children(t) == {u \in DOMAIN templates : templates[u].parent = t}
Operation ==
  {"add", "fill", "edit", "unprice", "price", "address", "send", "hash", "look", "delete",
   "find", "relate"}

TypeOK ==
  /\ DOMAIN templates \subseteq 1 .. last /\ last \in 0 .. MaxTemplates
  /\ \A t \in DOMAIN templates :
       /\ templates[t] \in Template
       /\ templates[t].parent \in (DOMAIN templates \cap 1 .. t - 1) \cup {None}
  /\ \A n \in DOMAIN sent : sent[n] \in Hash
  /\ Len(sent) <= MaxPosts /\ arrived \subseteq DOMAIN sent
  /\ DOMAIN listings \subseteq arrived
  /\ \A n \in DOMAIN listings : listings[n] \in DOMAIN templates \cup {None}
  /\ DOMAIN work = Actor
  /\ \A a \in Actor :
       /\ work[a].at \in Id \cup {None}
       /\ \A k \in DOMAIN work[a].steps : work[a].steps[k].op \in Operation
  /\ overlapped \subseteq Id /\ mishaps \in 0 .. MaxMishaps

Nothing == [at |-> None, steps |-> <<>>]

Init ==
  /\ templates = <<>> /\ last = 0 /\ sent = <<>> /\ arrived = {} /\ listings = <<>>
  /\ work = [a \in Actor |-> Nothing]
  /\ overlapped = {} /\ mishaps = 0

-----------------------------------------------------------------------------
(* Commands: what validate() looks at, and the steps that are to follow.   *)

Idle(a) == work[a].steps = <<>>

(* Client c begins a command at t; two at one template at a time overlap.  *)
Begin(c, t, steps) ==
  /\ Idle(c) /\ work' = [work EXCEPT ![c] = [at |-> t, steps |-> steps]]
  /\ overlapped' = overlapped \cup {u \in {t} : \E b \in Clients \ {c} : ~ Idle(b) /\ work[b].at = u}
  /\ UNCHANGED <<rows, sent, arrived, mishaps>>

New(parent, market) ==
  [parent |-> parent, market |-> market, content |-> 0, filled |-> FALSE, category |-> FALSE,
   price |-> FALSE, address |-> None, hash |-> NoHash]

Add(t, row) == [op |-> "add", id |-> t, row |-> row]
Fill(t, hasCategory, hasPrice) ==
  [op |-> "fill", id |-> t, category |-> hasCategory, price |-> hasPrice]

RoomForBase ==
  Cardinality({t \in DOMAIN templates : templates[t].market = Base}) < MaxBases

TemplateAdd(c) ==
  /\ RoomForBase
  /\ last < MaxTemplates /\ last' = last + 1
  /\ \E hasCategory \in BOOLEAN :
       Begin(c, last + 1, <<Add(last + 1, New(None, Base)), Fill(last + 1, hasCategory, TRUE)>>)

(* getBaseTemplateFor(): two parents up if there are two, else one.        *)
BaseTemplateFor(t) ==
  LET parent == templates[t].parent
      above == IF parent = None THEN None ELSE templates[parent].parent
  IN IF above # None THEN above ELSE IF parent # None THEN parent ELSE t

MarketTemplates(base, m) == {u \in Children(base) : templates[u].market = m}

(* Mutant: a version's parent is the base.                                 *)
TemplateCloneOfBase(c, t, m) ==
  LET base == BaseTemplateFor(t)
      there == MarketTemplates(base, m)
      parent == IF m = Base THEN None ELSE base
      fill == IF templates[t].filled THEN <<Fill(last + 1, FALSE, templates[t].price)>> ELSE <<>>
  IN /\ m = Base => RoomForBase
     /\ last < MaxTemplates /\ last' = last + 1
     /\ m # Base /\ there # {} => templates[Min(there)].hash # NoHash
     /\ Begin(c, base, <<Add(last + 1, New(parent, m))>> \o fill)

(* The look for the newest version asks the market template for its hash   *)
(* again and not the version, so it refuses nothing.  A clone gets neither *)
(* category nor payment address, and with no market it is a base template. *)
TemplateClone(c, t, m) ==
  LET base == BaseTemplateFor(t)
      there == MarketTemplates(base, m)
      parent == IF m = Base THEN None ELSE IF there = {} THEN base ELSE Min(there)
      fill == IF templates[t].filled THEN <<Fill(last + 1, FALSE, templates[t].price)>> ELSE <<>>
  IN /\ m = Base => RoomForBase
     /\ last < MaxTemplates /\ last' = last + 1
     /\ m # Base /\ there # {} => templates[Min(there)].hash # NoHash
     /\ Begin(c, base, <<Add(last + 1, New(parent, m))>> \o fill)

(* Mutant: a template is modifiable until its listing has a row.           *)
ModifiableUnlisted(t) == \A n \in DOMAIN listings : listings[n] # t

(* isModifiable(): "it hasnt been posted unless it has a hash".            *)
Modifiable(t) == templates[t].hash = NoHash

(* The commands that update what belongs to a template; the one for the    *)
(* price makes a new ItemPrice.                                            *)
TemplateUpdate(c, t) ==
  LET edit == [op |-> "edit", id |-> t]
  IN /\ Modifiable(t) /\ templates[t].filled /\ templates[t].content < MaxEdits
     /\ \/ Begin(c, t, <<edit>>)
        \/ Begin(c, t, <<[op |-> "unprice", id |-> t], [op |-> "price", id |-> t]>>)
     /\ UNCHANGED last

Send(t, row, estimate) == [op |-> "send", id |-> t, row |-> row, estimate |-> estimate]

(* A template that has been posted may be posted again.                    *)
TemplatePost(c, t, estimate) ==
  LET row == templates[t]
      address == [op |-> "address", id |-> t, estimate |-> estimate]
  IN /\ row.market # Base /\ row.filled /\ row.price /\ row.category
     /\ Begin(c, t, IF row.address = None THEN <<address>> ELSE <<Send(t, row, estimate)>>)
     /\ UNCHANGED last

TemplateRemove(c, t) ==
  /\ Modifiable(t)
  /\ Begin(c, t, <<[op |-> "look", id |-> t], [op |-> "delete", id |-> t]>>)
  /\ UNCHANGED last

-----------------------------------------------------------------------------
(* Steps.  A step that does not find what it needs throws and ends its     *)
(* program; foreign keys do the same.                                      *)

Running(a, op) == ~ Idle(a) /\ Head(work[a].steps).op = op
Go(a, steps) ==
  work' = [work EXCEPT ![a] = IF steps = <<>> THEN Nothing ELSE [@ EXCEPT !.steps = steps]]
Replace(a, steps) == Go(a, steps \o Tail(work[a].steps))
Threw(a) == Go(a, <<>>)
Finds(a, there) == IF there THEN Replace(a, <<>>) ELSE Threw(a)
With(t, row) == [u \in DOMAIN templates \cup {t} |-> IF u = t THEN row ELSE templates[u]]
Change(a, t, there, row) ==
  /\ Finds(a, there)
  /\ templates' = IF there THEN With(t, row) ELSE templates
  /\ UNCHANGED <<listings, sent>>

AddRow(a) ==
  LET s == Head(work[a].steps)
  IN /\ Running(a, "add")
     /\ Change(a, s.id, s.row.parent \in DOMAIN templates \cup {None}, s.row)

FillRow(a) ==
  LET s == Head(work[a].steps)
      there == s.id \in DOMAIN templates
  IN /\ Running(a, "fill")
     /\ Change(a, s.id, there, [templates[s.id] EXCEPT !.filled = TRUE,
                                                       !.category = s.category, !.price = s.price])

(* ItemInformationUpdateCommand may give the template its category, which  *)
(* the hash does not cover.                                                *)
EditRow(a) ==
  LET t == Head(work[a].steps).id
  IN /\ Running(a, "edit")
     /\ \/ Change(a, t, t \in DOMAIN templates, [templates[t] EXCEPT !.content = @ + 1])
        \/ Change(a, t, t \in DOMAIN templates, [templates[t] EXCEPT !.category = TRUE])

(* PaymentInformationService.update(): the ItemPrice is destroyed, and its *)
(* payment address is not the template's any more.                         *)
DropPrice(a) ==
  LET t == Head(work[a].steps).id
  IN /\ Running(a, "unprice")
     /\ Change(a, t, t \in DOMAIN templates /\ templates[t].price,
               [templates[t] EXCEPT !.price = FALSE, !.address = None])

Copies(t) ==
  UNION {{work[a].steps[k].row.address :
            k \in {j \in DOMAIN work[a].steps : work[a].steps[j].op \in {"send", "hash"}
                                                /\ work[a].steps[j].id = t}} : a \in Actor}
Used(t) ==
  {templates[t].address} \cup Copies(t) \cup {sent[n].address : n \in {k \in DOMAIN sent : sent[k].of = t}}

NewAddress(t) == Min((1 .. Cardinality(Used(t)) + 1) \ Used(t))

(* A new one is created, with the payment address that the command names,  *)
(* if it names one.  As the content is new, so is the hash, whether the    *)
(* address has been used before or not.                                    *)
CreatePrice(a) ==
  LET t == Head(work[a].steps).id
      there == t \in DOMAIN templates
  IN /\ Running(a, "price")
     /\ \/ Change(a, t, there, [templates[t] EXCEPT !.content = @ + 1, !.price = TRUE])
        \/ Change(a, t, there, [templates[t] EXCEPT !.content = @ + 1, !.price = TRUE,
                                                    !.address = NewAddress(t)])

(* updatePaymentAddress(): the template is loaded again with a new address. *)
UpdatePaymentAddress(a) ==
  LET s == Head(work[a].steps)
      t == s.id
      there == t \in DOMAIN templates /\ templates[t].price
      row == [templates[t] EXCEPT !.address = NewAddress(t)]
  IN /\ Running(a, "address")
     /\ \/ ~ there /\ Threw(a) /\ UNCHANGED templates
        \/ there /\ Replace(a, <<Send(t, row, s.estimate)>>) /\ templates' = With(t, row)
     /\ UNCHANGED <<listings, sent>>

(* post(): the listing is made from the template as it was loaded.         *)
SendListing(a) ==
  LET s == Head(work[a].steps)
  IN /\ Running(a, "send")
     /\ \/ s.estimate /\ Replace(a, <<>>) /\ UNCHANGED sent
        \/ /\ ~ s.estimate /\ Len(sent) < MaxPosts
           /\ Replace(a, <<[op |-> "hash", id |-> s.id, row |-> s.row]>>)
           /\ sent' = Append(sent, HashOf(s.id, s.row))
     /\ UNCHANGED rows

UpdateHash(a) ==
  LET s == Head(work[a].steps)
  IN /\ Running(a, "hash")
     /\ Change(a, s.id, s.id \in DOMAIN templates,
               [templates[s.id] EXCEPT !.hash = HashOf(s.id, s.row)])

Unlisted(gone) == \A n \in DOMAIN listings : listings[n] \notin gone

(* destroy(): a template with listings stays; its images go before it.     *)
LookForListings(a) ==
  LET t == Head(work[a].steps).id
  IN /\ Running(a, "look") /\ Finds(a, t \in DOMAIN templates /\ Unlisted({t}))
     /\ UNCHANGED <<rows, sent>>

Line(t) == {t} \cup Children(t) \cup UNION {Children(u) : u \in Children(t)}

(* Mutant: the listings lose their template.                               *)
DeleteRowDetaching(a) ==
  LET gone == Line(Head(work[a].steps).id)
  IN /\ Running(a, "delete") /\ Replace(a, <<>>)
     /\ templates' = [u \in DOMAIN templates \ gone |-> templates[u]]
     /\ UNCHANGED <<listings, sent>>

(* Market templates and versions go with their base, unless the database   *)
(* finds that one of them has a listing.                                   *)
DeleteRow(a) ==
  LET gone == Line(Head(work[a].steps).id)
  IN /\ Running(a, "delete") /\ Finds(a, Unlisted(gone))
     /\ templates' = IF Unlisted(gone) THEN [u \in DOMAIN templates \ gone |-> templates[u]]
                     ELSE templates
     /\ UNCHANGED <<listings, sent>>

(* processMessage() of MPA_LISTING_ADD: a row, then the look for the       *)
(* template, then the relation.                                            *)
ReceiveListing(n) ==
  /\ Idle("inbox") /\ n \notin arrived /\ arrived' = arrived \cup {n}
  /\ listings' = [k \in DOMAIN listings \cup {n} |-> IF k = n THEN None ELSE listings[k]]
  /\ work' = [work EXCEPT !["inbox"].steps = <<[op |-> "find", listing |-> n]>>]
  /\ UNCHANGED <<templates, last, sent, overlapped, mishaps>>

FindTemplate(a) ==
  LET n == Head(work[a].steps).listing
      found == {t \in DOMAIN templates : templates[t].hash = sent[n]}
  IN /\ Running(a, "find")
     /\ \/ found = {} /\ Replace(a, <<>>)
        \/ \E t \in found : Replace(a, <<[op |-> "relate", listing |-> n, template |-> t]>>)
     /\ UNCHANGED <<rows, sent>>

RelateListing(a) ==
  LET s == Head(work[a].steps)
      there == s.template \in DOMAIN templates /\ s.listing \in DOMAIN listings
  IN /\ Running(a, "relate") /\ Finds(a, there)
     /\ listings' = IF there THEN [listings EXCEPT ![s.listing] = s.template] ELSE listings
     /\ UNCHANGED <<templates, sent>>

(* A listing that is over goes, and so does its row.                       *)
ExpireListing(n) ==
  /\ listings' = [k \in DOMAIN listings \ {n} |-> listings[k]]
  /\ UNCHANGED <<templates, last, sent, arrived, work, overlapped, mishaps>>

Proceed(a) ==
  /\ \/ AddRow(a) \/ FillRow(a) \/ EditRow(a) \/ DropPrice(a) \/ CreatePrice(a)
     \/ UpdatePaymentAddress(a) \/ SendListing(a) \/ UpdateHash(a)
     \/ LookForListings(a) \/ DeleteRow(a) \/ FindTemplate(a) \/ RelateListing(a)
  /\ UNCHANGED <<last, arrived, overlapped, mishaps>>

(* Core gives no address, or does not send.                                *)
Fault(a) ==
  /\ mishaps < MaxMishaps /\ mishaps' = mishaps + 1
  /\ Running(a, "address") \/ Running(a, "send")
  /\ Threw(a)
  /\ UNCHANGED <<rows, last, sent, arrived, overlapped>>

Crash ==
  /\ mishaps < MaxMishaps /\ mishaps' = mishaps + 1
  /\ \E a \in Actor : ~ Idle(a)
  /\ work' = [a \in Actor |-> Nothing]
  /\ UNCHANGED <<rows, last, sent, arrived, overlapped>>

Next ==
  \/ \E c \in Clients :
       \/ TemplateAdd(c)
       \/ \E t \in DOMAIN templates :
            \/ \E m \in Market \cup {Base} : TemplateClone(c, t, m)
            \/ TemplateUpdate(c, t) \/ TemplateRemove(c, t)
            \/ \E estimate \in BOOLEAN : TemplatePost(c, t, estimate)
  \/ \E n \in DOMAIN sent : ReceiveListing(n)
  \/ \E n \in DOMAIN listings : ExpireListing(n)
  \/ \E a \in Actor : Proceed(a) \/ Fault(a)
  \/ Crash

Spec == Init /\ [][Next]_vars

-----------------------------------------------------------------------------
(* A listing of one's own that refers to a template is what the template   *)
(* shows, whatever failed, stopped or was posted again: the template has   *)
(* the listing's hash and has not changed since.  (Nothing is claimed of a *)
(* template that was edited by one command while another was posting it.)  *)
ShownAsPosted ==
  \A n \in DOMAIN listings :
    LET t == listings[n]
    IN t # None /\ t \notin overlapped =>
         templates[t].hash = sent[n] /\ HashOf(t, templates[t]) = sent[n]

(* Bases, market templates and versions: however templates are cloned and  *)
(* removed, a version's parent is the market template of its market, that  *)
(* one's parent is a base, and a base has one market template per market   *)
(* (unless two commands cloned it at once).                                *)
FamilyTree ==
  \A t \in DOMAIN templates :
    LET parent == templates[t].parent
    IN /\ (templates[t].market = Base) = (parent = None)
       /\ parent # None /\ templates[parent].market # Base =>
            /\ templates[parent].market = templates[t].market
            /\ templates[templates[parent].parent].market = Base
       /\ parent = None /\ t \notin overlapped =>
            \A m \in Market : Cardinality(MarketTemplates(t, m)) <= 1

(* "fail if latest version of market template is not published": a new     *)
(* version is made when all earlier ones of that market have been posted.  *)
OneEditable ==
  \A t \in DOMAIN templates \ overlapped, m \in Market :
    Cardinality({u \in Line(t) : templates[u].market = m /\ Modifiable(u)}) <= 1
=============================================================================
