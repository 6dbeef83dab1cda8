----------------------------- MODULE Categories -----------------------------
(***************************************************************************)
(* Item categories.  A category belongs to a market or is a default one,   *)
(* has a parent unless it is a ROOT, a name, and a key, the hash of the    *)
(* names from ROOT down with commas between them: a name with a comma      *)
(* gives the key that two names give.  Every boot seeds the defaults; a    *)
(* template gets a category; posting sends the names, and whoever receives *)
(* them finds or makes the category of the market, name by name.  The      *)
(* seller of a storefront may add, move and remove its categories          *)
(* meanwhile.  Work is a program of steps, the awaits of the code, and the *)
(* node may stop between any two.                                          *)
(***************************************************************************)
EXTENDS Naturals, Sequences, FiniteSets, SequencesExt

CONSTANTS
  Market,        \* receive addresses of the markets
  Home,          \* the default market, which the boot joins
  MarketType,    \* MarketType[m]: its type
  Part,          \* what names consist of between commas
  Name,          \* names the seller gives to categories, see Named
  Default,       \* the default categories, in the order of seeding: each is
                 \* below the one before it or below one above that
  Posted,        \* listings of other sellers, [market, path]
  Levels,        \* how many ancestors are loaded with a category (the code: 4)
  MaxCategories, \* bound: how many categories get a row
  MaxTemplates,  \* bound: how many templates there are
  MaxPosts,      \* bound: how many listings the node sends
  MaxUpdates,    \* bound: how many categories are updated
  MaxStops       \* bound: how often the node stops

(* A name is the sequence of its parts.                                    *)
Named == Seq(Part \cup {"ROOT"}) \ {<<>>}
Path == Seq(Named) \ {<<>>}
RootName == <<"ROOT">>
ROOT == <<RootName>>

(* hash(path.toString()): all the parts, whatever names they are of.  (The *)
(* hash is taken to be free of collisions.)                                *)
KeyOf(path) == FlattenSeq(path)

ASSUME CategoriesAssumption ==
  /\ Home \in Market /\ "none" \notin Market /\ Name \subseteq Named
  /\ MarketType \in [Market -> {"MARKETPLACE", "STOREFRONT", "STOREFRONT_ADMIN"}]
  /\ Default \in Seq(Path) /\ Default # <<>> /\ Default[1] = ROOT
  /\ \A k \in 2 .. Len(Default) :
       /\ Len(Default[k]) \in 2 .. Len(Default[k - 1]) + 1
       /\ Front(Default[k]) = SubSeq(Default[k - 1], 1, Len(Default[k]) - 1)
       /\ Last(Default[k]) \in Seq(Part \ {"ROOT"})
  /\ Posted \subseteq [market : Market, path : Path]
  /\ Levels \in Nat /\ MaxCategories \in Nat /\ MaxTemplates \in Nat
  /\ MaxPosts \in Nat /\ MaxUpdates \in Nat /\ MaxStops \in Nat

Actor == {"boot", "client", "inbox"}
NoMarket == "none"  \* the market of a default category and of a base template
None == 0

VARIABLES
  categories, \* categories[c]: the row with id c
  last,       \* the last id given to a category
  joined,     \* the markets that have a row
  templates,  \* a base or market template and its category
  sent,       \* the listings sent to a market
  listings,   \* listings[n]: the category that the row of listing n has
  fate,       \* fate[n]: what became of the message with listing n
  boot,       \* where the boot is
  work,       \* work[a]: the steps actor a is to do and what it has found
  shaken,     \* messages in whose processing others changed categories, or that expired
  edited,     \* categories that were updated by a command
  moved,      \* those, what is or was below them, and any ROOT below another
  stops

references == <<templates, listings>>
outside == <<joined, sent, boot, stops>>
vars == <<categories, last, joined, templates, sent, listings, fate, boot, work, shaken, edited, moved, stops>>

Id == 1 .. MaxCategories
Category == [key : Named, name : Named, market : Market \cup {NoMarket}, parent : Id \cup {None}]

Exists(c) == c \in DOMAIN categories

TypeOK ==
  /\ DOMAIN categories \subseteq 1 .. last /\ last \in 0 .. MaxCategories
  /\ \A c \in DOMAIN categories :
       /\ categories[c] \in Category
       /\ categories[c].parent # None => Exists(categories[c].parent)
  /\ joined \subseteq Market
  /\ \A t \in DOMAIN templates :
       /\ templates[t].market \in joined \cup {NoMarket}
       /\ templates[t].category # None => Exists(templates[t].category)
  /\ \A n \in DOMAIN sent : sent[n].market \in joined
  /\ DOMAIN listings \subseteq DOMAIN sent
  /\ \A n \in DOMAIN listings : listings[n] # None => Exists(listings[n])
  /\ DOMAIN fate \subseteq DOMAIN sent
  /\ \A n \in DOMAIN fate : fate[n] \in {"stored", "refused", "failed", "lost"}
  /\ boot \in {"up", "seeding", "started", "failed"}
  /\ DOMAIN work = Actor /\ shaken \subseteq DOMAIN sent
  /\ edited \subseteq Id /\ moved \subseteq DOMAIN categories
  /\ stops \in 0 .. MaxStops

Nothing == [steps |-> <<>>, found |-> <<>>, listing |-> None]

Init ==
  /\ categories = <<>> /\ last = 0 /\ joined = {} /\ templates = <<>>
  /\ sent = <<>> /\ listings = <<>> /\ fate = <<>> /\ boot = "up"
  /\ work = [a \in Actor |-> Nothing]
  /\ shaken = {} /\ edited = {} /\ moved = {} /\ stops = 0

-----------------------------------------------------------------------------
(* What is read.                                                           *)

(* getArray() of a category loaded with n ancestors: the names from the    *)
(* highest one loaded down.                                                *)
GetArray(c, n) ==
  LET line[k \in 0 .. n] ==
        IF k = 0 THEN <<c>>
        ELSE LET parent == categories[line[k - 1][1]].parent
             IN IF parent = None THEN line[k - 1] ELSE <<parent>> \o line[k - 1]
  IN [k \in DOMAIN line[n] |-> categories[line[n][k]].name]

(* Of several rows the one with the lowest id is taken.                    *)
First(found) == IF found = {} THEN None ELSE CHOOSE c \in found : \A d \in found : c <= d

(* Mutant: the market is not looked at.                                    *)
FindInAnyMarket(key, m) == First({c \in DOMAIN categories : categories[c].key = key})

(* findOneByKeyAndMarket(): without a market, searchBy() leaves the market *)
(* out of the query rather than to ask for a default category.             *)
FindOneByKeyAndMarket(key, m) ==
  First({c \in DOMAIN categories : categories[c].key = key /\ m \in {NoMarket, categories[c].market}})

FindOneDefaultByKey(key) ==
  First({c \in DOMAIN categories : categories[c].key = key /\ categories[c].market = NoMarket})

FindRoot(m) ==
  First({c \in DOMAIN categories : categories[c].market = m /\ categories[c].parent = None})

-----------------------------------------------------------------------------
(* Steps.  One that does not find what it needs throws and ends its        *)
(* program; so does one that the database refuses.                         *)

Idle(a) == work[a].steps = <<>>
Running(a, op) == ~ Idle(a) /\ Head(work[a].steps).op = op
FateOf(n, what) == [k \in DOMAIN fate \cup {n} |-> IF k = n THEN what ELSE fate[k]]

(* The program's message has failed, and so has the boot if it is its.     *)
Threw(a) ==
  /\ work' = [work EXCEPT ![a] = Nothing]
  /\ fate' = IF a = "inbox" THEN FateOf(work[a].listing, "failed") ELSE fate
  /\ boot' = IF a = "boot" THEN "failed" ELSE boot
  /\ UNCHANGED <<categories, last, references, sent, edited>>

GoesOn(a, steps, found) ==
  /\ work' = [work EXCEPT ![a] = IF steps = <<>> THEN Nothing
                                ELSE [@ EXCEPT !.steps = steps, !.found = found]]
  /\ UNCHANGED <<fate, boot>>
Goes(a, steps) == GoesOn(a, steps \o Tail(work[a].steps), work[a].found)

(* Category c is the one for path, whose ancestors have been found before. *)
Found(a, path, c) ==
  GoesOn(a, Tail(work[a].steps), Append(SubSeq(work[a].found, 1, Len(path) - 1), c))

(* UNIQUE (key, market) lets several rows without a market have one key,   *)
(* and a parent has to be there.                                           *)
Admits(c, row) ==
  /\ row.parent # None => row.parent \in DOMAIN categories \cup {c}
  /\ row.market # NoMarket =>
       \A d \in DOMAIN categories \ {c} :
         categories[d].key # row.key \/ categories[d].market # row.market

Put(c, row) == categories' = [d \in DOMAIN categories \cup {c} |-> IF d = c THEN row ELSE categories[d]]

NewRow(path, m, parent) ==
  [key |-> KeyOf(path), name |-> Last(path), market |-> m, parent |-> parent]
Upsert(path, m) == [op |-> "upsert", path |-> path, market |-> m]
Ensure(path, m) == [op |-> "ensure", path |-> path, market |-> m]
Insert(path, row) == [op |-> "insert", path |-> path, row |-> row]
Parent(a, path) == IF Len(path) = 1 THEN None ELSE work[a].found[Len(path) - 1]
Row(a, path, m) == NewRow(path, m, Parent(a, path))

(* insertOrUpdate(): look, then update what is there or create it.         *)
InsertOrUpdate(a) ==
  LET s == Head(work[a].steps)
      c == FindOneByKeyAndMarket(KeyOf(s.path), s.market)
      row == Row(a, s.path, s.market)
  IN /\ Running(a, "upsert")
     /\ Goes(a, IF c = None THEN <<Insert(s.path, row)>>
                ELSE <<[op |-> "update", id |-> c, path |-> s.path, row |-> row]>>)
     /\ UNCHANGED <<categories, last, references, sent, edited>>

(* An update leaves the market as it is, and the parent when it has none   *)
(* to set.  When it fails, the category is created.                        *)
UpdateRow(a) ==
  LET s == Head(work[a].steps)
      there == Exists(s.id)
      row == [categories[s.id] EXCEPT !.key = s.row.key, !.name = s.row.name,
                                      !.parent = IF s.row.parent = None THEN @ ELSE s.row.parent]
  IN /\ Running(a, "update")
     /\ \/ there /\ Admits(s.id, row) /\ Put(s.id, row) /\ Found(a, s.path, s.id)
        \/ /\ ~ (there /\ Admits(s.id, row)) /\ Goes(a, <<Insert(s.path, s.row)>>)
           /\ UNCHANGED categories
     /\ UNCHANGED <<last, references, sent, edited>>

InsertRow(a) ==
  LET s == Head(work[a].steps)
  IN /\ Running(a, "insert")
     /\ \/ ~ Admits(None, s.row) /\ Threw(a)
        \/ /\ Admits(None, s.row) /\ last < MaxCategories /\ last' = last + 1
           /\ Put(last + 1, s.row) /\ Found(a, s.path, last + 1)
           /\ UNCHANGED <<references, sent, edited>>

(* Mutant: a market that has no ROOT yet gets none.                        *)
LookForRootOnly(a) ==
  /\ Running(a, "root") /\ Goes(a, <<>>)
  /\ UNCHANGED <<categories, last, references, sent, edited>>

(* createMarketCategoriesFromArray() begins with the ROOT ...              *)
LookForRoot(a) ==
  LET m == Head(work[a].steps).market
  IN /\ Running(a, "root")
     /\ Goes(a, IF FindRoot(m) = None THEN <<Upsert(ROOT, m)>> ELSE <<>>)
     /\ UNCHANGED <<categories, last, references, sent, edited>>

(* ... and goes down; the first name has no parent to be created under, as *)
(* happens when a storefront lets in a path that does not begin with ROOT. *)
FindOrCreate(a) ==
  LET s == Head(work[a].steps)
      c == FindOneByKeyAndMarket(KeyOf(s.path), s.market)
  IN /\ Running(a, "ensure")
     /\ \/ /\ c # None /\ Found(a, s.path, c)
           /\ UNCHANGED <<categories, last, references, sent, edited>>
        \/ c = None /\ Len(s.path) = 1 /\ Threw(a)
        \/ /\ c = None /\ Len(s.path) > 1
           /\ Goes(a, <<Insert(s.path, Row(a, s.path, s.market))>>)
           /\ UNCHANGED <<categories, last, references, sent, edited>>

CreateMarketCategories(m, path) ==
  <<[op |-> "root", market |-> m]>> \o [k \in DOMAIN path |-> Ensure(SubSeq(path, 1, k), m)]

-----------------------------------------------------------------------------
(* Markets and the boot.                                                   *)

Begin(a, steps) == Idle(a) /\ work' = [work EXCEPT ![a] = [Nothing EXCEPT !.steps = steps]]

(* The market's row comes first, then core is asked to join, then ROOT;    *)
(* core may fail.  The commands on markets are served during the boot.     *)
MarketAdd(m) ==
  /\ m \notin joined \cup {Home} /\ joined' = joined \cup {m}
  /\ \E steps \in {<<>>, <<Upsert(ROOT, m)>>} : Begin("client", steps)
  /\ UNCHANGED <<categories, last, references, sent, fate, boot, shaken, edited, moved, stops>>

SeedDefaultCategories ==
  /\ boot = "up" /\ boot' = "seeding"
  /\ Begin("boot", [k \in DOMAIN Default |-> Upsert(Default[k], NoMarket)])
  /\ UNCHANGED <<categories, last, joined, references, sent, fate, shaken, edited, moved, stops>>

(* The default market gets its ROOT with the first listing.                *)
FinishBoot ==
  /\ boot = "seeding" /\ Idle("boot") /\ boot' = "started"
  /\ joined' = joined \cup {Home}
  /\ UNCHANGED <<categories, last, references, sent, fate, work, shaken, edited, moved, stops>>

Stop ==
  /\ stops < MaxStops /\ stops' = stops + 1
  /\ boot' = "up" /\ work' = [a \in Actor |-> Nothing]
  /\ fate' = IF Idle("inbox") THEN fate ELSE FateOf(work["inbox"].listing, "lost")
  /\ UNCHANGED <<categories, last, joined, references, sent, shaken, edited, moved>>

-----------------------------------------------------------------------------
(* Commands on categories and templates, and their last steps.             *)

Command(steps) ==
  /\ boot = "started" /\ Begin("client", steps)
  /\ UNCHANGED <<categories, last, joined, references, sent, fate, boot, shaken, edited, moved, stops>>

IsAdmin(m) == m \in joined /\ MarketType[m] = "STOREFRONT_ADMIN"

CategoryAdd(parent, name) ==
  LET m == categories[parent].market
      path == Append(GetArray(parent, Levels), name)
  IN IsAdmin(m) /\ Command(<<Insert(path, NewRow(path, m, parent))>>)

(* The new parent may be of any market, and be the category itself; when   *)
(* none is given it is the market's ROOT.                                  *)
CategoryUpdate(c, parent, name) ==
  /\ IsAdmin(categories[c].market) /\ Cardinality(edited) < MaxUpdates
  /\ Command(<<[op |-> "edit", id |-> c, parent |-> parent,
                path |-> Append(GetArray(parent, Levels), name)]>>)

EditRow(a) ==
  LET s == Head(work[a].steps)
      row == NewRow(s.path, categories[s.id].market, s.parent)
  IN /\ Running(a, "edit")
     /\ \/ ~ (Exists(s.id) /\ Admits(s.id, row)) /\ Threw(a)
        \/ /\ Exists(s.id) /\ Admits(s.id, row) /\ Put(s.id, row) /\ Goes(a, <<>>)
           /\ edited' = edited \cup {s.id}
           /\ UNCHANGED <<last, references, sent>>

Refers(gone) ==
  \/ \E t \in DOMAIN templates : templates[t].category \in gone
  \/ \E n \in DOMAIN listings : listings[n] \in gone

(* Asks for templates and listings of this category, not of those below;   *)
(* the database does, but for expired listings as well.                    *)
CategoryRemove(c) ==
  /\ categories[c].market # NoMarket /\ ~ Refers({c})
  /\ Command(<<[op |-> "remove", id |-> c]>>)

Children(rows, cs) == {c \in DOMAIN rows : rows[c].parent \in cs}

(* The least set with cs that has the children of each of its members.     *)
Below(rows, cs) ==
  {c \in DOMAIN rows :
     \A s \in SUBSET DOMAIN rows : (cs \cap DOMAIN rows) \cup Children(rows, s) \subseteq s => c \in s}

(* Mutant: the categories below stay.                                      *)
RemoveRowOnly(a) ==
  LET c == Head(work[a].steps).id
  IN /\ Running(a, "remove") /\ Exists(c) /\ ~ Refers({c}) /\ Goes(a, <<>>)
     /\ categories' = [d \in DOMAIN categories \ {c} |-> categories[d]]
     /\ UNCHANGED <<last, references, sent, edited>>

(* The categories below go with it, unless one is referred to.             *)
RemoveRow(a) ==
  LET c == Head(work[a].steps).id
      gone == Below(categories, {c})
  IN /\ Running(a, "remove")
     /\ \/ (~ Exists(c) \/ Refers(gone)) /\ Threw(a)
        \/ /\ Exists(c) /\ ~ Refers(gone) /\ Goes(a, <<>>)
           /\ categories' = [d \in DOMAIN categories \ gone |-> categories[d]]
           /\ UNCHANGED <<last, references, sent, edited>>

(* A base template begins with a default category or none; what is cloned  *)
(* from it for a market begins with none.  (In one step: with a category   *)
(* that goes meanwhile there is no template.)                              *)
TemplateAdd(m, c) ==
  /\ boot = "started" /\ Idle("client") /\ Len(templates) < MaxTemplates
  /\ c # None => m = NoMarket /\ categories[c].market = NoMarket
  /\ templates' = Append(templates, [market |-> m, category |-> c])
  /\ UNCHANGED <<categories, last, listings, fate, outside, work, shaken, edited, moved>>

Modifiable(t) == \A n \in DOMAIN sent : sent[n].template # t

ItemInformationUpdate(t, c) ==
  LET row == categories[c]
  IN /\ Modifiable(t)
     /\ row.market = NoMarket \/ templates[t].market \in {NoMarket, row.market}
     /\ Command(<<[op |-> "file", template |-> t, key |-> row.key, market |-> row.market]>>)

(* getOrCreateItemCategory() looks for the key once more.                  *)
FileTemplate(a) ==
  LET s == Head(work[a].steps)
      c == IF s.market = NoMarket THEN FindOneDefaultByKey(s.key)
           ELSE FindOneByKeyAndMarket(s.key, s.market)
  IN /\ Running(a, "file")
     /\ \/ c = None /\ Threw(a)
        \/ /\ c # None /\ Goes(a, <<>>)
           /\ templates' = [templates EXCEPT ![s.template].category = c]
           /\ UNCHANGED <<categories, last, listings, sent, edited>>

(* The names are those loaded with the template: without ROOT when the     *)
(* category is too deep, and then the look-up of the first name fails.     *)
TemplatePost(t) ==
  LET m == templates[t].market
      path == GetArray(templates[t].category, Levels)
  IN /\ m # NoMarket /\ templates[t].category # None
     /\ Command(CreateMarketCategories(m, path)
                  \o <<[op |-> "send", market |-> m, path |-> path, template |-> t]>>)

Own == {n \in DOMAIN sent : sent[n].template # None}

SendListing(a) ==
  LET s == Head(work[a].steps)
  IN /\ Running(a, "send") /\ Cardinality(Own) < MaxPosts
     /\ Goes(a, <<>>)
     /\ sent' = Append(sent, [market |-> s.market, path |-> s.path, template |-> s.template])
     /\ UNCHANGED <<categories, last, references, edited>>

-----------------------------------------------------------------------------
(* Listings that are received, also during the boot.                       *)

OtherPosts(p) ==
  LET listing == [market |-> p.market, path |-> p.path, template |-> None]
  IN /\ p.market \in joined /\ listing \notin Range(sent) /\ sent' = Append(sent, listing)
     /\ UNCHANGED <<categories, last, joined, references, fate, boot, work, shaken, edited, moved, stops>>

(* "in case of MarketType.MARKETPLACE: only allow categories which have a  *)
(* matching default category", in storefronts "anything goes".             *)
Allowed(m, path) == MarketType[m] = "MARKETPLACE" => FindOneDefaultByKey(KeyOf(path)) # None

ReceiveListing(n) ==
  LET m == sent[n].market
      path == sent[n].path
      steps == CreateMarketCategories(m, path) \o <<[op |-> "list", path |-> path, market |-> m]>>
  IN /\ Idle("inbox") /\ n \notin DOMAIN fate \cup DOMAIN listings
     /\ \/ ~ Allowed(m, path) /\ fate' = FateOf(n, "refused") /\ UNCHANGED work
        \/ /\ Allowed(m, path) /\ UNCHANGED fate
           /\ work' = [work EXCEPT !["inbox"] = [Nothing EXCEPT !.steps = steps, !.listing = n]]
     /\ UNCHANGED <<categories, last, references, outside, shaken, edited, moved>>

ListingRow(n, c) == listings' = [k \in DOMAIN listings \cup {n} |-> IF k = n THEN c ELSE listings[k]]

(* ListingItemService.create(): the listing's row, then its information,   *)
(* which refers to the category found before.                              *)
CreateListing(a) ==
  LET s == Head(work[a].steps)
      c == FindOneByKeyAndMarket(KeyOf(s.path), s.market)
  IN /\ Running(a, "list")
     /\ \/ c = None /\ Threw(a)
        \/ /\ c # None /\ Goes(a, <<[op |-> "inform", category |-> c]>>)
           /\ ListingRow(work[a].listing, None)
           /\ UNCHANGED <<categories, last, templates, sent, edited>>

CreateInformation(a) ==
  LET c == Head(work[a].steps).category
      n == work[a].listing
      there == Exists(c) /\ n \in DOMAIN listings
  IN /\ Running(a, "inform")
     /\ \/ ~ there /\ Threw(a)
        \/ /\ there /\ ListingRow(n, c)
           /\ work' = [work EXCEPT ![a] = Nothing] /\ fate' = FateOf(n, "stored")
           /\ UNCHANGED <<categories, last, templates, sent, boot, edited>>

ExpireListing(n) ==
  /\ listings' = [k \in DOMAIN listings \ {n} |-> listings[k]]
  /\ shaken' = shaken \cup ({n} \cap {work["inbox"].listing})
  /\ UNCHANGED <<categories, last, templates, outside, fate, work, edited, moved>>

(* A second ROOT in a key: another seller sent it, or a ROOT was moved and  *)
(* made ROOT again by an insertOrUpdate() that had looked before.          *)
Misnamed(rows) == {c \in DOMAIN rows : \E k \in 2 .. Len(rows[c].key) : rows[c].key[k] = "ROOT"}

Proceed(a) ==
  /\ \/ InsertOrUpdate(a) \/ UpdateRow(a) \/ InsertRow(a) \/ LookForRoot(a) \/ FindOrCreate(a)
     \/ EditRow(a) \/ RemoveRow(a) \/ FileTemplate(a) \/ SendListing(a)
     \/ CreateListing(a) \/ CreateInformation(a)
  /\ shaken' = IF a # "inbox" /\ ~ Idle("inbox") /\ categories' # categories
               THEN shaken \cup {work["inbox"].listing} ELSE shaken
  /\ moved' = Below(categories', moved \cup edited' \cup Misnamed(categories'))
  /\ UNCHANGED <<joined, stops>>

Next ==
  \/ \E m \in Market : MarketAdd(m)
  \/ SeedDefaultCategories \/ FinishBoot \/ Stop
  \/ \E c \in DOMAIN categories :
       \/ \E name \in Name : CategoryAdd(c, name)
       \/ \E parent \in DOMAIN categories, name \in Name : CategoryUpdate(c, parent, name)
       \/ CategoryRemove(c)
       \/ \E t \in DOMAIN templates : ItemInformationUpdate(t, c)
  \/ \E m \in joined \cup {NoMarket}, c \in DOMAIN categories \cup {None} : TemplateAdd(m, c)
  \/ \E t \in DOMAIN templates : TemplatePost(t)
  \/ \E p \in Posted : OtherPosts(p)
  \/ \E n \in DOMAIN sent : ReceiveListing(n)
  \/ \E n \in DOMAIN listings : ExpireListing(n)
  \/ \E a \in Actor : Proceed(a)

Spec == Init /\ [][Next]_vars

-----------------------------------------------------------------------------
(* A stored listing is in a category of its market, where the names from   *)
(* ROOT down, read with commas between them, are those it was sent with,   *)
(* whoever else made or removed categories and whatever was there before   *)
(* the defaults were (unless the seller updated that category or one that  *)
(* was above it, or it is below a second ROOT).  Names with commas of      *)
(* their own may be cut elsewhere than in the message.  What was sent      *)
(* without ROOT is in one whose names end that way.                        *)
FiledAsSent ==
  \A n \in DOMAIN listings :
    LET c == listings[n]
        key == KeyOf(sent[n].path)
        names == KeyOf(GetArray(c, Len(key)))
    IN c # None /\ c \notin moved =>
         /\ categories[c].market = sent[n].market
         /\ IsSuffix(key, names) /\ (key[1] = "ROOT" => names = key)

(* A received listing that its validator lets in is stored, in whatever    *)
(* state seeding, additions and removals have left the categories, unless  *)
(* someone else changed them while it was being processed, or its first    *)
(* name is not ROOT: a storefront lets such a listing in all the same.     *)
StoredUnlessShaken ==
  \A n \in DOMAIN fate :
    fate[n] = "failed" /\ sent[n].path[1] = RootName => n \in shaken
=============================================================================
