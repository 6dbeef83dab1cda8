-------------------------------- MODULE Markets --------------------------------
(***************************************************************************)
(* The profiles, identities, wallets and markets of one node, and the boot *)
(* that makes the default ones.  A profile and every market it joins has   *)
(* an identity, an identity has a wallet in particl core, and the settings *)
(* say which profile and which of its markets is the default.  None of     *)
(* this is one transaction: the boot and the commands are programs of      *)
(* steps, the awaits of the code, with a row of the database or a call to  *)
(* core in each; the node may stop between any two, and core may not       *)
(* answer.  While the boot is running the commands of markets are served.  *)
(***************************************************************************)
EXTENDS Naturals, Sequences, FiniteSets, FiniteSetsExt, Functions

CONSTANTS
  ProfileName, \* names of profiles; the first one is "DEFAULT"
  MarketName,  \* names that users give to markets, and that messages bring
  Address,     \* receive addresses of those markets
  Clients,     \* who sends commands, one at a time each
  Installs,    \* where the node starts: "new", "old" (with one market wallet)
  MaxProfiles, \* bound: how many profiles get a row
  MaxMarkets,  \* bound: how many markets get a row
  MaxMishaps   \* bound: how often the node stops, core does not answer, or a
               \* default or a joined market is taken away

ASSUME MarketsAssumption ==
  /\ "DEFAULT" \in ProfileName /\ "none" \notin ProfileName \cup MarketName
  /\ IsFiniteSet(Clients) /\ "boot" \notin Clients
  /\ Installs \subseteq {"new", "old"} /\ Installs # {}
  /\ MaxProfiles \in Nat \ {0} /\ MaxMarkets \in Nat \ {0}
  /\ MaxMishaps \in Nat

Actor == {"boot"} \cup Clients
Pid == 1 .. MaxProfiles
Mid == 1 .. MaxMarkets
None == 0
NoWallet == [of |-> "none", market |-> "none"]

(* The default market's identity has not the name of its row.              *)
IdentityName == "particl-market"
Names == MarketName \cup {"default", IdentityName}
Addresses == Address \cup {"default"}

(* Wallets are named after the profile, and the market if they are of one; *)
(* old versions had one wallet.                                            *)
ProfileWallet(name) == [of |-> name, market |-> "none"]
MarketWallet(name, n) == [of |-> name, market |-> n]
OldWallet == [of |-> "none", market |-> "market"]
Wallet ==
  {ProfileWallet(f) : f \in ProfileName} \cup {MarketWallet(f, n) : f \in ProfileName, n \in Names}
    \cup {OldWallet}

VARIABLES
  profiles,   \* profiles[p]: the name of the profile with id p
  identities, \* the rows: wallet, profile and the path of the key
  wallets,    \* core: wallets[w]: the paths of the imported keys, the account
  loaded,     \* core: the wallets that are loaded
  listening,  \* core: the addresses of markets that messages are read from
  markets,    \* markets[m]: name, address, profile and wallet; old: renamed
  settings,   \* the default profile, and the default market of each profile
  last,       \* the last ids given to a profile and to a market
  boot,       \* where ServerStartedListener is
  work,       \* work[a]: the steps that actor a has still to take
  owed,       \* nothing has happened that may keep the boot from succeeding
  mishaps     \* how many of the mishaps of MaxMishaps there have been

database == <<profiles, identities, markets, settings, last>>
core == <<wallets, loaded, listening>>
vars == <<database, core, boot, work, owed, mishaps>>

MasterPath == MaxMarkets + 1
Path == 0 .. MasterPath
Identity == [wallet : Wallet, profile : Pid \cup {None}, path : Path]
Market ==
  [name : Names, old : BOOLEAN, address : Addresses, profile : Pid \cup {None},
   wallet : Wallet \cup {NoWallet}]
Operation ==
  {"addProfile", "wallet", "create", "genesis", "import", "account", "identity", "rename",
   "setProfile", "loadAll", "seedMarket", "unjoined", "market", "join", "setMarket", "destroy"}

TypeOK ==
  /\ DOMAIN profiles \subseteq 1 .. last.profile /\ Range(profiles) \subseteq ProfileName
  /\ identities \subseteq Identity
  /\ DOMAIN wallets \subseteq Wallet /\ loaded \subseteq DOMAIN wallets
  /\ \A w \in DOMAIN wallets : wallets[w] \in [paths : SUBSET Path, account : BOOLEAN]
  /\ listening \subseteq Addresses
  /\ DOMAIN markets \subseteq 1 .. last.market
  /\ \A m \in DOMAIN markets : markets[m] \in Market
  /\ settings \in [profile : Pid \cup {None}, market : [Pid -> Mid \cup {None}]]
  /\ last \in [profile : 0 .. MaxProfiles, market : 0 .. MaxMarkets]
  /\ boot \in {"polling", "booting", "started", "failed"}
  /\ DOMAIN work = Actor
  /\ \A a \in Actor : \A n \in DOMAIN work[a] : work[a][n].op \in Operation
  /\ owed \in BOOLEAN /\ mishaps \in 0 .. MaxMishaps

HasIdentity(p) == \E i \in identities : i.profile = p /\ i.path = MasterPath
OfProfile(p) == {m \in DOMAIN markets : markets[m].profile = p}

New ==
  /\ profiles = <<>> /\ identities = {} /\ markets = <<>> /\ wallets = <<>> /\ loaded = {}
  /\ listening = {} /\ last = [profile |-> 0, market |-> 0]
  /\ settings = [profile |-> None, market |-> [p \in Pid |-> None]]

(* One market, whose identity has the old wallet, and no identity of the   *)
(* profile.                                                                *)
Old ==
  /\ profiles = <<"DEFAULT">> /\ last = [profile |-> 1, market |-> 1]
  /\ identities = {[wallet |-> OldWallet, profile |-> 1, path |-> 0]}
  /\ wallets = [w \in {OldWallet} |-> [paths |-> {0}, account |-> TRUE]] /\ loaded = {}
  /\ listening = {"default"}
  /\ markets = <<[name |-> "default", old |-> FALSE, address |-> "default", profile |-> 1,
                  wallet |-> OldWallet]>>
  /\ settings = [profile |-> 1, market |-> [p \in Pid |-> None]]

Init ==
  /\ \/ "new" \in Installs /\ New
     \/ "old" \in Installs /\ Old
  /\ boot = "polling" /\ work = [a \in Actor |-> <<>>] /\ owed = TRUE
  /\ mishaps = 0

Removing(m) == \E a \in Actor : work[a] # <<>> /\ Head(work[a]) = [op |-> "destroy", market |-> m]

(* A market that was there when its command looked, and is not any more,   *)
(* is about to become the default.                                         *)
Misled(p) ==
  \E a \in Actor : \E n \in DOMAIN work[a] :
    /\ work[a][n].op = "setMarket" /\ work[a][n].profile = p
    /\ work[a][n].market \notin OfProfile(p)

(* The default profile has its identity and a default market that exists,  *)
(* and nobody is about to remove it or to choose one that does not.        *)
Seeded ==
  /\ settings.profile \in DOMAIN profiles /\ HasIdentity(settings.profile)
  /\ settings.market[settings.profile] \in OfProfile(settings.profile)
  /\ ~ Removing(settings.market[settings.profile]) /\ ~ Misled(settings.profile)

-----------------------------------------------------------------------------
(* Programs.                                                               *)

Insert(w, p, path) == [op |-> "identity", wallet |-> w, profile |-> p, path |-> path]

(* createProfileIdentity().                                                *)
ProfileIdentity(p, name) ==
  LET w == ProfileWallet(name)
  IN <<[op |-> "wallet", wallet |-> w, profile |-> p], Insert(w, p, MasterPath)>>

(* createMarketIdentityForProfile(): the path is the number of markets the *)
(* profile had when it was loaded.                                         *)
MarketIdentity(p, name, n, path) ==
  LET w == MarketWallet(name, n)
  IN <<[op |-> "wallet", wallet |-> w, profile |-> p],
       [op |-> "import", wallet |-> w, path |-> path], Insert(w, p, path)>>

CreateMarket(n, address, p, w, seeds) ==
  [op |-> "market", seeds |-> seeds,
   row |-> [name |-> n, old |-> FALSE, address |-> address, profile |-> p, wallet |-> w]]

(* Mutant: the wallets of the profile are not loaded.                      *)
RestUnloaded(p) == <<[op |-> "seedMarket", profile |-> p]>>

(* bootstrap(), when the default profile is known.                         *)
Rest(p) == <<[op |-> "loadAll", profile |-> p], [op |-> "seedMarket", profile |-> p]>>

Mishap == mishaps < MaxMishaps /\ mishaps' = mishaps + 1
Idle(a) == work[a] = <<>>
Start(a, steps) == Idle(a) /\ work' = [work EXCEPT ![a] = steps]

-----------------------------------------------------------------------------
(* The boot.                                                               *)

(* With an old wallet and a default profile that has no identity the node  *)
(* is upgrading.                                                           *)
IsUpgrading ==
  /\ OldWallet \in DOMAIN wallets /\ settings.profile \in DOMAIN profiles
  /\ ~ HasIdentity(settings.profile)

(* Mutant: the old market keeps its name.                                  *)
UpgradeProfileOnly(p) == ProfileIdentity(p, profiles[p])

(* upgradeDefaultProfile() and upgradeDefaultMarket().                     *)
Upgrade(p) == Append(ProfileIdentity(p, profiles[p]), [op |-> "rename", profile |-> p])

(* seedDefaultProfile(), when the default is not set: the first profile is *)
(* taken and gets what it has not, or it is created.                       *)
SeedProfile(p) ==
  (IF p \notin DOMAIN profiles
   THEN <<[op |-> "addProfile", profile |-> p, name |-> "DEFAULT"]>> \o ProfileIdentity(p, "DEFAULT")
   ELSE IF HasIdentity(p) THEN <<>> ELSE ProfileIdentity(p, profiles[p]))
    \o <<[op |-> "setProfile", profile |-> p]>>

(* bootstrap(); a default profile that is not there makes it throw.        *)
BeginBoot ==
  LET p == settings.profile
      first == Min(DOMAIN profiles \cup {last.profile + 1})
  IN /\ boot = "polling"
     /\ \/ IsUpgrading /\ boot' = "booting" /\ Start("boot", Upgrade(p) \o Rest(p))
        \/ /\ ~ IsUpgrading /\ p = None /\ first <= MaxProfiles /\ boot' = "booting"
           /\ Start("boot", SeedProfile(first) \o Rest(first))
        \/ ~ IsUpgrading /\ p \in DOMAIN profiles /\ boot' = "booting" /\ Start("boot", Rest(p))
        \/ p \notin DOMAIN profiles \cup {None} /\ boot' = "failed" /\ UNCHANGED work
     /\ owed' = (owed \/ Seeded)
     /\ UNCHANGED <<database, core, mishaps>>

(* The unread messages are asked for, and the other commands are served.   *)
FinishBoot ==
  /\ boot = "booting" /\ Idle("boot") /\ boot' = "started" /\ owed' = FALSE
  /\ UNCHANGED <<database, core, work, mishaps>>

-----------------------------------------------------------------------------
(* Commands of the user; the first five are served at any time.            *)

Commanding(c, steps) ==
  /\ Start(c, steps)
  /\ owed' = (owed /\ Seeded)
  /\ UNCHANGED <<database, core, boot, mishaps>>

Seeds == Cardinality({a \in Actor : \E n \in DOMAIN work[a] : work[a][n].op = "market"})

(* Room is left for the default market.                                    *)
Room == last.market + Seeds + 1 < MaxMarkets

(* Mutant: the identity may be of another profile.                         *)
MarketAddAnyIdentity(c, p, n, address, skipJoin) ==
  LET row(w) == CreateMarket(n, address, p, w, FALSE)
      made == MarketWallet(profiles[p], n)
  IN /\ Room /\ \A m \in OfProfile(p) : markets[m].name # n \/ markets[m].old
     /\ \/ /\ skipJoin
           /\ Commanding(c, <<[op |-> "unjoined", name |-> n, address |-> address],
                              CreateMarket(n, address, None, NoWallet, FALSE)>>)
        \/ /\ ~ skipJoin
           /\ Commanding(c, Append(MarketIdentity(p, profiles[p], n, Cardinality(OfProfile(p))),
                                   row(made)))
        \/ /\ ~ skipJoin
           /\ \E i \in identities : Commanding(c, <<row(i.wallet)>>)

(* checkForDuplicateMarketName(), and the identity has to be the profile's. *)
MarketAdd(c, p, n, address, skipJoin) ==
  LET row(w) == CreateMarket(n, address, p, w, FALSE)
      made == MarketWallet(profiles[p], n)
  IN /\ Room /\ \A m \in OfProfile(p) : markets[m].name # n \/ markets[m].old
     /\ \/ /\ skipJoin
           /\ Commanding(c, <<[op |-> "unjoined", name |-> n, address |-> address],
                              CreateMarket(n, address, None, NoWallet, FALSE)>>)
        \/ /\ ~ skipJoin
           /\ Commanding(c, Append(MarketIdentity(p, profiles[p], n, Cardinality(OfProfile(p))),
                                   row(made)))
        \/ /\ ~ skipJoin
           /\ \E i \in identities : i.profile = p /\ Commanding(c, <<row(i.wallet)>>)

(* Only a market that nobody has joined; "already joined" is looked for    *)
(* and the answer ignored.                                                 *)
MarketJoin(c, p, m) ==
  LET n == markets[m].name
      row(w) == CreateMarket(n, markets[m].address, p, w, FALSE)
  IN /\ Room /\ markets[m].profile = None
     /\ \/ Commanding(c, Append(MarketIdentity(p, profiles[p], n, Cardinality(OfProfile(p))),
                                row(MarketWallet(profiles[p], n))))
        \/ \E i \in identities : i.profile = p /\ Commanding(c, <<row(i.wallet)>>)

(* Mutant: the default market is removed like any other.                   *)
MarketRemoveAny(c, m) ==
  /\ settings.profile \in DOMAIN profiles
  /\ settings.market[settings.profile] \in DOMAIN markets
  /\ Commanding(c, <<[op |-> "destroy", market |-> m]>>)

(* The default market of the default profile has to be known, and another. *)
MarketRemove(c, m) ==
  /\ settings.profile \in DOMAIN profiles
  /\ settings.market[settings.profile] \in DOMAIN markets \ {m}
  /\ Commanding(c, <<[op |-> "destroy", market |-> m]>>)

MarketDefault(c, p, m) ==
  /\ markets[m].profile = p
  /\ Commanding(c, <<[op |-> "setMarket", profile |-> p, market |-> m]>>)

(* Without a market the command returns the default, and makes it if need be. *)
MarketDefaultGet(c, p) ==
  /\ settings.market[p] = None
  /\ Commanding(c, <<[op |-> "seedMarket", profile |-> p]>>)

IdentityAdd(c, p, n) ==
  /\ boot = "started"
  /\ Commanding(c, MarketIdentity(p, profiles[p], n, Cardinality(OfProfile(p))))

(* With force, an existing wallet of that name is taken.  The row's id is  *)
(* named when the command begins, so one profile is added at a time.       *)
ProfileAdd(c, name) ==
  /\ boot = "started" /\ last.profile < MaxProfiles /\ name \notin Range(profiles)
  /\ \A b \in Clients : \A n \in DOMAIN work[b] : work[b][n].op # "addProfile"
  /\ Commanding(c, <<[op |-> "addProfile", profile |-> last.profile + 1, name |-> name]>>
                     \o ProfileIdentity(last.profile + 1, name))

ProfileDefault(c, p) ==
  /\ boot = "started" /\ Idle(c)
  /\ settings' = [settings EXCEPT !.profile = p]
  /\ UNCHANGED <<profiles, identities, markets, last, core, boot, work, owed, mishaps>>

(* Identities lose their profile, its settings go; markets keep the id.    *)
ProfileRemove(c, p) ==
  /\ boot = "started" /\ Idle(c)
  /\ profiles' = [q \in DOMAIN profiles \ {p} |-> profiles[q]]
  /\ identities' = {IF i.profile = p THEN [i EXCEPT !.profile = None] ELSE i : i \in identities}
  /\ settings' = [settings EXCEPT !.market[p] = None]
  /\ UNCHANGED <<markets, last, core, boot, work, owed, mishaps>>

(* The key and the value are any; only what the two defaults become is     *)
(* looked at.                                                              *)
SettingSet(c, p) ==
  /\ boot = "started" /\ Idle(c) /\ Mishap
  /\ \/ \E m \in Mid : settings' = [settings EXCEPT !.market[p] = m]
     \/ \E q \in Pid : settings' = [settings EXCEPT !.profile = q]
  /\ UNCHANGED <<profiles, identities, markets, last, core, boot, work, owed>>

(* A default's row goes, at a command or with the market it was set for;   *)
(* a row of the same key behind it counts as set again.                    *)
SettingRemove ==
  /\ Mishap
  /\ \/ settings' = [settings EXCEPT !.profile = None]
     \/ \E p \in Pid : settings' = [settings EXCEPT !.market[p] = None]
  /\ owed' = FALSE
  /\ UNCHANGED <<profiles, identities, markets, last, core, boot, work>>

-----------------------------------------------------------------------------
(* Markets of others: promoted by a message, destroyed when they expire.   *)

ReceiveMarketAdd(n, address) ==
  /\ Room /\ last' = [last EXCEPT !.market = @ + 1]
  /\ markets' = [m \in DOMAIN markets \cup {last'.market} |->
                   IF m = last'.market
                   THEN [name |-> n, old |-> FALSE, address |-> address, profile |-> None,
                         wallet |-> NoWallet]
                   ELSE markets[m]]
  /\ UNCHANGED <<profiles, identities, settings, core, boot, work, owed, mishaps>>

Destroyed(m) == [k \in DOMAIN markets \ {m} |-> markets[k]]

ExpireMarket(m) ==
  /\ markets[m].profile = None /\ markets' = Destroyed(m)
  /\ UNCHANGED <<profiles, identities, settings, last, core, boot, work, owed, mishaps>>

(* A vote on markets has ended: the flagged ones go, the default one too.  *)
(* (One that nobody has joined goes as if it had expired.)                 *)
VotedOut(m) ==
  /\ markets[m].profile # None /\ Mishap
  /\ markets' = Destroyed(m) /\ owed' = FALSE
  /\ UNCHANGED <<profiles, identities, settings, last, core, boot, work>>

-----------------------------------------------------------------------------
(* Steps.  A step that throws ends its program; start() takes a boot that  *)
(* threw for one that is done.                                             *)

Running(a, op) == work[a] # <<>> /\ Head(work[a]).op = op
Replace(a, steps) == work' = [work EXCEPT ![a] = steps \o Tail(@)] /\ UNCHANGED boot
Done(a) == Replace(a, <<>>)
Threw(a) ==
  /\ work' = [work EXCEPT ![a] = <<>>]
  /\ boot' = IF a = "boot" THEN "failed" ELSE boot

(* What the step needs is there, or it throws.                             *)
Finds(a, there) == IF there THEN Done(a) ELSE Threw(a)

AddProfile(a) ==
  LET s == Head(work[a])
      fits == s.name \notin Range(profiles)
  IN /\ Running(a, "addProfile") /\ Finds(a, fits)
     /\ profiles' = IF fits THEN [p \in DOMAIN profiles \cup {s.profile} |->
                                    IF p = s.profile THEN s.name ELSE profiles[p]] ELSE profiles
     /\ last' = IF fits THEN [last EXCEPT !.profile = s.profile] ELSE last
     /\ UNCHANGED <<identities, markets, settings, core>>

SetProfile(a) ==
  /\ Running(a, "setProfile") /\ Done(a)
  /\ settings' = [settings EXCEPT !.profile = Head(work[a]).profile]
  /\ UNCHANGED <<profiles, identities, markets, last, core>>

(* upgradeDefaultMarket(): the first market gets another name.             *)
RenameMarket(a) ==
  LET mine == OfProfile(Head(work[a]).profile)
  IN /\ Running(a, "rename") /\ Finds(a, mine # {})
     /\ markets' = IF mine = {} THEN markets ELSE [markets EXCEPT ![Min(mine)].old = TRUE]
     /\ UNCHANGED <<profiles, identities, settings, last, core>>

(* loadWalletsForProfile(): a wallet that cannot be loaded is left.        *)
LoadWallets(a) ==
  LET p == Head(work[a]).profile
  IN /\ Running(a, "loadAll") /\ Done(a)
     /\ loaded' = loaded \cup {w \in DOMAIN wallets :
                                 \E i \in identities : i.profile = p /\ i.wallet = w}
     /\ UNCHANGED <<database, wallets, listening>>

(* seedDefaultMarketForProfile(): a default market that is not set, or not *)
(* there, is made.                                                         *)
SeedMarket(a) ==
  LET p == Head(work[a]).profile
      steps == Append(MarketIdentity(p, profiles[p], IdentityName, 0),
                      CreateMarket("default", "default", p,
                                   MarketWallet(profiles[p], IdentityName), TRUE))
  IN /\ Running(a, "seedMarket")
     /\ \/ p \notin DOMAIN profiles /\ Threw(a)
        \/ /\ p \in DOMAIN profiles
           /\ Replace(a, IF settings.market[p] \in DOMAIN markets THEN <<>> ELSE steps)
     /\ UNCHANGED <<database, core>>

(* The key of a market comes from the wallet of the profile's identity.    *)
CanDerive(p) == \E i \in identities : i.profile = p /\ i.path = MasterPath /\ i.wallet \in loaded

(* Mutant: the wallet is taken to exist.                                   *)
OpenWalletUnseen(a) ==
  /\ Running(a, "wallet") /\ Done(a)
  /\ loaded' = loaded \cup {Head(work[a]).wallet}
  /\ UNCHANGED <<database, wallets, listening>>

(* createOrLoadWalletAndReturnCreated(): only a profile's wallet that is   *)
(* created gets a new mnemonic.                                            *)
OpenWallet(a) ==
  LET s == Head(work[a])
      ofProfile == s.wallet.market = "none"
      genesis == IF ofProfile THEN <<[op |-> "genesis", wallet |-> s.wallet]>> ELSE <<>>
      exists == s.wallet \in DOMAIN wallets
  IN /\ Running(a, "wallet")
     /\ \/ /\ ~ (ofProfile \/ CanDerive(s.profile)) /\ Threw(a) /\ UNCHANGED loaded
        \/ /\ ofProfile \/ CanDerive(s.profile)
           /\ Replace(a, IF exists THEN <<>> ELSE <<[op |-> "create", wallet |-> s.wallet]>> \o genesis)
           /\ loaded' = IF exists THEN loaded \cup {s.wallet} ELSE loaded
     /\ UNCHANGED <<database, wallets, listening>>

With(w, keys) == [v \in DOMAIN wallets \cup {w} |-> IF v = w THEN keys ELSE wallets[v]]

CreateWallet(a) ==
  LET w == Head(work[a]).wallet
  IN /\ Running(a, "create") /\ Finds(a, w \notin DOMAIN wallets)
     /\ wallets' = IF w \in DOMAIN wallets THEN wallets
                   ELSE With(w, [paths |-> {}, account |-> FALSE])
     /\ loaded' = loaded \cup {w}
     /\ UNCHANGED <<database, listening>>

extKeyGenesisImport(a) ==
  /\ Running(a, "genesis") /\ Done(a)
  /\ wallets' = With(Head(work[a]).wallet, [paths |-> {MasterPath}, account |-> TRUE])
  /\ UNCHANGED <<database, loaded, listening>>

(* A key that has already been imported is taken to have its account.      *)
extKeyImport(a) ==
  LET s == Head(work[a])
      there == s.path \in wallets[s.wallet].paths
  IN /\ Running(a, "import")
     /\ Replace(a, IF there THEN <<>> ELSE <<[op |-> "account", wallet |-> s.wallet]>>)
     /\ wallets' = With(s.wallet, [wallets[s.wallet] EXCEPT !.paths = @ \cup {s.path}])
     /\ UNCHANGED <<database, loaded, listening>>

DeriveAccount(a) ==
  LET w == Head(work[a]).wallet
  IN /\ Running(a, "account") /\ Done(a)
     /\ wallets' = With(w, [wallets[w] EXCEPT !.account = TRUE])
     /\ UNCHANGED <<database, loaded, listening>>

(* Mutant: a wallet without an account will do.                            *)
InsertIdentityAnyway(a) ==
  LET s == Head(work[a])
      fits == /\ s.profile \in DOMAIN profiles
              /\ \A i \in identities : i.wallet # s.wallet
  IN /\ Running(a, "identity") /\ Finds(a, fits)
     /\ identities' = IF fits THEN identities \cup {[wallet |-> s.wallet, profile |-> s.profile,
                                                     path |-> s.path]} ELSE identities
     /\ UNCHANGED <<profiles, markets, settings, last, core>>

(* The address of an identity is of its wallet's account; identities with  *)
(* the same wallet, or of a profile that is gone, are refused.             *)
InsertIdentity(a) ==
  LET s == Head(work[a])
      fits == /\ wallets[s.wallet].account /\ s.profile \in DOMAIN profiles
              /\ \A i \in identities : i.wallet # s.wallet
  IN /\ Running(a, "identity") /\ Finds(a, fits)
     /\ identities' = IF fits THEN identities \cup {[wallet |-> s.wallet, profile |-> s.profile,
                                                     path |-> s.path]} ELSE identities
     /\ UNCHANGED <<profiles, markets, settings, last, core>>

LookForUnjoined(a) ==
  LET s == Head(work[a])
  IN /\ Running(a, "unjoined")
     /\ Finds(a, \A m \in OfProfile(None) :
                   <<markets[m].name, markets[m].address>> # <<s.name, s.address>>)
     /\ UNCHANGED <<database, core>>

(* The names of a profile's markets differ; a market that has an identity  *)
(* is joined, and the default one is set after that.                       *)
InsertMarket(a) ==
  LET s == Head(work[a])
      p == s.row.profile
      fits == p = None \/ \A m \in OfProfile(p) :
                            <<markets[m].name, markets[m].old>> # <<s.row.name, FALSE>>
      m == last.market + 1
      join == IF p = None THEN <<>> ELSE <<[op |-> "join", market |-> m]>>
      set == IF s.seeds THEN <<[op |-> "setMarket", profile |-> p, market |-> m]>> ELSE <<>>
  IN /\ Running(a, "market") /\ last.market < MaxMarkets
     /\ \/ /\ fits /\ Replace(a, join \o set)
           /\ markets' = [k \in DOMAIN markets \cup {m} |-> IF k = m THEN s.row ELSE markets[k]]
           /\ last' = [last EXCEPT !.market = m]
        \/ ~ fits /\ Threw(a) /\ UNCHANGED <<markets, last>>
     /\ UNCHANGED <<profiles, identities, settings, core>>

(* joinMarket(): the wallet is loaded, the keys are imported.              *)
JoinMarket(a) ==
  LET m == Head(work[a]).market
  IN /\ Running(a, "join") /\ Finds(a, m \in DOMAIN markets)
     /\ loaded' = loaded \cup {markets[k].wallet : k \in {m} \cap DOMAIN markets}
     /\ listening' = listening \cup {markets[k].address : k \in {m} \cap DOMAIN markets}
     /\ UNCHANGED <<database, wallets>>

SetMarket(a) ==
  LET s == Head(work[a])
      fits == s.profile \in DOMAIN profiles
  IN /\ Running(a, "setMarket") /\ Finds(a, fits)
     /\ settings' = IF fits THEN [settings EXCEPT !.market[s.profile] = s.market] ELSE settings
     /\ UNCHANGED <<profiles, identities, markets, last, core>>

(* A market that a proposal has flagged is refused, too.                   *)
DestroyMarket(a) ==
  LET m == Head(work[a]).market
  IN /\ Running(a, "destroy")
     /\ \/ m \in DOMAIN markets /\ Done(a) /\ markets' = Destroyed(m)
        \/ Threw(a) /\ UNCHANGED markets
     /\ UNCHANGED <<profiles, identities, settings, last, core>>

Proceed(a) ==
  /\ \/ AddProfile(a) \/ SetProfile(a) \/ RenameMarket(a) \/ LoadWallets(a) \/ SeedMarket(a)
     \/ OpenWallet(a) \/ CreateWallet(a) \/ extKeyGenesisImport(a) \/ extKeyImport(a)
     \/ DeriveAccount(a) \/ InsertIdentity(a) \/ LookForUnjoined(a) \/ InsertMarket(a)
     \/ JoinMarket(a) \/ SetMarket(a) \/ DestroyMarket(a)
  /\ UNCHANGED <<owed, mishaps>>

CoreCalls ==
  {"wallet", "create", "genesis", "import", "account", "identity", "market", "join"}

(* Core does not answer.                                                   *)
Fault(a) ==
  /\ Mishap
  /\ \E op \in CoreCalls : Running(a, op)
  /\ Threw(a) /\ owed' = (owed /\ a # "boot")
  /\ UNCHANGED <<database, core>>

(* The process stops and is started again, core with it or not.            *)
Crash ==
  /\ Mishap
  /\ boot' = "polling" /\ work' = [a \in Actor |-> <<>>]
  /\ owed' = (owed /\ boot = "polling")
  /\ loaded' \in {loaded, {}}
  /\ UNCHANGED <<database, wallets, listening>>

Next ==
  \/ BeginBoot \/ FinishBoot \/ Crash
  \/ \E a \in Actor : Proceed(a) \/ Fault(a)
  \/ \E c \in Clients, p \in DOMAIN profiles :
       \/ \E n \in MarketName, address \in Address, skip \in BOOLEAN : MarketAdd(c, p, n, address, skip)
       \/ \E m \in DOMAIN markets : MarketJoin(c, p, m) \/ MarketDefault(c, p, m)
       \/ MarketDefaultGet(c, p) \/ ProfileDefault(c, p) \/ ProfileRemove(c, p)
       \/ SettingSet(c, p)
       \/ \E n \in MarketName : IdentityAdd(c, p, n)
  \/ \E c \in Clients : \E m \in DOMAIN markets : MarketRemove(c, m)
  \/ \E c \in Clients, name \in ProfileName : ProfileAdd(c, name)
  \/ \E n \in MarketName, address \in Address : ReceiveMarketAdd(n, address)
  \/ \E m \in DOMAIN markets : ExpireMarket(m) \/ VotedOut(m)
  \/ SettingRemove

Spec == Init /\ [][Next]_vars

FairSpec == Spec /\ WF_vars(BeginBoot) /\ WF_vars(FinishBoot) /\ WF_vars(Proceed("boot"))

-----------------------------------------------------------------------------
Usable(i) == wallets[i.wallet].account /\ i.path \in wallets[i.wallet].paths

(* Wherever the node stops, an identity that has a row has a wallet with   *)
(* the key of its path and an account: the row comes last.                 *)
IdentityUsable == \A i \in identities : i.wallet \in DOMAIN wallets /\ Usable(i)

(* A market belongs to the profile whose identity it was joined with.      *)
MarketOfIdentity ==
  \A p \in DOMAIN profiles : \A m \in OfProfile(p) :
    \E i \in identities : i.profile = p /\ i.wallet = markets[m].wallet

(* What takes a default away whoever needs it.                             *)
Overriding ==
  \/ SettingRemove \/ \E c \in Clients, p \in DOMAIN profiles : SettingSet(c, p)
  \/ \E m \in DOMAIN markets : VotedOut(m)

(* What the boot has set up stays: no command of markets and nothing that  *)
(* others send takes the default market or its identity away, but the end  *)
(* of a vote on it or a change of the settings themselves.  (One client:   *)
(* another may, or during the boot any may, remove the market that is      *)
(* about to become the default one, as the command looks before and not    *)
(* when it destroys.)                                                      *)
StaysSeeded ==
  [][Seeded /\ boot # "booting" /\ profiles' = profiles /\ settings'.profile = settings.profile
     /\ ~ Overriding => Seeded']_vars

(* When a boot has succeeded that no client disturbed, the default profile *)
(* can work: its wallets are loaded and it has a default market, which it  *)
(* has joined unless the node stopped or core did not answer before.       *)
BootReady ==
  [][boot' = "started" /\ boot # "started" /\ owed =>
       /\ Seeded'
       /\ \A i \in identities : i.profile = settings.profile => i.wallet \in loaded
       /\ mishaps = 0 =>
            markets[settings.market[settings.profile]].address \in listening]_vars

(* A first boot that nothing disturbs, and every boot of a node that has   *)
(* its default profile and market, ends with the server started.           *)
OwedStarts == boot = "booting" /\ owed ~> boot = "started" \/ ~ owed
=============================================================================
