--------------------------- MODULE MarketsProofs ---------------------------
(***************************************************************************)
(* Type correctness and the safety properties of Markets, proved for every *)
(* set of clients and names, every bound and every installation.  Nothing  *)
(* here is one transaction, so the invariant speaks of the programs, too:  *)
(* a step that relies on a wallet, a key, an identity or a market comes    *)
(* after the step that makes it, in the database or in the same program.   *)
(***************************************************************************)
EXTENDS Markets, FiniteSetTheorems, SequenceTheorems, WellFoundedInduction, TLAPS

ShopWallet == {w \in Wallet : w.market # "none"}

(* The steps that programs are made of.  Only wallets of markets get a key *)
(* imported and an account derived; that of a profile has its genesis.     *)
Step ==
  [op : {"addProfile"}, profile : Pid, name : ProfileName]
    \cup [op : {"wallet"}, wallet : Wallet, profile : Pid]
    \cup [op : {"create"}, wallet : Wallet]
    \cup [op : {"genesis"}, wallet : Wallet \ ShopWallet]
    \cup [op : {"import"}, wallet : ShopWallet, path : Path]
    \cup [op : {"account"}, wallet : ShopWallet]
    \cup [op : {"identity"}, wallet : ShopWallet, profile : Pid, path : Path]
    \cup [op : {"identity"}, wallet : Wallet \ ShopWallet, profile : Pid, path : {MasterPath}]
    \cup [op : {"rename", "setProfile", "loadAll", "seedMarket"}, profile : Pid]
    \cup [op : {"unjoined"}, name : Names, address : Addresses]
    \cup [op : {"market"}, seeds : {FALSE}, row : Market]
    \cup [op : {"market"}, seeds : {TRUE}, row : {r \in Market : r.profile # None}]
    \cup [op : {"join", "destroy"}, market : Mid]
    \cup [op : {"setMarket"}, profile : Pid, market : Mid]

(* Facts that a step relies on, or that it makes true: the wallet is       *)
(* loaded, it has the key, a profile has the identity, a market is joined. *)
Fact == [about : {"wallet", "key", "identity", "market"},
         wallet : Wallet \cup {NoWallet}, id : Nat]
OfWallet(w) == [about |-> "wallet", wallet |-> w, id |-> 0]
OfKey(w, path) == [about |-> "key", wallet |-> w, id |-> path]
OfIdentity(p, w) == [about |-> "identity", wallet |-> w, id |-> p]
OfMarket(m) == [about |-> "market", wallet |-> NoWallet, id |-> m]

(* A profile has joined with this wallet, unless it was removed since.     *)
Joined(p, w) ==
  /\ p <= last.profile
  /\ \E i \in identities : i.wallet = w /\ (p \in DOMAIN profiles => i.profile = p)

There ==
  {f \in Fact :
     \/ f.about = "wallet" /\ f.wallet \in loaded
     \/ /\ f.about = "key" /\ f.wallet \in ShopWallet \cap DOMAIN wallets
        /\ f.id \in wallets[f.wallet].paths
     \/ f.about = "identity" /\ Joined(f.id, f.wallet)
     \/ /\ f.about = "market" /\ f.id <= last.market
        /\ f.id \in DOMAIN markets => markets[f.id].profile # None}

Needs(step) ==
  CASE step.op \in {"import", "account"} -> {OfWallet(step.wallet)}
    [] step.op = "identity" ->
         {OfWallet(step.wallet)}
           \cup {OfKey(w, step.path) : w \in {step.wallet} \cap ShopWallet}
    [] step.op = "market" ->
         {OfIdentity(p, step.row.wallet) : p \in {step.row.profile} \ {None}}
    [] step.op = "join" -> {OfMarket(step.market)}
    [] OTHER -> {}
Gives(step) ==
  CASE step.op \in {"wallet", "create"} -> {OfWallet(step.wallet)}
    [] step.op = "import" -> {OfKey(step.wallet, step.path)}
    [] step.op = "identity" -> {OfIdentity(step.profile, step.wallet)}
    [] OTHER -> {}

(* Whatever a step of the program needs is there, or a step before it      *)
(* makes it.                                                               *)
Backed(steps, there) ==
  \A k \in DOMAIN steps : \A f \in Needs(steps[k]) :
    f \in there \/ \E j \in 1 .. k - 1 : f \in Gives(steps[j])

Programs ==
  /\ work \in [Actor -> Seq(Step)]
  /\ \A a \in Actor : Backed(work[a], There)

(* One program at a time adds a profile, as its first step and with the    *)
(* next id: the boot's, or a client's when there is no boot any more.      *)
Adding ==
  \A a \in Actor : \A k \in DOMAIN work[a] : work[a][k].op = "addProfile" =>
    /\ k = 1 /\ work[a][k].profile = last.profile + 1
    /\ a # "boot" => boot = "started"
    /\ \A b \in Actor \ {a} : \A j \in DOMAIN work[b] : work[b][j].op # "addProfile"

(* The boot has work only while it runs.                                   *)
Booting == work["boot"] # <<>> => boot = "booting"

(* The wallet of a profile gets its account and its master key at once.    *)
MasterKeys ==
  /\ \A w \in DOMAIN wallets \ ShopWallet : wallets[w].account => MasterPath \in wallets[w].paths
  /\ \A i \in identities : i.wallet \notin ShopWallet => i.path = MasterPath

(* Every market that a profile has joined has an identity of that profile, *)
(* or of none where the profile is gone.                                   *)
MarketsJoined ==
  \A m \in DOMAIN markets : markets[m].profile # None => Joined(markets[m].profile, markets[m].wallet)

IInv == /\ TypeOK /\ Programs /\ Adding /\ Booting
        /\ IdentityUsable /\ MasterKeys /\ MarketsJoined

-----------------------------------------------------------------------------
(* Programs as sequences: what may be put together from what.              *)
NoAdd(steps) == \A k \in DOMAIN steps : steps[k].op # "addProfile"
Program(steps, there) == steps \in Seq(Step) /\ Backed(steps, there) /\ NoAdd(steps)

(* A program stays backed when more becomes true.                          *)
LEMMA BackedMono ==
  ASSUME NEW s, NEW there, NEW there2, there \subseteq there2, Backed(s, there)
  PROVE  Backed(s, there2)
BY DEF Backed

(* One program after the other.                                            *)
LEMMA Concatenated ==
  ASSUME NEW there, NEW s, NEW t, Program(s, there), Program(t, there)
  PROVE  Program(s \o t, there)
<1>0. s \in Seq(Step) /\ t \in Seq(Step)
  BY DEF Program
<1>1. /\ s \o t \in Seq(Step) /\ Len(s) \in Nat /\ Len(t) \in Nat
      /\ DOMAIN s = 1 .. Len(s) /\ DOMAIN t = 1 .. Len(t)
      /\ DOMAIN (s \o t) = 1 .. Len(s) + Len(t)
      /\ \A i \in 1 .. Len(s) + Len(t) :
           (s \o t)[i] = IF i <= Len(s) THEN s[i] ELSE t[i - Len(s)]
  BY <1>0, ConcatProperties, LenProperties
<1>2. ASSUME NEW k \in DOMAIN (s \o t)
      PROVE  /\ (s \o t)[k].op # "addProfile"
             /\ \A f \in Needs((s \o t)[k]) :
                  f \in there \/ \E j \in 1 .. k - 1 : f \in Gives((s \o t)[j])
  <2>1. CASE k <= Len(s)
    <3>1. k \in DOMAIN s /\ (s \o t)[k] = s[k] /\ \A j \in 1 .. k - 1 : (s \o t)[j] = s[j]
      BY <1>1, <2>1
    <3>2. s[k].op # "addProfile"
      BY <3>1 DEF Program, NoAdd
    <3>3. \A f \in Needs(s[k]) : f \in there \/ \E j \in 1 .. k - 1 : f \in Gives(s[j])
      BY <3>1 DEF Program, Backed
    <3> QED
      BY <3>1, <3>2, <3>3
  <2>2. CASE k > Len(s)
    <3> DEFINE i == k - Len(s)
    <3>1. i \in DOMAIN t /\ (s \o t)[k] = t[i]
      BY <1>1, <2>2
    <3>2. \A j \in 1 .. i - 1 : /\ j + Len(s) \in 1 .. k - 1
                              /\ (s \o t)[j + Len(s)] = t[j]
      BY <1>1, <2>2
    <3> HIDE DEF i
    <3>3. t[i].op # "addProfile"
      BY <3>1 DEF Program, NoAdd
    <3>4. \A f \in Needs(t[i]) : f \in there \/ \E j \in 1 .. i - 1 : f \in Gives(t[j])
      BY <3>1 DEF Program, Backed
    <3>5. ASSUME NEW f \in Needs((s \o t)[k])
          PROVE  f \in there \/ \E j \in 1 .. k - 1 : f \in Gives((s \o t)[j])
      <4>1. f \in there \/ \E j \in 1 .. i - 1 : f \in Gives(t[j])
        BY <3>1, <3>4, <3>5
      <4>2. ASSUME NEW j \in 1 .. i - 1, f \in Gives(t[j])
            PROVE  \E h \in 1 .. k - 1 : f \in Gives((s \o t)[h])
        <5>1. j + Len(s) \in 1 .. k - 1 /\ (s \o t)[j + Len(s)] = t[j]
          BY <3>2
        <5> QED
          BY <4>2, <5>1
      <4> QED
        BY <4>1, <4>2
    <3>6. (s \o t)[k].op # "addProfile"
      BY <3>1, <3>3
    <3> QED
      BY <3>5, <3>6
  <2>3. k <= Len(s) \/ k > Len(s)
    BY <1>1
  <2> QED
    BY <2>1, <2>2, <2>3
<1> QED
  BY <1>1, <1>2 DEF Program, NoAdd, Backed

(* One step more, at the end.                                              *)
LEMMA Appended ==
  ASSUME NEW there, NEW s, Program(s, there), NEW x \in Step, x.op # "addProfile",
         \A f \in Needs(x) : f \in there \/ \E j \in 1 .. Len(s) : f \in Gives(s[j])
  PROVE  Program(Append(s, x), there)
<1>0. s \in Seq(Step)
  BY DEF Program
<1>1. /\ Append(s, x) \in Seq(Step) /\ Len(s) \in Nat /\ DOMAIN s = 1 .. Len(s)
      /\ DOMAIN Append(s, x) = 1 .. Len(s) + 1
      /\ \A i \in 1 .. Len(s) : Append(s, x)[i] = s[i]
      /\ Append(s, x)[Len(s) + 1] = x
  BY <1>0, AppendProperties, LenProperties
<1>2. ASSUME NEW k \in 1 .. Len(s) + 1
      PROVE  /\ Append(s, x)[k].op # "addProfile"
             /\ \A f \in Needs(Append(s, x)[k]) :
                  f \in there \/ \E j \in 1 .. k - 1 : f \in Gives(Append(s, x)[j])
  <2>1. CASE k <= Len(s)
    <3>1. /\ k \in DOMAIN s /\ Append(s, x)[k] = s[k]
          /\ \A j \in 1 .. k - 1 : Append(s, x)[j] = s[j]
      BY <1>1, <2>1
    <3> QED
      BY <3>1 DEF Program, NoAdd, Backed
  <2>2. CASE k = Len(s) + 1
    <3>1. Append(s, x)[k] = x /\ 1 .. k - 1 = 1 .. Len(s)
      BY <1>1, <2>2
    <3> QED
      BY <1>1, <3>1
  <2> QED
    BY <1>1, <2>1, <2>2
<1> QED
  BY <1>1, <1>2 DEF Program, NoAdd, Backed

(* No step, and one that needs nothing but what is there.                  *)
LEMMA ShortPrograms ==
  /\ \A there : Program(<<>>, there)
  /\ \A there : \A x \in Step : x.op # "addProfile" /\ Needs(x) \subseteq there =>
       Program(<<x>>, there)
<1>1. \A there : Program(<<>>, there)
  BY DEF Program, Backed, NoAdd
<1>2. \A x \in Step : /\ <<x>> \in Seq(Step) /\ DOMAIN <<x>> = {1} /\ <<x>>[1] = x
  OBVIOUS
<1> QED
  BY <1>1, <1>2 DEF Program, Backed, NoAdd

(* When its first step is replaced by others that make true what it would  *)
(* have made, the rest of a program has what it needs.                     *)
LEMMA BackedReplaced ==
  ASSUME NEW s \in Seq(Step), s # <<>>, NEW t, NEW there, NEW there2,
         there \subseteq there2, Backed(s, there), Program(t, there2),
         \A f \in Gives(Head(s)) : f \in there2 \/ \E j \in 1 .. Len(t) : f \in Gives(t[j])
  PROVE  /\ t \o Tail(s) \in Seq(Step) /\ Backed(t \o Tail(s), there2)
         /\ \A k \in DOMAIN (t \o Tail(s)) :
              \/ (t \o Tail(s))[k].op # "addProfile"
              \/ \E i \in DOMAIN s \ {1} : (t \o Tail(s))[k] = s[i]
         /\ \A i \in DOMAIN s \ {1} : \E k \in DOMAIN (t \o Tail(s)) : (t \o Tail(s))[k] = s[i]
<1> DEFINE u == t \o Tail(s)
<1>0. t \in Seq(Step) /\ Backed(t, there2) /\ NoAdd(t)
  BY DEF Program
<1>1. /\ Tail(s) \in Seq(Step) /\ Len(s) \in Nat \ {0} /\ DOMAIN s = 1 .. Len(s)
      /\ Len(Tail(s)) = Len(s) - 1 /\ s[1] = Head(s)
      /\ \A i \in 1 .. Len(s) - 1 : Tail(s)[i] = s[i + 1]
  BY HeadTailProperties, LenProperties, EmptySeq
<1>2. /\ u \in Seq(Step) /\ Len(t) \in Nat /\ DOMAIN t = 1 .. Len(t)
      /\ Len(u) = Len(t) + Len(s) - 1 /\ DOMAIN u = 1 .. Len(u)
      /\ \A i \in 1 .. Len(u) : u[i] = IF i <= Len(t) THEN t[i] ELSE Tail(s)[i - Len(t)]
  BY <1>0, <1>1, ConcatProperties, LenProperties
<1>3. \A i \in 1 .. Len(t) : i \in DOMAIN u /\ u[i] = t[i]
  BY <1>1, <1>2
<1>4. \A i \in DOMAIN s \ {1} : Len(t) + i - 1 \in DOMAIN u /\ u[Len(t) + i - 1] = s[i]
  BY <1>1, <1>2
<1>5. \A k \in DOMAIN u : k \in 1 .. Len(t) \/ \E i \in DOMAIN s \ {1} : k = Len(t) + i - 1
  <2> SUFFICES ASSUME NEW k \in DOMAIN u, k > Len(t)
               PROVE  \E i \in DOMAIN s \ {1} : k = Len(t) + i - 1
    BY <1>2
  <2>1. k - Len(t) + 1 \in DOMAIN s \ {1} /\ k = Len(t) + (k - Len(t) + 1) - 1
    BY <1>1, <1>2
  <2> QED
    BY <2>1
<1> HIDE DEF u
<1>6. ASSUME NEW k \in DOMAIN u, NEW f \in Needs(u[k])
      PROVE  f \in there2 \/ \E j \in 1 .. k - 1 : f \in Gives(u[j])
  <2>1. CASE k \in 1 .. Len(t)
    <3>1. \A j \in 1 .. k - 1 : u[j] = t[j]
      BY <1>2, <1>3, <2>1
    <3> QED
      BY <1>0, <1>2, <1>3, <1>6, <2>1, <3>1 DEF Backed
  <2>2. ASSUME NEW i \in DOMAIN s \ {1}, k = Len(t) + i - 1
        PROVE  f \in there2 \/ \E j \in 1 .. k - 1 : f \in Gives(u[j])
    <3>1. f \in there \/ \E j \in 1 .. i - 1 : f \in Gives(s[j])
      BY <1>4, <1>6, <2>2 DEF Backed
    <3>2. ASSUME NEW j \in 1 .. i - 1, f \in Gives(s[j])
          PROVE  f \in there2 \/ \E l \in 1 .. k - 1 : f \in Gives(u[l])
      <4>1. CASE j = 1
        <5>1. f \in there2 \/ \E l \in 1 .. Len(t) : f \in Gives(t[l])
          BY <1>1, <3>2, <4>1
        <5>2. \A l \in 1 .. Len(t) : l \in 1 .. k - 1
          BY <1>1, <1>2, <2>2
        <5> QED
          BY <1>3, <5>1, <5>2
      <4>2. CASE j # 1
        <5>1. j \in DOMAIN s \ {1} /\ Len(t) + j - 1 \in 1 .. k - 1
          BY <1>1, <1>2, <2>2, <3>2, <4>2
        <5> QED
          BY <1>4, <3>2, <5>1
      <4> QED
        BY <4>1, <4>2
    <3> QED
      BY <3>1, <3>2
  <2> QED
    BY <1>5, <2>1, <2>2
<1>7. \A k \in DOMAIN u : u[k].op # "addProfile" \/ \E i \in DOMAIN s \ {1} : u[k] = s[i]
  BY <1>0, <1>2, <1>3, <1>4, <1>5 DEF NoAdd
<1>8. u \in Seq(Step) /\ Backed(u, there2)
  BY <1>2, <1>6 DEF Backed
<1> QED
  BY <1>4, <1>7, <1>8 DEF u

-----------------------------------------------------------------------------
(* The steps of each kind are steps, and have the kinds they say.          *)
LEMMA StepKinds ==
  /\ \A p \in Pid, name \in ProfileName : [op |-> "addProfile", profile |-> p, name |-> name] \in Step
  /\ \A p \in Pid, w \in Wallet : [op |-> "wallet", wallet |-> w, profile |-> p] \in Step
  /\ \A w \in Wallet : [op |-> "create", wallet |-> w] \in Step
  /\ \A w \in Wallet \ ShopWallet : [op |-> "genesis", wallet |-> w] \in Step
  /\ \A w \in ShopWallet, path \in Path : [op |-> "import", wallet |-> w, path |-> path] \in Step
  /\ \A w \in ShopWallet : [op |-> "account", wallet |-> w] \in Step
  /\ \A w \in ShopWallet, p \in Pid, path \in Path : Insert(w, p, path) \in Step
  /\ \A w \in Wallet \ ShopWallet, p \in Pid : Insert(w, p, MasterPath) \in Step
  /\ \A p \in Pid, op \in {"rename", "setProfile", "loadAll", "seedMarket"} :
       [op |-> op, profile |-> p] \in Step
  /\ \A n \in Names, address \in Addresses :
       [op |-> "unjoined", name |-> n, address |-> address] \in Step
  /\ \A row \in Market, seeds \in BOOLEAN : (seeds => row.profile # None) =>
       [op |-> "market", seeds |-> seeds, row |-> row] \in Step
  /\ \A m \in Mid, op \in {"join", "destroy"} : [op |-> op, market |-> m] \in Step
  /\ \A p \in Pid, m \in Mid : [op |-> "setMarket", profile |-> p, market |-> m] \in Step
BY DEF Step, Insert

(* The wallets of profiles and of markets are never the same.              *)
LEMMA WalletKinds ==
  /\ \A name \in ProfileName : ProfileWallet(name) \in Wallet \ ShopWallet
  /\ \A name \in ProfileName, n \in Names : MarketWallet(name, n) \in ShopWallet
  /\ NoWallet \notin Wallet
<1>1. "none" \notin Names
  BY MarketsAssumption DEF Names, IdentityName
<1>2. \A name \in ProfileName : ProfileWallet(name) \in Wallet \ ShopWallet
  <2>1. \A name \in ProfileName : ProfileWallet(name) \in Wallet
    BY DEF Wallet
  <2>2. \A name \in ProfileName : ProfileWallet(name).market = "none"
    BY DEF ProfileWallet
  <2> QED
    BY <2>1, <2>2 DEF ShopWallet
<1>3. ASSUME NEW name \in ProfileName, NEW n \in Names
      PROVE  MarketWallet(name, n) \in ShopWallet
  <2>1. MarketWallet(name, n) \in Wallet
    BY DEF Wallet
  <2>2. MarketWallet(name, n).market = n
    BY DEF MarketWallet
  <2> QED
    BY <1>1, <2>1, <2>2 DEF ShopWallet
<1>5. NoWallet \notin Wallet
  <2> SUFFICES ASSUME NoWallet \in Wallet PROVE FALSE
    OBVIOUS
  <2>1. NoWallet.of = "none" /\ NoWallet.market = "none"
    BY DEF NoWallet
  <2>2. ASSUME NEW f \in ProfileName, NoWallet = ProfileWallet(f) PROVE FALSE
    BY <2>1, <2>2, MarketsAssumption DEF ProfileWallet
  <2>3. ASSUME NEW f \in ProfileName, NEW n \in Names, NoWallet = MarketWallet(f, n) PROVE FALSE
    BY <1>1, <1>3, <2>1, <2>3 DEF ShopWallet
  <2>4. NoWallet # OldWallet
    BY <2>1 DEF OldWallet
  <2> QED
    BY <2>2, <2>3, <2>4 DEF Wallet
<1> QED
  BY <1>2, <1>3, <1>5

(* A program of two steps, the second of which needs what the first makes. *)
LEMMA TwoSteps ==
  ASSUME NEW there, NEW x \in Step, NEW y \in Step,
         x.op # "addProfile", y.op # "addProfile", Needs(x) = {},
         \A f \in Needs(y) : f \in Gives(x)
  PROVE  Program(<<x, y>>, there)
<1>1. <<x, y>> \in Seq(Step) /\ DOMAIN <<x, y>> = {1, 2}
  OBVIOUS
<1>2. 1 .. 2 - 1 = {1} /\ <<x, y>>[1] = x /\ <<x, y>>[2] = y
  OBVIOUS
<1> QED
  BY <1>1, <1>2 DEF Program, Backed, NoAdd

(* The same with a third step.                                             *)
LEMMA ThreeSteps ==
  ASSUME NEW there, NEW x \in Step, NEW y \in Step, NEW z \in Step,
         x.op # "addProfile", y.op # "addProfile", z.op # "addProfile", Needs(x) = {},
         \A f \in Needs(y) : f \in Gives(x),
         \A f \in Needs(z) : f \in Gives(x) \/ f \in Gives(y)
  PROVE  Program(<<x, y, z>>, there)
<1>1. <<x, y, z>> \in Seq(Step) /\ DOMAIN <<x, y, z>> = {1, 2, 3}
  OBVIOUS
<1>2. /\ 1 .. 2 - 1 = {1} /\ 1 .. 3 - 1 = {1, 2}
      /\ <<x, y, z>>[1] = x /\ <<x, y, z>>[2] = y /\ <<x, y, z>>[3] = z
  OBVIOUS
<1> QED
  BY <1>1, <1>2 DEF Program, Backed, NoAdd

(* Two programs of one step are one of two.                                *)
LEMMA PairOfSteps ==
  ASSUME NEW x \in Step, NEW y \in Step
  PROVE  <<x>> \o <<y>> = <<x, y>>
<1>1. /\ <<x>> \in Seq(Step) /\ <<y>> \in Seq(Step) /\ <<x, y>> \in Seq(Step)
      /\ Len(<<x>>) = 1 /\ Len(<<y>>) = 1 /\ Len(<<x, y>>) = 2
      /\ <<x>>[1] = x /\ <<y>>[1] = y /\ <<x, y>>[1] = x /\ <<x, y>>[2] = y
  OBVIOUS
<1>2. /\ <<x>> \o <<y>> \in Seq(Step) /\ Len(<<x>> \o <<y>>) = 2
      /\ (<<x>> \o <<y>>)[1] = x /\ (<<x>> \o <<y>>)[2] = y
  BY <1>1, ConcatProperties
<1>3. \A i \in 1 .. 2 : (<<x>> \o <<y>>)[i] = <<x, y>>[i]
  <2>1. \A i \in 1 .. 2 : i = 1 \/ i = 2
    OBVIOUS
  <2> QED
    BY <1>1, <1>2, <2>1
<1> QED
  BY <1>1, <1>2, <1>3, SeqEqual

(* createProfileIdentity() as a program.                                   *)
LEMMA ProfileIdentityProgram ==
  ASSUME NEW p \in Pid, NEW name \in ProfileName, NEW there
  PROVE  Program(ProfileIdentity(p, name), there)
<1> DEFINE w == ProfileWallet(name)
           x == [op |-> "wallet", wallet |-> w, profile |-> p]
           y == Insert(w, p, MasterPath)
<1>1. w \in Wallet \ ShopWallet
  BY WalletKinds
<1>2. x \in Step /\ y \in Step
  BY <1>1, StepKinds
<1>3. Needs(x) = {} /\ x.op # "addProfile" /\ y.op # "addProfile"
  BY DEF Needs, Insert
<1>4. \A f \in Needs(y) : f \in Gives(x)
  BY <1>1 DEF Needs, Gives, Insert
<1>5. ProfileIdentity(p, name) = <<x, y>>
  BY DEF ProfileIdentity
<1> HIDE DEF x, y
<1> QED
  BY <1>2, <1>3, <1>4, <1>5, TwoSteps

(* createMarketIdentityForProfile() as a program; it ends with the insert  *)
(* that gives the profile the identity.                                    *)
LEMMA MarketIdentityProgram ==
  ASSUME NEW p \in Pid, NEW name \in ProfileName, NEW n \in Names, NEW path \in Path, NEW there
  PROVE  /\ Program(MarketIdentity(p, name, n, path), there)
         /\ \E j \in 1 .. Len(MarketIdentity(p, name, n, path)) :
              OfIdentity(p, MarketWallet(name, n)) \in Gives(MarketIdentity(p, name, n, path)[j])
<1> DEFINE w == MarketWallet(name, n)
           x == [op |-> "wallet", wallet |-> w, profile |-> p]
           y == [op |-> "import", wallet |-> w, path |-> path]
           z == Insert(w, p, path)
<1>1. w \in ShopWallet /\ w \in Wallet
  BY WalletKinds DEF ShopWallet
<1>2. x \in Step /\ y \in Step /\ z \in Step
  BY <1>1, StepKinds
<1>3. Needs(x) = {} /\ x.op # "addProfile" /\ y.op # "addProfile" /\ z.op # "addProfile"
  BY DEF Needs, Insert
<1>4. \A f \in Needs(y) : f \in Gives(x)
  BY DEF Needs, Gives
<1>5. \A f \in Needs(z) : f \in Gives(x) \/ f \in Gives(y)
  BY DEF Needs, Gives, Insert
<1>6. OfIdentity(p, w) \in Gives(z)
  BY DEF Gives, Insert
<1>7. MarketIdentity(p, name, n, path) = <<x, y, z>>
  BY DEF MarketIdentity
<1> HIDE DEF w, x, y, z
<1>8. 3 \in 1 .. Len(<<x, y, z>>) /\ <<x, y, z>>[3] = z
  OBVIOUS
<1>9. Program(<<x, y, z>>, there)
  BY <1>2, <1>3, <1>4, <1>5, ThreeSteps
<1> QED
  BY <1>6, <1>7, <1>8, <1>9 DEF w

(* ... followed by the market that is joined with it.                      *)
LEMMA JoiningProgram ==
  ASSUME NEW p \in Pid, NEW name \in ProfileName, NEW n \in Names, NEW path \in Path,
         NEW row \in Market, row.profile = p, row.wallet = MarketWallet(name, n),
         NEW seeds \in BOOLEAN, NEW there
  PROVE  Program(Append(MarketIdentity(p, name, n, path),
                        [op |-> "market", seeds |-> seeds, row |-> row]), there)
<1> DEFINE x == [op |-> "market", seeds |-> seeds, row |-> row]
<1>0. p # None
  BY MarketsAssumption DEF Pid, None
<1>1. x \in Step /\ x.op # "addProfile"
  BY <1>0, StepKinds
<1>2. \A f \in Needs(x) : f = OfIdentity(p, MarketWallet(name, n))
  BY DEF Needs
<1> HIDE DEF x
<1>3. Program(Append(MarketIdentity(p, name, n, path), x), there)
  <2> DEFINE s == MarketIdentity(p, name, n, path)
  <2>1. Program(s, there) /\ \E j \in 1 .. Len(s) : OfIdentity(p, MarketWallet(name, n)) \in Gives(s[j])
    BY MarketIdentityProgram
  <2> HIDE DEF s
  <2>2. Program(Append(s, x), there)
    BY <1>1, <1>2, <2>1, Appended
  <2> QED
    BY <2>2 DEF s
<1> QED
  BY <1>3 DEF x

-----------------------------------------------------------------------------
(* What a step does to the programs, apart from what it does to the data.  *)
DataTypes ==
  /\ DOMAIN profiles \subseteq 1 .. last.profile /\ Range(profiles) \subseteq ProfileName
  /\ identities \subseteq Identity
  /\ DOMAIN wallets \subseteq Wallet /\ loaded \subseteq DOMAIN wallets
  /\ \A w \in DOMAIN wallets : wallets[w] \in [paths : SUBSET Path, account : BOOLEAN]
  /\ listening \subseteq Addresses
  /\ DOMAIN markets \subseteq 1 .. last.market
  /\ \A m \in DOMAIN markets : markets[m] \in Market
  /\ settings \in [profile : Pid \cup {None}, market : [Pid -> Mid \cup {None}]]
  /\ last \in [profile : 0 .. MaxProfiles, market : 0 .. MaxMarkets]
Data == DataTypes /\ IdentityUsable /\ MasterKeys /\ MarketsJoined

(* Programs are made of operations.                                        *)
LEMMA StepOps ==
  /\ \A x \in Step : x.op \in Operation
  /\ \A steps \in [Actor -> Seq(Step)] :
       DOMAIN steps = Actor /\ \A a \in Actor : \A n \in DOMAIN steps[a] : steps[a][n].op \in Operation
<1>1. \A x \in Step : x.op \in Operation
  BY DEF Step, Operation
<1>2. \A s \in Seq(Step) : \A n \in DOMAIN s : s[n] \in Step
  BY ElementOfSeq, LenProperties
<1> QED
  BY <1>1, <1>2

(* IInv put together again.                                                *)
LEMMA Together ==
  ASSUME Data', Programs', Adding', Booting',
         boot' \in {"polling", "booting", "started", "failed"},
         owed' \in BOOLEAN, mishaps' \in 0 .. MaxMishaps
  PROVE  IInv'
<1>1. /\ DOMAIN work' = Actor
      /\ \A a \in Actor : \A n \in DOMAIN work'[a] : work'[a][n].op \in Operation
  BY StepOps DEF Programs
<1>2. TypeOK'
  BY <1>1 DEF Data, DataTypes, TypeOK
<1> QED
  BY <1>2 DEF IInv, Data

(* The first step of a program is done and others may have come before the *)
(* rest.                                                                   *)
LEMMA Continued ==
  ASSUME IInv, NEW a \in Actor, work[a] # <<>>, NEW t, Replace(a, t),
         There \subseteq There', Program(t, There'),
         \A f \in Gives(Head(work[a])) : f \in There' \/ \E j \in 1 .. Len(t) : f \in Gives(t[j]),
         Head(work[a]).op = "addProfile" \/ last'.profile = last.profile
  PROVE  Programs' /\ Adding' /\ Booting'
<1> DEFINE s == work[a]
           u == t \o Tail(s)
<1>0. /\ work \in [Actor -> Seq(Step)] /\ \A b \in Actor : Backed(work[b], There)
      /\ "boot" \in Actor
  BY DEF IInv, Programs, Actor
<1>1. /\ work' = [work EXCEPT ![a] = u] /\ boot' = boot
      /\ work'[a] = u /\ \A b \in Actor \ {a} : work'[b] = work[b]
  BY <1>0 DEF Replace
<1>2. /\ u \in Seq(Step) /\ Backed(u, There')
      /\ \A k \in DOMAIN u : u[k].op # "addProfile" \/ \E i \in DOMAIN s \ {1} : u[k] = s[i]
      /\ \A i \in DOMAIN s \ {1} : \E k \in DOMAIN u : u[k] = s[i]
  <2>1. s \in Seq(Step) /\ s # <<>> /\ Backed(s, There) /\ There \subseteq There' /\ Program(t, There')
    BY <1>0
  <2>2. \A f \in Gives(Head(s)) : f \in There' \/ \E j \in 1 .. Len(t) : f \in Gives(t[j])
    OBVIOUS
  <2> DEFINE here == There
             soon == There'
  <2> HIDE DEF s, here, soon
  <2>3. /\ s \in Seq(Step) /\ s # <<>> /\ Backed(s, here) /\ here \subseteq soon /\ Program(t, soon)
        /\ \A f \in Gives(Head(s)) : f \in soon \/ \E j \in 1 .. Len(t) : f \in Gives(t[j])
    BY <2>1, <2>2 DEF here, soon
  <2>4. /\ u \in Seq(Step) /\ Backed(u, soon)
        /\ \A k \in DOMAIN u : u[k].op # "addProfile" \/ \E i \in DOMAIN s \ {1} : u[k] = s[i]
        /\ \A i \in DOMAIN s \ {1} : \E k \in DOMAIN u : u[k] = s[i]
    BY <2>3, BackedReplaced
  <2> QED
    BY <2>4 DEF soon
<1>3. s # <<>> /\ s[1] = Head(s) /\ 1 \in DOMAIN s
  BY <1>0, LenProperties, EmptySeq
<1> HIDE DEF u
<1>4. Programs'
  <2>1. work' \in [Actor -> Seq(Step)]
    BY <1>0, <1>1, <1>2
  <2>2. \A b \in Actor : Backed(work'[b], There')
    BY <1>0, <1>1, <1>2, BackedMono
  <2> QED
    BY <2>1, <2>2 DEF Programs
<1>5. \A k \in DOMAIN u : u[k].op # "addProfile"
  BY <1>2 DEF IInv, Adding
<1>6. Adding'
  <2> SUFFICES ASSUME NEW b \in Actor, NEW k \in DOMAIN work'[b], work'[b][k].op = "addProfile"
               PROVE  /\ k = 1 /\ work'[b][k].profile = last'.profile + 1
                      /\ b # "boot" => boot' = "started"
                      /\ \A c \in Actor \ {b} : \A j \in DOMAIN work'[c] : work'[c][j].op # "addProfile"
    BY DEF Adding
  <2>1. b # a /\ work'[b] = work[b]
    BY <1>1, <1>5
  <2>2. Head(s).op # "addProfile"
    BY <1>3, <2>1 DEF IInv, Adding
  <2>3. \A c \in Actor \ {b} : \A j \in DOMAIN work'[c] : work'[c][j].op # "addProfile"
    BY <1>1, <1>5, <2>1 DEF IInv, Adding
  <2> QED
    BY <1>1, <2>1, <2>2, <2>3 DEF IInv, Adding
<1>7. Booting'
  BY <1>0, <1>1, <1>3 DEF IInv, Booting
<1> QED
  BY <1>4, <1>6, <1>7

(* A step threw and its program is over.                                   *)
LEMMA Ended ==
  ASSUME IInv, NEW a \in Actor, Threw(a), There \subseteq There', work[a] # <<>>,
         last'.profile = last.profile
  PROVE  /\ Programs' /\ Adding' /\ Booting'
         /\ boot' \in {"polling", "booting", "started", "failed"}
<1>0. /\ work \in [Actor -> Seq(Step)] /\ \A b \in Actor : Backed(work[b], There)
      /\ "boot" \in Actor /\ boot \in {"polling", "booting", "started", "failed"}
  BY DEF IInv, Programs, Actor, TypeOK
<1>1. /\ work'[a] = <<>> /\ \A b \in Actor \ {a} : work'[b] = work[b]
      /\ work' \in [Actor -> Seq(Step)]
      /\ boot' = IF a = "boot" THEN "failed" ELSE boot
  BY <1>0 DEF Threw
<1>2. Programs'
  <2>1. Backed(<<>>, There')
    BY DEF Backed
  <2> QED
    BY <1>0, <1>1, <2>1, BackedMono DEF Programs
<1>3. Adding'
  <2>1. a = "boot" => boot # "started"
    BY DEF IInv, Booting
  <2>2. \A b \in Actor : \A k \in DOMAIN work'[b] : b # a
    BY <1>1
  <2> SUFFICES ASSUME NEW b \in Actor, NEW k \in DOMAIN work'[b], work'[b][k].op = "addProfile"
               PROVE  /\ k = 1 /\ work'[b][k].profile = last'.profile + 1
                      /\ b # "boot" => boot' = "started"
                      /\ \A c \in Actor \ {b} : \A j \in DOMAIN work'[c] : work'[c][j].op # "addProfile"
    BY DEF Adding
  <2>3. b # a /\ work'[b] = work[b]
    BY <1>1, <2>2
  <2>4. \A c \in Actor \ {b} : \A j \in DOMAIN work'[c] : work'[c][j].op # "addProfile"
    BY <1>1, <2>2, <2>3 DEF IInv, Adding
  <2>5. b # "boot" => a # "boot"
    BY <2>1, <2>3 DEF IInv, Adding
  <2> QED
    BY <1>1, <2>3, <2>4, <2>5 DEF IInv, Adding
<1>4. Booting'
  BY <1>0, <1>1 DEF IInv, Booting
<1> QED
  BY <1>0, <1>1, <1>2, <1>3, <1>4

-----------------------------------------------------------------------------
(* The fields that a step of a kind has.                                   *)
LEMMA StepFields ==
  ASSUME NEW x \in Step
  PROVE  /\ x.op = "addProfile" => x.profile \in Pid /\ x.name \in ProfileName
         /\ x.op = "wallet" => x.wallet \in Wallet /\ x.profile \in Pid
         /\ x.op = "create" => x.wallet \in Wallet
         /\ x.op = "genesis" => x.wallet \in Wallet \ ShopWallet
         /\ x.op = "import" => x.wallet \in ShopWallet /\ x.path \in Path
         /\ x.op = "account" => x.wallet \in ShopWallet
         /\ x.op = "identity" =>
              /\ x.wallet \in Wallet /\ x.profile \in Pid /\ x.path \in Path
              /\ x.wallet \notin ShopWallet => x.path = MasterPath
         /\ x.op \in {"rename", "setProfile", "loadAll", "seedMarket"} => x.profile \in Pid
         /\ x.op = "market" => x.row \in Market /\ (x.seeds => x.row.profile # None) /\ x.seeds \in BOOLEAN
         /\ x.op \in {"join", "destroy"} => x.market \in Mid
         /\ x.op = "setMarket" => x.profile \in Pid /\ x.market \in Mid
<1>1. ShopWallet \subseteq Wallet /\ MasterPath \in Path
  BY MarketsAssumption DEF ShopWallet, MasterPath, Path
<1> QED
  BY <1>1 DEF Step

(* What the facts say.                                                     *)
LEMMA ThereFacts ==
  /\ \A w \in Wallet : OfWallet(w) \in There <=> w \in loaded
  /\ \A w \in ShopWallet, path \in Path :
       OfKey(w, path) \in There <=> w \in DOMAIN wallets /\ path \in wallets[w].paths
  /\ \A w \in Wallet \cup {NoWallet}, p \in Nat : OfIdentity(p, w) \in There <=> Joined(p, w)
  /\ \A m \in Nat : OfMarket(m) \in There <=>
       m <= last.market /\ (m \in DOMAIN markets => markets[m].profile # None)
<1>1. ShopWallet \subseteq Wallet /\ Path \subseteq Nat
  BY MarketsAssumption DEF ShopWallet, MasterPath, Path
<1>2. \A w \in Wallet : OfWallet(w) \in There <=> w \in loaded
  BY DEF There, Fact, OfWallet
<1>3. \A w \in ShopWallet, path \in Path :
       OfKey(w, path) \in There <=> w \in DOMAIN wallets /\ path \in wallets[w].paths
  BY <1>1 DEF There, Fact, OfKey
<1>4. \A w \in Wallet \cup {NoWallet}, p \in Nat : OfIdentity(p, w) \in There <=> Joined(p, w)
  BY DEF There, Fact, OfIdentity
<1>5. \A m \in Nat : OfMarket(m) \in There <=>
       m <= last.market /\ (m \in DOMAIN markets => markets[m].profile # None)
  BY DEF There, Fact, OfMarket
<1> QED
  BY <1>2, <1>3, <1>4, <1>5

(* The step a program is at has everything it needs.                       *)
LEMMA FirstStep ==
  ASSUME IInv, NEW a \in Actor, work[a] # <<>>
  PROVE  /\ Head(work[a]) \in Step /\ Needs(Head(work[a])) \subseteq There
         /\ 1 \in DOMAIN work[a] /\ work[a][1] = Head(work[a])
<1>1. work[a] \in Seq(Step) /\ Backed(work[a], There)
  BY DEF IInv, Programs
<1>2. Head(work[a]) \in Step /\ 1 \in DOMAIN work[a] /\ work[a][1] = Head(work[a])
  BY <1>1, LenProperties, EmptySeq
<1>3. 1 .. 1 - 1 = {}
  OBVIOUS
<1> QED
  BY <1>1, <1>2, <1>3 DEF Backed

(* Steps that leave the rows and the wallets alone, but for loading some.  *)
LEMMA SameData ==
  ASSUME IInv, UNCHANGED <<profiles, identities, wallets, markets, last>>
  PROVE  /\ IdentityUsable' /\ MasterKeys' /\ MarketsJoined'
         /\ loaded' = loaded => There' = There
         /\ loaded \subseteq loaded' => There \subseteq There'
<1>1. loaded' = loaded => There' = There
  BY DEF There, Joined
<1>2. loaded \subseteq loaded' => There \subseteq There'
  BY DEF There, Joined
<1> QED
  BY <1>1, <1>2 DEF IInv, IdentityUsable, Usable, MasterKeys, MarketsJoined, Joined

(* Steps in which core gets a wallet, a key or an account.                 *)
LEMMA WalletsGrow ==
  ASSUME IInv, UNCHANGED <<profiles, identities, markets, last>>,
         DOMAIN wallets \subseteq DOMAIN wallets', loaded \subseteq loaded',
         \A w \in DOMAIN wallets :
           /\ w \in ShopWallet => wallets[w].paths \subseteq wallets'[w].paths
           /\ wallets[w].account => wallets'[w].account,
         \A w \in DOMAIN wallets' \ ShopWallet :
           wallets'[w].account => MasterPath \in wallets'[w].paths
  PROVE  There \subseteq There' /\ IdentityUsable' /\ MasterKeys' /\ MarketsJoined'
<1>1. There \subseteq There'
  BY DEF There, Joined
<1>2. MasterKeys'
  BY DEF IInv, MasterKeys
<1>3. IdentityUsable'
  BY DEF IInv, MasterKeys, IdentityUsable, Usable
<1>4. MarketsJoined'
  BY DEF IInv, MarketsJoined, Joined
<1> QED
  BY <1>1, <1>2, <1>3, <1>4

(* A step of a program that does not touch the profiles.                   *)
LEMMA StepDone ==
  ASSUME IInv, NEW a \in Actor, work[a] # <<>>, UNCHANGED <<owed, mishaps>>,
         last'.profile = last.profile, Data', There \subseteq There',
         \/ Threw(a)
         \/ \E t : /\ Replace(a, t) /\ Program(t, There')
                  /\ \A f \in Gives(Head(work[a])) :
                       f \in There' \/ \E j \in 1 .. Len(t) : f \in Gives(t[j])
  PROVE  IInv'
<1>0. /\ boot \in {"polling", "booting", "started", "failed"} /\ owed \in BOOLEAN
      /\ mishaps \in 0 .. MaxMishaps
  BY DEF IInv, TypeOK
<1>1. CASE Threw(a)
  BY <1>0, <1>1, Ended, Together
<1>2. ASSUME NEW t, Replace(a, t), Program(t, There'),
             \A f \in Gives(Head(work[a])) :
               f \in There' \/ \E j \in 1 .. Len(t) : f \in Gives(t[j])
      PROVE  IInv'
  <2>2. Programs' /\ Adding' /\ Booting'
    BY <1>2, Continued
  <2>3. boot' = boot
    BY <1>2 DEF Replace
  <2> QED
    BY <1>0, <2>2, <2>3, Together
<1> QED
  BY <1>1, <1>2

(* A step with nothing to follow: it finds what it needs or it throws.     *)
LEMMA JustDone ==
  ASSUME NEW a, NEW there, Finds(a, there) \/ Done(a),
         there \/ Done(a) => Gives(Head(work[a])) \subseteq There'
  PROVE  \/ Threw(a)
         \/ \E t : /\ Replace(a, t) /\ Program(t, There')
                  /\ \A f \in Gives(Head(work[a])) :
                       f \in There' \/ \E j \in 1 .. Len(t) : f \in Gives(t[j])
<1>1. Program(<<>>, There')
  BY ShortPrograms
<1> QED
  BY <1>1 DEF Finds, Done

(* The steps that only look or load: renaming the old market, loading      *)
(* wallets, looking for a market that nobody joined.                       *)
LEMMA LookingStep ==
  ASSUME IInv, NEW a \in Actor, UNCHANGED <<owed, mishaps>>,
         RenameMarket(a) \/ LoadWallets(a) \/ LookForUnjoined(a)
  PROVE  IInv'
<1>0. work[a] # <<>> /\ Head(work[a]).op \in {"rename", "loadAll", "unjoined"}
  BY DEF RenameMarket, LoadWallets, LookForUnjoined, Running
<1>1. Gives(Head(work[a])) = {}
  BY <1>0 DEF Gives
<1>d. DataTypes /\ IdentityUsable /\ MasterKeys /\ MarketsJoined
  BY DEF IInv, TypeOK, DataTypes
<1>2. CASE RenameMarket(a)
  <2> DEFINE mine == OfProfile(Head(work[a]).profile)
  <2>1. /\ Finds(a, mine # {}) /\ UNCHANGED <<profiles, identities, settings, last, core>>
        /\ markets' = IF mine = {} THEN markets ELSE [markets EXCEPT ![Min(mine)].old = TRUE]
    BY <1>2 DEF RenameMarket
  <2>2. /\ DOMAIN markets' = DOMAIN markets
        /\ \A m \in DOMAIN markets :
             /\ markets'[m] \in Market
             /\ markets'[m].profile = markets[m].profile /\ markets'[m].wallet = markets[m].wallet
    BY <1>d, <2>1 DEF DataTypes, Market
  <2>3. There \subseteq There'
    BY <2>1, <2>2 DEF There, Joined, core
  <2>4. Data'
    <3>1. UNCHANGED <<profiles, identities, settings, last, wallets, loaded, listening>>
      BY <2>1 DEF core
    <3>2. DataTypes'
      BY <1>d, <2>2, <3>1 DEF DataTypes
    <3>3. IdentityUsable' /\ MasterKeys'
      BY <1>d, <3>1 DEF IdentityUsable, Usable, MasterKeys
    <3>4. MarketsJoined'
      BY <1>d, <2>2, <3>1 DEF MarketsJoined, Joined
    <3> QED
      BY <3>2, <3>3, <3>4 DEF Data
  <2> QED
    BY <1>0, <1>1, <2>1, <2>3, <2>4, StepDone, JustDone DEF core
<1>3. CASE LoadWallets(a)
  <2>1. /\ Done(a) /\ UNCHANGED <<database, wallets, listening>>
        /\ loaded' \subseteq DOMAIN wallets /\ loaded \subseteq loaded'
    BY <1>3, <1>d DEF LoadWallets, DataTypes
  <2>2. There \subseteq There' /\ IdentityUsable' /\ MasterKeys' /\ MarketsJoined'
    BY <2>1, SameData DEF database
  <2>3. Data'
    BY <1>d, <2>1, <2>2 DEF Data, DataTypes, database
  <2> QED
    BY <1>0, <1>1, <2>1, <2>2, <2>3, StepDone, JustDone DEF database
<1>4. CASE LookForUnjoined(a)
  <2>1. UNCHANGED <<database, core>>
    BY <1>4 DEF LookForUnjoined
  <2>2. There' = There /\ IdentityUsable' /\ MasterKeys' /\ MarketsJoined'
    BY <2>1, SameData DEF database, core
  <2>3. Data'
    BY <1>d, <2>1, <2>2 DEF Data, DataTypes, database, core
  <2>4. \E there : Finds(a, there)
    BY <1>4 DEF LookForUnjoined
  <2> QED
    BY <1>0, <1>1, <2>1, <2>2, <2>3, <2>4, StepDone, JustDone DEF database
<1> QED
  BY <1>2, <1>3, <1>4

(* What IInv says of the data, and what a profile that exists is.          *)
LEMMA DataHolds ==
  ASSUME IInv
  PROVE  /\ Data /\ Programs /\ None \notin Pid /\ Pid \subseteq Nat /\ Mid \subseteq Nat
         /\ \A p \in DOMAIN profiles :
              p \in Pid /\ profiles[p] \in ProfileName /\ p <= last.profile
<1>1. Data /\ Programs
  BY DEF IInv, TypeOK, Data, DataTypes
<1>2. None \notin Pid /\ Pid \subseteq Nat /\ Mid \subseteq Nat
  BY MarketsAssumption DEF Pid, Mid, None
<1>3. ASSUME NEW p \in DOMAIN profiles
      PROVE  p \in Pid /\ profiles[p] \in ProfileName /\ p <= last.profile
  <2>1. profiles[p] \in Range(profiles)
    BY DEF Range
  <2>2. p \in 1 .. last.profile /\ last.profile \in 0 .. MaxProfiles
    BY <1>1 DEF Data, DataTypes
  <2> QED
    BY <1>1, <2>1, <2>2, MarketsAssumption DEF Data, DataTypes, Pid
<1> QED
  BY <1>1, <1>2, <1>3

(* The rows that programs insert are rows of markets.                      *)
LEMMA MarketRow ==
  ASSUME NEW n \in Names, NEW address \in Addresses, NEW p \in Pid \cup {None},
         NEW w \in Wallet \cup {NoWallet}
  PROVE  [name |-> n, old |-> FALSE, address |-> address, profile |-> p, wallet |-> w] \in Market
BY DEF Market

(* Seeding the default market: nothing, or a program that makes it.        *)
LEMMA SeedMarketStep ==
  ASSUME IInv, NEW a \in Actor, UNCHANGED <<owed, mishaps>>, SeedMarket(a)
  PROVE  IInv'
<1> DEFINE p == Head(work[a]).profile
           w == MarketWallet(profiles[p], IdentityName)
           row == [name |-> "default", old |-> FALSE, address |-> "default", profile |-> p,
                   wallet |-> w]
           steps == Append(MarketIdentity(p, profiles[p], IdentityName, 0),
                           [op |-> "market", seeds |-> TRUE, row |-> row])
<1>0. work[a] # <<>> /\ Head(work[a]).op = "seedMarket" /\ UNCHANGED <<database, core>>
  BY DEF SeedMarket, Running
<1>1. Gives(Head(work[a])) = {}
  BY <1>0 DEF Gives
<1>2. There' = There /\ IdentityUsable' /\ MasterKeys' /\ MarketsJoined'
  BY <1>0, SameData DEF database, core
<1>3. Data'
  BY <1>0, <1>2, DataHolds DEF Data, DataTypes, database, core
<1>4. ASSUME p \in DOMAIN profiles
      PROVE  Program(steps, There')
  <2>1. p \in Pid /\ profiles[p] \in ProfileName
    BY <1>4, DataHolds
  <2>2. IdentityName \in Names /\ "default" \in Names /\ "default" \in Addresses /\ 0 \in Path
    BY MarketsAssumption DEF Names, Addresses, Path, MasterPath
  <2>3. w \in Wallet
    BY <2>1, <2>2, WalletKinds DEF ShopWallet
  <2>4. row \in Market /\ row.profile = p /\ row.wallet = w
    BY <2>1, <2>2, <2>3, MarketRow
  <2> HIDE DEF row, p
  <2> QED
    BY <2>1, <2>2, <2>4, JoiningProgram
<1>5. Program(<<>>, There')
  BY ShortPrograms
<1>6. Threw(a) \/ \E t : Replace(a, t) /\ Program(t, There')
  BY <1>4, <1>5 DEF SeedMarket, CreateMarket
<1> QED
  BY <1>0, <1>1, <1>2, <1>3, <1>6, StepDone DEF database

(* A wallet is loaded, or will be created by the next step; core refuses   *)
(* where the key cannot be derived.                                        *)
LEMMA OpenWalletStep ==
  ASSUME IInv, NEW a \in Actor, UNCHANGED <<owed, mishaps>>, OpenWallet(a)
  PROVE  IInv'
<1> DEFINE s == Head(work[a])
           x == [op |-> "create", wallet |-> s.wallet]
           y == [op |-> "genesis", wallet |-> s.wallet]
<1>0. work[a] # <<>> /\ s.op = "wallet" /\ UNCHANGED <<database, wallets, listening>>
  BY DEF OpenWallet, Running
<1>1. s.wallet \in Wallet /\ Gives(s) = {OfWallet(s.wallet)}
  BY <1>0, FirstStep, StepFields DEF Gives
<1>3. loaded' \subseteq DOMAIN wallets /\ loaded \subseteq loaded'
  BY DataHolds DEF OpenWallet, Data, DataTypes
<1>2. There \subseteq There' /\ IdentityUsable' /\ MasterKeys' /\ MarketsJoined'
  BY <1>0, <1>3, SameData DEF database
<1>4. Data'
  BY <1>0, <1>2, <1>3, DataHolds DEF Data, DataTypes, database
<1>5. CASE s.wallet \in DOMAIN wallets
  <2>1. Threw(a) \/ (Done(a) /\ s.wallet \in loaded')
    BY <1>5 DEF OpenWallet, Done
  <2>2. s.wallet \in loaded' => OfWallet(s.wallet) \in There'
    BY <1>1 DEF There, Fact, OfWallet
  <2>3. Finds(a, Done(a) /\ s.wallet \in loaded')
    BY <2>1 DEF Finds
  <2>4. Threw(a) \/ Gives(s) \subseteq There'
    BY <1>1, <2>1, <2>2
  <2> QED
    BY <1>0, <1>1, <1>2, <1>4, <2>1, <2>4, StepDone, JustDone DEF database
<1>6. CASE s.wallet \notin DOMAIN wallets
  <2>1. /\ x \in Step /\ x.op # "addProfile" /\ Needs(x) = {} /\ OfWallet(s.wallet) \in Gives(x)
        /\ s.wallet \notin ShopWallet => y \in Step
        /\ y.op # "addProfile" /\ Needs(y) = {}
    BY <1>1, StepKinds DEF Needs, Gives
  <2> HIDE DEF x, y
  <2>2. Program(<<x>>, There') /\ 1 \in 1 .. Len(<<x>>) /\ <<x>>[1] = x
    <3>1. Program(<<x>>, There')
      BY <2>1, ShortPrograms
    <3> QED
      BY <3>1
  <2>3. s.wallet \notin ShopWallet =>
          Program(<<x, y>>, There') /\ 1 \in 1 .. Len(<<x, y>>) /\ <<x, y>>[1] = x
    BY <2>1, TwoSteps
  <2>4. Threw(a) \/ Replace(a, <<x>>) \/ (s.wallet \notin ShopWallet /\ Replace(a, <<x, y>>))
    <3>1. <<x>> \o <<>> = <<x>> /\ (s.wallet \notin ShopWallet => <<x>> \o <<y>> = <<x, y>>)
      BY <2>1, PairOfSteps
    <3>2. s.wallet.market = "none" <=> s.wallet \notin ShopWallet
      BY <1>1 DEF ShopWallet
    <3>3. \/ Threw(a)
          \/ Replace(a, <<x>> \o (IF s.wallet.market = "none" THEN <<y>> ELSE <<>>))
      BY <1>6 DEF OpenWallet, x, y
    <3> QED
      BY <3>1, <3>2, <3>3
  <2> QED
    BY <1>0, <1>1, <1>2, <1>4, <2>1, <2>2, <2>3, <2>4, StepDone DEF database
<1> QED
  BY <1>5, <1>6

(* The steps in which core gets a wallet, a key or an account: more is     *)
(* there than before, and a profile's wallet never has an account without  *)
(* the master key.                                                         *)
LEMMA WalletSteps ==
  ASSUME IInv, NEW a \in Actor, UNCHANGED <<owed, mishaps>>,
         CreateWallet(a) \/ extKeyGenesisImport(a) \/ extKeyImport(a) \/ DeriveAccount(a)
  PROVE  IInv'
<1> DEFINE s == Head(work[a])
           w == s.wallet
<1>0. /\ work[a] # <<>> /\ s.op \in {"create", "genesis", "import", "account"}
      /\ UNCHANGED <<database, listening>>
  BY DEF CreateWallet, extKeyGenesisImport, extKeyImport, DeriveAccount, Running
<1>1. s \in Step /\ Needs(s) \subseteq There
  BY <1>0, FirstStep
<1>d. Data /\ MasterPath \in Path /\ ShopWallet \subseteq Wallet
  BY DataHolds, MarketsAssumption DEF Path, MasterPath, ShopWallet
<1>2. ASSUME DOMAIN wallets' \subseteq Wallet, DOMAIN wallets \subseteq DOMAIN wallets',
             loaded' \subseteq DOMAIN wallets',
             \A v \in DOMAIN wallets' : wallets'[v] \in [paths : SUBSET Path, account : BOOLEAN],
             There \subseteq There' /\ IdentityUsable' /\ MasterKeys' /\ MarketsJoined',
             \/ Threw(a)
             \/ \E t : /\ Replace(a, t) /\ Program(t, There')
                      /\ \A f \in Gives(s) :
                           f \in There' \/ \E j \in 1 .. Len(t) : f \in Gives(t[j])
      PROVE  IInv'
  <2>1. Data'
    BY <1>0, <1>2, <1>d DEF Data, DataTypes, database
  <2> QED
    BY <1>0, <1>2, <2>1, StepDone DEF database
<1>3. CASE CreateWallet(a)
  <2>1. s.op = "create" /\ w \in Wallet /\ Gives(s) = {OfWallet(w)}
    BY <1>1, <1>3, StepFields DEF CreateWallet, Running, Gives
  <2>2. /\ Finds(a, w \notin DOMAIN wallets) /\ loaded' = loaded \cup {w}
        /\ w \in DOMAIN wallets => wallets' = wallets
        /\ w \notin DOMAIN wallets => wallets' = With(w, [paths |-> {}, account |-> FALSE])
    BY <1>3 DEF CreateWallet
  <2>3. /\ DOMAIN wallets' = DOMAIN wallets \cup {w}
        /\ \A v \in DOMAIN wallets : wallets'[v] = wallets[v]
        /\ w \notin DOMAIN wallets => wallets'[w] = [paths |-> {}, account |-> FALSE]
    BY <2>2 DEF With
  <2>4. There \subseteq There' /\ IdentityUsable' /\ MasterKeys' /\ MarketsJoined'
    BY <1>0, <1>d, <2>2, <2>3, WalletsGrow DEF database, Data, MasterKeys
  <2>5. OfWallet(w) \in There'
    BY <2>1, <2>2 DEF There, Fact, OfWallet
  <2>6. /\ DOMAIN wallets' \subseteq Wallet /\ loaded' \subseteq DOMAIN wallets'
        /\ \A v \in DOMAIN wallets' : wallets'[v] \in [paths : SUBSET Path, account : BOOLEAN]
    <3>1. [paths |-> {}, account |-> FALSE] \in [paths : SUBSET Path, account : BOOLEAN]
      OBVIOUS
    <3> QED
      BY <1>d, <2>1, <2>2, <2>3, <3>1 DEF Data, DataTypes
  <2> QED
    BY <1>2, <2>1, <2>2, <2>3, <2>4, <2>5, <2>6, JustDone
<1>4. CASE extKeyGenesisImport(a)
  <2>1. /\ s.op = "genesis" /\ w \in Wallet \ ShopWallet /\ Gives(s) = {}
    BY <1>1, <1>4, StepFields DEF extKeyGenesisImport, Running, Gives
  <2>2. /\ Done(a) /\ loaded' = loaded
        /\ wallets' = With(w, [paths |-> {MasterPath}, account |-> TRUE])
    BY <1>4 DEF extKeyGenesisImport
  <2>3. /\ DOMAIN wallets' = DOMAIN wallets \cup {w}
        /\ \A v \in DOMAIN wallets \ {w} : wallets'[v] = wallets[v]
        /\ wallets'[w] = [paths |-> {MasterPath}, account |-> TRUE]
    BY <2>2 DEF With
  <2>4. There \subseteq There' /\ IdentityUsable' /\ MasterKeys' /\ MarketsJoined'
    <3>1. loaded \subseteq loaded'
      BY <2>2
    <3>2. \A v \in DOMAIN wallets' \ ShopWallet :
            wallets'[v].account => MasterPath \in wallets'[v].paths
      BY <1>d, <2>3 DEF Data, MasterKeys
    <3> QED
      BY <1>0, <2>1, <2>3, <3>1, <3>2, WalletsGrow DEF database
  <2>5. /\ DOMAIN wallets' \subseteq Wallet /\ loaded' \subseteq DOMAIN wallets'
        /\ \A v \in DOMAIN wallets' : wallets'[v] \in [paths : SUBSET Path, account : BOOLEAN]
    <3>1. [paths |-> {MasterPath}, account |-> TRUE] \in [paths : SUBSET Path, account : BOOLEAN]
      BY <1>d
    <3> QED
      BY <1>d, <2>1, <2>2, <2>3, <3>1 DEF Data, DataTypes
  <2> QED
    BY <1>2, <2>1, <2>2, <2>3, <2>4, <2>5, JustDone
<1>5. CASE extKeyImport(a)
  <2>1. /\ s.op = "import" /\ w \in ShopWallet /\ s.path \in Path
        /\ Gives(s) = {OfKey(w, s.path)} /\ OfWallet(w) \in Needs(s)
    BY <1>1, <1>5, StepFields DEF extKeyImport, Running, Gives, Needs
  <2>2. w \in loaded /\ w \in DOMAIN wallets
    BY <1>1, <1>d, <2>1, ThereFacts DEF Data, DataTypes
  <2>3. /\ loaded' = loaded
        /\ wallets' = With(w, [wallets[w] EXCEPT !.paths = @ \cup {s.path}])
        /\ Replace(a, <<>>) \/ Replace(a, <<[op |-> "account", wallet |-> w]>>)
    BY <1>5 DEF extKeyImport
  <2>4. /\ DOMAIN wallets' = DOMAIN wallets
        /\ \A v \in DOMAIN wallets \ {w} : wallets'[v] = wallets[v]
        /\ wallets'[w] = [wallets[w] EXCEPT !.paths = @ \cup {s.path}]
    BY <2>2, <2>3 DEF With
  <2>5. wallets[w] \in [paths : SUBSET Path, account : BOOLEAN]
    BY <1>d, <2>2 DEF Data, DataTypes
  <2>6. /\ wallets'[w].paths = wallets[w].paths \cup {s.path}
        /\ wallets'[w].account = wallets[w].account
        /\ wallets'[w] \in [paths : SUBSET Path, account : BOOLEAN]
    BY <2>1, <2>4, <2>5
  <2>7. There \subseteq There' /\ IdentityUsable' /\ MasterKeys' /\ MarketsJoined'
    BY <1>0, <1>d, <2>1, <2>3, <2>4, <2>6, WalletsGrow DEF database, Data, MasterKeys
  <2>8. OfKey(w, s.path) \in There' /\ OfWallet(w) \in There'
    <3>1. s.path \in Nat /\ w \in Wallet
      BY <1>d, <2>1, MarketsAssumption DEF Path, MasterPath
    <3> QED
      BY <2>1, <2>2, <2>3, <2>4, <2>6, <3>1 DEF There, Fact, OfKey, OfWallet
  <2>9. /\ DOMAIN wallets' \subseteq Wallet /\ loaded' \subseteq DOMAIN wallets'
        /\ \A v \in DOMAIN wallets' : wallets'[v] \in [paths : SUBSET Path, account : BOOLEAN]
    BY <1>d, <2>3, <2>4, <2>6 DEF Data, DataTypes
  <2>10. Program(<<>>, There') /\ Program(<<[op |-> "account", wallet |-> w]>>, There')
    <3> DEFINE x == [op |-> "account", wallet |-> w]
    <3>1. x \in Step /\ x.op # "addProfile" /\ Needs(x) = {OfWallet(w)}
      BY <2>1, StepKinds DEF Needs
    <3> HIDE DEF x
    <3>2. Program(<<x>>, There') /\ Program(<<>>, There')
      BY <2>8, <3>1, ShortPrograms
    <3> QED
      BY <3>2 DEF x
  <2> QED
    BY <1>2, <2>1, <2>3, <2>7, <2>8, <2>9, <2>10, <2>4
<1>6. CASE DeriveAccount(a)
  <2>1. /\ s.op = "account" /\ w \in ShopWallet /\ Gives(s) = {} /\ OfWallet(w) \in Needs(s)
    BY <1>1, <1>6, StepFields DEF DeriveAccount, Running, Gives, Needs
  <2>2. w \in loaded /\ w \in DOMAIN wallets
    BY <1>1, <1>d, <2>1, ThereFacts DEF Data, DataTypes
  <2>3. Done(a) /\ loaded' = loaded /\ wallets' = With(w, [wallets[w] EXCEPT !.account = TRUE])
    BY <1>6 DEF DeriveAccount
  <2>4. /\ DOMAIN wallets' = DOMAIN wallets
        /\ \A v \in DOMAIN wallets \ {w} : wallets'[v] = wallets[v]
        /\ wallets'[w] = [wallets[w] EXCEPT !.account = TRUE]
    BY <2>2, <2>3 DEF With
  <2>5. wallets[w] \in [paths : SUBSET Path, account : BOOLEAN]
    BY <1>d, <2>2 DEF Data, DataTypes
  <2>6. /\ wallets'[w].paths = wallets[w].paths /\ wallets'[w].account
        /\ wallets'[w] \in [paths : SUBSET Path, account : BOOLEAN]
    BY <2>4, <2>5
  <2>7. There \subseteq There' /\ IdentityUsable' /\ MasterKeys' /\ MarketsJoined'
    BY <1>0, <1>d, <2>1, <2>3, <2>4, <2>6, WalletsGrow DEF database, Data, MasterKeys
  <2>8. /\ DOMAIN wallets' \subseteq Wallet /\ loaded' \subseteq DOMAIN wallets'
        /\ \A v \in DOMAIN wallets' : wallets'[v] \in [paths : SUBSET Path, account : BOOLEAN]
    BY <1>d, <2>3, <2>4, <2>6 DEF Data, DataTypes
  <2> QED
    BY <1>2, <2>1, <2>3, <2>4, <2>7, <2>8, JustDone
<1> QED
  BY <1>3, <1>4, <1>5, <1>6

(* A market less.                                                          *)
LEMMA DestroyedData ==
  ASSUME IInv, NEW m, markets' = Destroyed(m),
         UNCHANGED <<profiles, identities, settings, last, core>>
  PROVE  There \subseteq There' /\ Data'
<1>d. Data
  BY DataHolds
<1>1. DOMAIN markets' \subseteq DOMAIN markets /\ \A k \in DOMAIN markets' : markets'[k] = markets[k]
  BY DEF Destroyed
<1>2. UNCHANGED <<wallets, loaded, listening>>
  BY DEF core
<1>3. There \subseteq There'
  BY <1>1, <1>2 DEF There, Joined
<1>4. IdentityUsable' /\ MasterKeys' /\ MarketsJoined'
  BY <1>1, <1>2, <1>d DEF Data, IdentityUsable, Usable, MasterKeys, MarketsJoined, Joined
<1>5. DataTypes'
  BY <1>1, <1>2, <1>d DEF Data, DataTypes
<1> QED
  BY <1>3, <1>4, <1>5 DEF Data

(* An identity gets its row when core has its wallet, key and account.     *)
LEMMA InsertIdentityStep ==
  ASSUME IInv, NEW a \in Actor, UNCHANGED <<owed, mishaps>>, InsertIdentity(a)
  PROVE  IInv'
<1> DEFINE s == Head(work[a])
           w == s.wallet
           p == s.profile
           i == [wallet |-> w, profile |-> p, path |-> s.path]
           fits == /\ wallets[w].account /\ p \in DOMAIN profiles
                   /\ \A j \in identities : j.wallet # w
<1>0. /\ work[a] # <<>> /\ s.op = "identity" /\ Finds(a, fits)
      /\ identities' = IF fits THEN identities \cup {i} ELSE identities
      /\ UNCHANGED <<profiles, markets, settings, last, wallets, loaded, listening>>
  BY DEF InsertIdentity, Running, core
<1>1. s \in Step /\ Needs(s) \subseteq There
  BY <1>0, FirstStep
<1>2. /\ w \in Wallet /\ p \in Pid /\ s.path \in Path /\ (w \notin ShopWallet => s.path = MasterPath)
      /\ Gives(s) = {OfIdentity(p, w)} /\ OfWallet(w) \in Needs(s)
      /\ w \in ShopWallet => OfKey(w, s.path) \in Needs(s)
  <2>1. /\ w \in Wallet /\ p \in Pid /\ s.path \in Path
        /\ w \notin ShopWallet => s.path = MasterPath
    BY <1>0, <1>1, StepFields
  <2>2. /\ Gives(s) = {OfIdentity(p, w)} /\ OfWallet(w) \in Needs(s)
        /\ w \in ShopWallet => OfKey(w, s.path) \in Needs(s)
    BY <1>0 DEF Gives, Needs
  <2> QED
    BY <2>1, <2>2
<1>3. w \in DOMAIN wallets /\ (w \in ShopWallet => s.path \in wallets[w].paths)
  BY <1>1, <1>2, ThereFacts, DataHolds DEF Data, DataTypes
<1>d. Data
  BY DataHolds
<1>4. CASE ~ fits
  <2>1. UNCHANGED <<profiles, identities, wallets, loaded, markets, last>> /\ Threw(a)
    BY <1>0, <1>4 DEF Finds
  <2>2. There' = There /\ IdentityUsable' /\ MasterKeys' /\ MarketsJoined'
    BY <2>1, SameData
  <2>3. Data'
    BY <1>0, <1>d, <2>1, <2>2 DEF Data, DataTypes
  <2> QED
    BY <1>0, <2>1, <2>2, <2>3, StepDone
<1>5. CASE fits
  <2>1. identities' = identities \cup {i} /\ i \in Identity /\ Finds(a, TRUE)
    BY <1>0, <1>2, <1>5 DEF Identity, Finds
  <2>2. i.wallet = w /\ i.profile = p /\ i.path = s.path
    OBVIOUS
  <2> HIDE DEF i
  <2>3. There \subseteq There'
    BY <1>0, <2>1 DEF There, Joined
  <2>4. IdentityUsable' /\ MasterKeys' /\ MarketsJoined'
    <3>1. MasterKeys'
      BY <1>0, <1>2, <1>d, <2>1, <2>2 DEF Data, MasterKeys
    <3>2. IdentityUsable'
      BY <1>0, <1>2, <1>3, <1>5, <1>d, <2>1, <2>2 DEF Data, MasterKeys, IdentityUsable, Usable
    <3>3. MarketsJoined'
      BY <1>0, <1>d, <2>1 DEF Data, MarketsJoined, Joined
    <3> QED
      BY <3>1, <3>2, <3>3
  <2>5. Data'
    BY <1>0, <1>d, <2>1, <2>4 DEF Data, DataTypes
  <2>6. OfIdentity(p, w) \in There'
    <3>1. p <= last.profile /\ p \in Nat
      BY <1>5, DataHolds
    <3>2. /\ p <= last'.profile
          /\ \E j \in identities' : j.wallet = w /\ (p \in DOMAIN profiles' => j.profile = p)
      BY <1>0, <2>1, <2>2, <3>1
    <3> HIDE DEF p, w
    <3> QED
      BY <1>2, <3>1, <3>2 DEF There, Fact, OfIdentity, Joined
  <2> QED
    BY <1>0, <1>2, <2>1, <2>3, <2>5, <2>6, StepDone, JustDone
<1> QED
  BY <1>4, <1>5

(* A market gets the next id; if it is one that a profile joins, it has    *)
(* the identity it is joined with, and the step to join it comes next.     *)
LEMMA InsertMarketStep ==
  ASSUME IInv, NEW a \in Actor, UNCHANGED <<owed, mishaps>>, InsertMarket(a)
  PROVE  IInv'
<1> DEFINE s == Head(work[a])
           row == s.row
           p == row.profile
           m == last.market + 1
           x == [op |-> "join", market |-> m]
           y == [op |-> "setMarket", profile |-> p, market |-> m]
           t == (IF p = None THEN <<>> ELSE <<x>>) \o (IF s.seeds THEN <<y>> ELSE <<>>)
<1>0. /\ work[a] # <<>> /\ s.op = "market" /\ last.market < MaxMarkets
      /\ UNCHANGED <<profiles, identities, settings, wallets, loaded, listening>>
      /\ \/ /\ Replace(a, t)
            /\ markets' = [k \in DOMAIN markets \cup {m} |-> IF k = m THEN row ELSE markets[k]]
            /\ last' = [last EXCEPT !.market = m]
         \/ Threw(a) /\ UNCHANGED <<markets, last>>
  BY DEF InsertMarket, Running, core
<1>1. s \in Step /\ Needs(s) \subseteq There
  BY <1>0, FirstStep
<1>2. /\ row \in Market /\ s.seeds \in BOOLEAN /\ (s.seeds => p # None) /\ Gives(s) = {}
      /\ p # None => OfIdentity(p, row.wallet) \in Needs(s)
  <2>1. row \in Market /\ (s.seeds => p # None) /\ s.seeds \in BOOLEAN
    BY <1>0, <1>1, StepFields
  <2>2. Gives(s) = {} /\ (p # None => OfIdentity(p, row.wallet) \in Needs(s))
    BY <1>0 DEF Gives, Needs
  <2> QED
    BY <2>1, <2>2
<1>d. Data
  BY DataHolds
<1>3. p \in Pid \cup {None} /\ row.wallet \in Wallet \cup {NoWallet}
  BY <1>2 DEF Market
<1>4. p # None => p \in Pid /\ Joined(p, row.wallet)
  BY <1>1, <1>2, <1>3, DataHolds, ThereFacts
<1>5. /\ last \in [profile : 0 .. MaxProfiles, market : 0 .. MaxMarkets]
      /\ DOMAIN markets \subseteq 1 .. last.market /\ m \in Nat /\ m \in Mid /\ m \notin DOMAIN markets
      /\ \A k \in DOMAIN markets : k # m
  BY <1>0, <1>d, MarketsAssumption DEF Data, DataTypes, Mid
<1>6. CASE Threw(a) /\ UNCHANGED <<markets, last>>
  <2>2. There' = There /\ IdentityUsable' /\ MasterKeys' /\ MarketsJoined'
    BY <1>0, <1>6, SameData
  <2>3. Data'
    BY <1>0, <1>d, <1>6, <2>2 DEF Data, DataTypes
  <2> QED
    BY <1>0, <1>6, <2>2, <2>3, StepDone
<1>7. CASE /\ Replace(a, t)
           /\ markets' = [k \in DOMAIN markets \cup {m} |-> IF k = m THEN row ELSE markets[k]]
           /\ last' = [last EXCEPT !.market = m]
  <2>1. /\ DOMAIN markets' = DOMAIN markets \cup {m} /\ markets'[m] = row
        /\ \A k \in DOMAIN markets : markets'[k] = markets[k]
        /\ last'.profile = last.profile /\ last'.market = m
        /\ last' \in [profile : 0 .. MaxProfiles, market : 0 .. MaxMarkets]
    <3>1. /\ DOMAIN markets' = DOMAIN markets \cup {m} /\ markets'[m] = row
          /\ \A k \in DOMAIN markets : markets'[k] = markets[k]
      BY <1>5, <1>7
    <3>2. m \in 0 .. MaxMarkets
      BY <1>0, <1>5, MarketsAssumption DEF Mid
    <3>3. /\ last'.profile = last.profile /\ last'.market = m
          /\ last' \in [profile : 0 .. MaxProfiles, market : 0 .. MaxMarkets]
      BY <1>5, <1>7, <3>2
    <3> QED
      BY <3>1, <3>3
  <2> HIDE DEF row, x, y
  <2>2. There \subseteq There'
    <3> SUFFICES ASSUME NEW f \in Fact, f \in There PROVE f \in There'
      BY DEF There
    <3>1. CASE f.about = "market"
      <4>1. f.id \in Nat /\ f.id <= last.market
        BY <3>1 DEF There, Fact
      <4>2. f.id <= m /\ f.id # m
        BY <1>5, <4>1
      <4> QED
        BY <2>1, <3>1, <4>2 DEF There
    <3>2. CASE f.about = "identity"
      BY <1>0, <2>1, <3>2 DEF There, Joined
    <3>3. CASE f.about \in {"wallet", "key"}
      BY <1>0, <3>3 DEF There
    <3> QED
      BY <3>1, <3>2, <3>3 DEF Fact
  <2>3. MarketsJoined'
    BY <1>0, <1>4, <1>d, <2>1 DEF Data, MarketsJoined, Joined
  <2>4. IdentityUsable' /\ MasterKeys'
    BY <1>0, <1>d DEF Data, IdentityUsable, Usable, MasterKeys
  <2>5. Data'
    <3>1. DOMAIN markets' \subseteq 1 .. last'.market
      BY <1>5, <2>1
    <3>2. \A k \in DOMAIN markets' : markets'[k] \in Market
      BY <1>2, <1>d, <2>1 DEF Data, DataTypes
    <3> QED
      BY <1>0, <1>d, <2>1, <2>3, <2>4, <3>1, <3>2 DEF Data, DataTypes
  <2>6. p # None => /\ x \in Step /\ x.op # "addProfile" /\ Needs(x) \subseteq There'
                    /\ y \in Step /\ y.op # "addProfile" /\ Needs(y) \subseteq There'
    <3> SUFFICES ASSUME p # None
                 PROVE  /\ x \in Step /\ x.op # "addProfile" /\ Needs(x) \subseteq There'
                        /\ y \in Step /\ y.op # "addProfile" /\ Needs(y) \subseteq There'
      OBVIOUS
    <3>1. OfMarket(m) \in There'
      BY <1>5, <2>1 DEF There, Fact, OfMarket
    <3>2. /\ Needs(x) = {OfMarket(m)} /\ Needs(y) = {}
          /\ x.op # "addProfile" /\ y.op # "addProfile"
      BY DEF Needs, x, y
    <3>3. x \in Step /\ y \in Step
      BY <1>4, <1>5, StepKinds DEF x, y
    <3> QED
      BY <3>1, <3>2, <3>3
  <2>7. Program(t, There')
    <3>1. /\ Program(<<>>, There') /\ <<>> \o <<>> = <<>>
          /\ <<x>> \o <<>> = <<x>>
      BY ShortPrograms
    <3>2. p # None => Program(<<x>>, There') /\ Program(<<y>>, There')
      BY <2>6, ShortPrograms
    <3>3. p # None => Program(<<x>> \o <<y>>, There')
      BY <3>2, Concatenated
    <3> QED
      BY <1>2, <3>1, <3>2, <3>3
  <2> HIDE DEF t
  <2> QED
    BY <1>0, <1>2, <1>7, <2>1, <2>2, <2>5, <2>7, StepDone
<1> QED
  BY <1>0, <1>6, <1>7

(* The wallet that is loaded for a market is one that exists: the market   *)
(* has an identity, and identities can be used.                            *)
LEMMA JoinMarketStep ==
  ASSUME IInv, NEW a \in Actor, UNCHANGED <<owed, mishaps>>, JoinMarket(a)
  PROVE  IInv'
<1> DEFINE s == Head(work[a])
           m == s.market
<1>0. /\ work[a] # <<>> /\ s.op = "join" /\ Finds(a, m \in DOMAIN markets)
      /\ loaded' = loaded \cup {markets[k].wallet : k \in {m} \cap DOMAIN markets}
      /\ listening' = listening \cup {markets[k].address : k \in {m} \cap DOMAIN markets}
      /\ UNCHANGED <<database, wallets>>
  BY DEF JoinMarket, Running
<1>1. s \in Step /\ Needs(s) \subseteq There
  BY <1>0, FirstStep
<1>2. m \in Mid /\ Gives(s) = {} /\ OfMarket(m) \in Needs(s)
  BY <1>0, <1>1, StepFields DEF Gives, Needs
<1>d. Data
  BY DataHolds
<1>3. m \in DOMAIN markets => markets[m] \in Market /\ markets[m].wallet \in DOMAIN wallets
  <2> SUFFICES ASSUME m \in DOMAIN markets PROVE markets[m] \in Market /\ markets[m].wallet \in DOMAIN wallets
    OBVIOUS
  <2>1. markets[m].profile # None
    BY <1>1, <1>2, DataHolds, ThereFacts
  <2>2. \E i \in identities : i.wallet = markets[m].wallet
    BY <1>d, <2>1 DEF Data, MarketsJoined, Joined
  <2> QED
    BY <1>d, <2>2 DEF Data, DataTypes, IdentityUsable
<1>4. There \subseteq There' /\ IdentityUsable' /\ MasterKeys' /\ MarketsJoined'
  BY <1>0, SameData DEF database
<1>5. Data'
  <2>1. loaded' \subseteq DOMAIN wallets' /\ listening' \subseteq Addresses
    BY <1>0, <1>3, <1>d DEF Data, DataTypes, Market
  <2> QED
    BY <1>0, <1>d, <1>4, <2>1 DEF Data, DataTypes, database
<1> QED
  BY <1>0, <1>2, <1>4, <1>5, StepDone, JustDone DEF database

(* The default market of a profile is set, or the profile is gone.         *)
LEMMA SetMarketStep ==
  ASSUME IInv, NEW a \in Actor, UNCHANGED <<owed, mishaps>>, SetMarket(a)
  PROVE  IInv'
<1> DEFINE s == Head(work[a])
           fits == s.profile \in DOMAIN profiles
<1>0. /\ work[a] # <<>> /\ s.op = "setMarket" /\ Finds(a, fits)
      /\ settings' = IF fits THEN [settings EXCEPT !.market[s.profile] = s.market] ELSE settings
      /\ UNCHANGED <<profiles, identities, markets, last, core>>
  BY DEF SetMarket, Running
<1>1. s \in Step
  BY <1>0, FirstStep
<1>2. s.profile \in Pid /\ s.market \in Mid /\ Gives(s) = {}
  BY <1>0, <1>1, StepFields DEF Gives
<1>d. Data
  BY DataHolds
<1>3. There' = There /\ IdentityUsable' /\ MasterKeys' /\ MarketsJoined'
  BY <1>0, SameData DEF core
<1>4. /\ settings' \in [profile : Pid \cup {None}, market : [Pid -> Mid \cup {None}]]
      /\ settings'.profile = settings.profile
  <2>1. settings \in [profile : Pid \cup {None}, market : [Pid -> Mid \cup {None}]]
    BY <1>d DEF Data, DataTypes
  <2> QED
    BY <1>0, <1>2, <2>1
<1>5. Data'
  BY <1>0, <1>d, <1>3, <1>4 DEF Data, DataTypes, core
<1> QED
  BY <1>0, <1>2, <1>3, <1>4, <1>5, StepDone, JustDone

(* A market is removed, or gone already, or flagged.                       *)
LEMMA DestroyMarketStep ==
  ASSUME IInv, NEW a \in Actor, UNCHANGED <<owed, mishaps>>, DestroyMarket(a)
  PROVE  IInv'
<1> DEFINE s == Head(work[a])
<1>0. /\ work[a] # <<>> /\ s.op = "destroy"
      /\ \/ Done(a) /\ markets' = Destroyed(s.market)
         \/ Threw(a) /\ UNCHANGED markets
      /\ UNCHANGED <<profiles, identities, settings, last, core>>
  BY DEF DestroyMarket, Running
<1>1. Gives(s) = {}
  BY <1>0 DEF Gives
<1>2. CASE Done(a) /\ markets' = Destroyed(s.market)
  <2>1. There \subseteq There' /\ Data'
    BY <1>0, <1>2, DestroyedData
  <2> QED
    BY <1>0, <1>1, <1>2, <2>1, StepDone, JustDone
<1>3. CASE Threw(a) /\ UNCHANGED markets
  <2>1. There' = There /\ IdentityUsable' /\ MasterKeys' /\ MarketsJoined'
    BY <1>0, <1>3, SameData DEF core
  <2>2. Data'
    BY <1>0, <1>3, <2>1, DataHolds DEF Data, DataTypes, core
  <2> QED
    BY <1>0, <1>3, <2>1, <2>2, StepDone
<1> QED
  BY <1>0, <1>2, <1>3

(* A profile gets the next id: nothing has been joined with it.            *)
LEMMA AddProfileStep ==
  ASSUME IInv, NEW a \in Actor, UNCHANGED <<owed, mishaps>>, AddProfile(a)
  PROVE  IInv'
<1> DEFINE s == Head(work[a])
           fits == s.name \notin Range(profiles)
<1>0. /\ work[a] # <<>> /\ s.op = "addProfile" /\ Finds(a, fits)
      /\ profiles' = IF fits THEN [p \in DOMAIN profiles \cup {s.profile} |->
                                     IF p = s.profile THEN s.name ELSE profiles[p]] ELSE profiles
      /\ last' = IF fits THEN [last EXCEPT !.profile = s.profile] ELSE last
      /\ UNCHANGED <<identities, markets, settings, wallets, loaded, listening>>
  BY DEF AddProfile, Running, core
<1>1. s \in Step /\ 1 \in DOMAIN work[a] /\ work[a][1] = s
  BY <1>0, FirstStep
<1>2. s.profile \in Pid /\ s.name \in ProfileName /\ Gives(s) = {}
  BY <1>0, <1>1, StepFields DEF Gives
<1>3. s.profile = last.profile + 1
  BY <1>0, <1>1 DEF IInv, Adding
<1>d. Data /\ last \in [profile : 0 .. MaxProfiles, market : 0 .. MaxMarkets]
  BY DataHolds DEF Data, DataTypes
<1>4. CASE ~ fits
  <2>1. UNCHANGED <<profiles, identities, wallets, loaded, markets, last>> /\ Threw(a)
    BY <1>0, <1>4 DEF Finds
  <2>2. There' = There /\ IdentityUsable' /\ MasterKeys' /\ MarketsJoined'
    BY <2>1, SameData
  <2>3. Data'
    BY <1>0, <1>d, <2>1, <2>2 DEF Data, DataTypes
  <2> QED
    BY <1>0, <2>1, <2>2, <2>3, StepDone
<1>5. CASE fits
  <2>1. /\ DOMAIN profiles' = DOMAIN profiles \cup {s.profile} /\ profiles'[s.profile] = s.name
        /\ \A p \in DOMAIN profiles : p # s.profile => profiles'[p] = profiles[p]
    BY <1>0, <1>5
  <2>2. /\ last'.profile = s.profile /\ last'.market = last.market
        /\ last' \in [profile : 0 .. MaxProfiles, market : 0 .. MaxMarkets]
    <3>1. s.profile \in 0 .. MaxProfiles
      BY <1>2, MarketsAssumption DEF Pid
    <3> QED
      BY <1>0, <1>5, <1>d, <3>1
  <2>3. \A p \in Nat : \A w : Joined(p, w) =>
          /\ p <= last'.profile
          /\ \E i \in identities' : i.wallet = w /\ (p \in DOMAIN profiles' => i.profile = p)
    BY <1>0, <1>3, <1>d, <2>1, <2>2 DEF Joined
  <2>4. There \subseteq There'
    <3> SUFFICES ASSUME NEW f \in Fact, f \in There PROVE f \in There'
      BY DEF There
    <3>1. CASE f.about = "identity"
      <4>1. f.id \in Nat
        BY DEF Fact
      <4> QED
        BY <2>3, <3>1, <4>1 DEF There, Joined
    <3>2. CASE f.about # "identity"
      BY <1>0, <2>2, <3>2 DEF There
    <3> QED
      BY <3>1, <3>2
  <2>5. MarketsJoined'
    <3> SUFFICES ASSUME NEW m \in DOMAIN markets, markets[m].profile # None
                 PROVE  /\ markets[m].profile <= last'.profile
                        /\ \E i \in identities' :
                             /\ i.wallet = markets[m].wallet
                             /\ markets[m].profile \in DOMAIN profiles' => i.profile = markets[m].profile
      BY <1>0 DEF MarketsJoined, Joined
    <3>1. markets[m].profile \in Nat
      BY <1>d, DataHolds DEF Data, DataTypes, Market, None
    <3>2. Joined(markets[m].profile, markets[m].wallet)
      BY <1>d DEF Data, MarketsJoined
    <3> QED
      BY <2>3, <3>1, <3>2
  <2>6. Data'
    <3>1. IdentityUsable' /\ MasterKeys'
      BY <1>0, <1>d DEF Data, IdentityUsable, Usable, MasterKeys
    <3>2. Range(profiles') \subseteq ProfileName
      BY <1>2, <1>d, <2>1 DEF Data, DataTypes, Range
    <3>3. DOMAIN profiles' \subseteq 1 .. last'.profile
      BY <1>2, <1>3, <1>d, <2>1, <2>2 DEF Data, DataTypes
    <3> QED
      BY <1>0, <1>d, <2>2, <2>5, <3>1, <3>2, <3>3 DEF Data, DataTypes
  <2>7. Replace(a, <<>>) /\ Program(<<>>, There')
    BY <1>0, <1>5, ShortPrograms DEF Finds, Done
  <2>8. Programs' /\ Adding' /\ Booting'
    BY <1>0, <1>2, <2>4, <2>7, Continued
  <2> QED
    BY <2>6, <2>7, <2>8, Together DEF Replace, IInv, TypeOK
<1> QED
  BY <1>4, <1>5

(* The boot sets the default profile.                                      *)
LEMMA SetProfileStep ==
  ASSUME IInv, NEW a \in Actor, UNCHANGED <<owed, mishaps>>, SetProfile(a)
  PROVE  IInv'
<1> DEFINE s == Head(work[a])
<1>0. /\ work[a] # <<>> /\ s.op = "setProfile" /\ Done(a)
      /\ settings' = [settings EXCEPT !.profile = s.profile]
      /\ UNCHANGED <<profiles, identities, markets, last, core>>
  BY DEF SetProfile, Running
<1>1. s.profile \in Pid /\ Gives(s) = {}
  BY <1>0, FirstStep, StepFields DEF Gives
<1>d. Data
  BY DataHolds
<1>2. There' = There /\ IdentityUsable' /\ MasterKeys' /\ MarketsJoined'
  BY <1>0, SameData DEF core
<1>3. /\ settings' \in [profile : Pid \cup {None}, market : [Pid -> Mid \cup {None}]]
      /\ settings'.profile # None
  <2>1. settings \in [profile : Pid \cup {None}, market : [Pid -> Mid \cup {None}]]
    BY <1>d DEF Data, DataTypes
  <2> QED
    BY <1>0, <1>1, <2>1, DataHolds
<1>4. Data'
  BY <1>0, <1>d, <1>2, <1>3 DEF Data, DataTypes, core
<1>5. Replace(a, <<>>) /\ Program(<<>>, There')
  BY <1>0, ShortPrograms DEF Done
<1>6. Programs' /\ Adding' /\ Booting'
  BY <1>0, <1>1, <1>2, <1>3, <1>5, Continued
<1> QED
  BY <1>4, <1>5, <1>6, Together DEF Replace, IInv, TypeOK

(* Every step of a program.                                                *)
LEMMA ProceedStep ==
  ASSUME IInv, NEW a \in Actor, Proceed(a)
  PROVE  IInv'
BY AddProfileStep, SetProfileStep, LookingStep, SeedMarketStep, OpenWalletStep, WalletSteps,
   InsertIdentityStep, InsertMarketStep, JoinMarketStep, SetMarketStep, DestroyMarketStep
   DEF Proceed

-----------------------------------------------------------------------------
(* Core does not answer: the program is over and the rows stay.            *)
LEMMA FaultStep ==
  ASSUME IInv, NEW a \in Actor, Fault(a)
  PROVE  IInv'
<1>1. /\ work[a] # <<>> /\ Threw(a) /\ mishaps' \in 0 .. MaxMishaps /\ owed' \in BOOLEAN
      /\ UNCHANGED <<database, core>>
  BY MarketsAssumption DEF Fault, Mishap, Running, IInv, TypeOK
<1>2. There' = There /\ IdentityUsable' /\ MasterKeys' /\ MarketsJoined'
  BY <1>1, SameData DEF database, core
<1>3. Data'
  BY <1>1, <1>2, DataHolds DEF Data, DataTypes, database, core
<1> QED
  BY <1>1, <1>2, <1>3, Ended, Together DEF database

(* The programs of a node that stops are gone.                             *)
LEMMA CrashStep ==
  ASSUME IInv, Crash
  PROVE  IInv'
<1>1. /\ mishaps' \in 0 .. MaxMishaps /\ owed' \in BOOLEAN /\ boot' = "polling"
      /\ loaded' \in {loaded, {}} /\ UNCHANGED <<database, wallets, listening>>
  BY MarketsAssumption DEF Crash, Mishap, IInv, TypeOK
<1>2. work' \in [Actor -> Seq(Step)] /\ \A a \in Actor : work'[a] = <<>>
  BY DEF Crash
<1>3. IdentityUsable' /\ MasterKeys' /\ MarketsJoined'
  BY <1>1, SameData DEF database
<1>4. Data'
  BY <1>1, <1>3, DataHolds DEF Data, DataTypes, database
<1>5. Programs' /\ Adding' /\ Booting'
  <2>1. Programs'
    BY <1>2 DEF Programs, Backed
  <2>2. Adding'
    BY <1>2 DEF Adding
  <2>3. Booting'
    BY <1>1, <1>2 DEF IInv, Booting, database, Actor
  <2> QED
    BY <2>1, <2>2, <2>3
<1> QED
  BY <1>1, <1>4, <1>5, Together

-----------------------------------------------------------------------------
(* Programs that begin with the step x that adds a profile.                *)
Adds(s, x, there) ==
  /\ s \in Seq(Step) /\ Backed(s, there)
  /\ \A k \in DOMAIN s : s[k].op = "addProfile" => k = 1 /\ s[k] = x

(* The step alone, and the same with a program after it.                   *)
LEMMA AddsAlone ==
  ASSUME NEW x \in Step, x.op = "addProfile", NEW there
  PROVE  Adds(<<x>>, x, there)
<1>1. <<x>> \in Seq(Step) /\ DOMAIN <<x>> = {1} /\ <<x>>[1] = x
  OBVIOUS
<1>2. Needs(x) = {}
  BY DEF Needs
<1> QED
  BY <1>1, <1>2 DEF Adds, Backed
(* A program after one that adds a profile.                                *)
LEMMA AddsMore ==
  ASSUME NEW s, NEW x, NEW t, NEW there, Adds(s, x, there), s # <<>>, Program(t, there)
  PROVE  Adds(s \o t, x, there) /\ s \o t # <<>>
<1>0. s \in Seq(Step) /\ t \in Seq(Step)
  BY DEF Adds, Program
<1>1. /\ s \o t \in Seq(Step) /\ Len(s) \in Nat \ {0} /\ Len(t) \in Nat
      /\ DOMAIN s = 1 .. Len(s) /\ DOMAIN t = 1 .. Len(t)
      /\ Len(s \o t) = Len(s) + Len(t) /\ DOMAIN (s \o t) = 1 .. Len(s) + Len(t)
      /\ \A i \in 1 .. Len(s) + Len(t) :
           (s \o t)[i] = IF i <= Len(s) THEN s[i] ELSE t[i - Len(s)]
  BY <1>0, ConcatProperties, LenProperties, EmptySeq
<1>2. ASSUME NEW k \in DOMAIN (s \o t)
      PROVE  /\ (s \o t)[k].op = "addProfile" => k = 1 /\ (s \o t)[k] = x
             /\ \A f \in Needs((s \o t)[k]) :
                  f \in there \/ \E j \in 1 .. k - 1 : f \in Gives((s \o t)[j])
  <2>1. CASE k <= Len(s)
    <3>1. k \in DOMAIN s /\ (s \o t)[k] = s[k] /\ \A j \in 1 .. k - 1 : (s \o t)[j] = s[j]
      BY <1>1, <2>1
    <3> QED
      BY <3>1 DEF Adds, Backed
  <2>2. CASE k > Len(s)
    <3> DEFINE i == k - Len(s)
    <3>1. i \in DOMAIN t /\ (s \o t)[k] = t[i]
      BY <1>1, <2>2
    <3>2. \A j \in 1 .. i - 1 : /\ j + Len(s) \in 1 .. k - 1
                              /\ (s \o t)[j + Len(s)] = t[j]
      BY <1>1, <2>2
    <3> HIDE DEF i
    <3> QED
      BY <3>1, <3>2 DEF Program, NoAdd, Backed
  <2> QED
    BY <1>1, <2>1, <2>2
<1>3. s \o t # <<>>
  BY <1>1
<1> QED
  BY <1>1, <1>2, <1>3 DEF Adds, Backed

(* The steps of both are in the two programs together.                     *)
LEMMA StepsOfBoth ==
  ASSUME NEW s \in Seq(Step), NEW t \in Seq(Step)
  PROVE  /\ \A i \in DOMAIN s : \E k \in DOMAIN (s \o t) : (s \o t)[k] = s[i]
         /\ \A i \in DOMAIN t : \E k \in DOMAIN (s \o t) : (s \o t)[k] = t[i]
<1>1. /\ Len(s) \in Nat /\ Len(t) \in Nat
      /\ DOMAIN s = 1 .. Len(s) /\ DOMAIN t = 1 .. Len(t)
      /\ DOMAIN (s \o t) = 1 .. Len(s) + Len(t)
      /\ \A i \in 1 .. Len(s) + Len(t) :
           (s \o t)[i] = IF i <= Len(s) THEN s[i] ELSE t[i - Len(s)]
  BY ConcatProperties, LenProperties
<1>2. \A i \in DOMAIN s : i \in DOMAIN (s \o t) /\ (s \o t)[i] = s[i]
  BY <1>1
<1>3. \A i \in DOMAIN t : i + Len(s) \in DOMAIN (s \o t) /\ (s \o t)[i + Len(s)] = t[i]
  BY <1>1
<1> QED
  BY <1>2, <1>3

(* An actor that has nothing to do is given a program.                     *)
LEMMA Given ==
  ASSUME IInv, NEW a \in Actor, work[a] = <<>>, NEW t \in Seq(Step),
         work' = [work EXCEPT ![a] = t], There' = There, Backed(t, There),
         last'.profile = last.profile, boot' = boot \/ boot = "polling",
         \A k \in DOMAIN t : t[k].op = "addProfile" =>
           /\ k = 1 /\ t[k].profile = last.profile + 1
           /\ a # "boot" => boot' = "started"
           /\ \A b \in Actor \ {a} : \A j \in DOMAIN work[b] : work[b][j].op # "addProfile"
  PROVE  Programs' /\ Adding' /\ work'[a] = t /\ \A b \in Actor \ {a} : work'[b] = work[b]
<1>0. work \in [Actor -> Seq(Step)] /\ \A b \in Actor : Backed(work[b], There)
  BY DEF IInv, Programs
<1>1. /\ work' \in [Actor -> Seq(Step)] /\ work'[a] = t
      /\ \A b \in Actor \ {a} : work'[b] = work[b]
  BY <1>0
<1>2. Programs'
  BY <1>0, <1>1 DEF Programs
<1>3. \A b \in Actor : \A k \in DOMAIN work[b] : work[b][k].op = "addProfile" =>
        b = "boot" \/ boot' = boot
  BY DEF IInv, Adding
<1>4. Adding'
  <2> SUFFICES ASSUME NEW b \in Actor, NEW k \in DOMAIN work'[b], work'[b][k].op = "addProfile"
               PROVE  /\ k = 1 /\ work'[b][k].profile = last'.profile + 1
                      /\ b # "boot" => boot' = "started"
                      /\ \A c \in Actor \ {b} : \A j \in DOMAIN work'[c] : work'[c][j].op # "addProfile"
    BY DEF Adding
  <2>1. CASE b = a
    BY <1>1, <2>1
  <2>2. CASE b # a
    <3>1. work'[b] = work[b]
      BY <1>1, <2>2
    <3>2. \A c \in Actor \ {b} : \A j \in DOMAIN work'[c] : work'[c][j].op # "addProfile"
      <4>1. \A j \in DOMAIN t : t[j].op # "addProfile"
        BY <2>2, <3>1
      <4> QED
        BY <1>1, <3>1, <4>1 DEF IInv, Adding
    <3> QED
      BY <1>3, <3>1, <3>2 DEF IInv, Adding
  <2> QED
    BY <2>1, <2>2
<1> QED
  BY <1>1, <1>2, <1>4

(* A command of a client.                                                  *)
LEMMA Commanded ==
  ASSUME IInv, NEW c \in Clients, NEW t \in Seq(Step), Commanding(c, t), Backed(t, There),
         \A k \in DOMAIN t : t[k].op = "addProfile" =>
           /\ k = 1 /\ t[k].profile = last.profile + 1 /\ boot = "started"
           /\ \A b \in Actor \ {c} : \A j \in DOMAIN work[b] : work[b][j].op # "addProfile"
  PROVE  IInv'
<1>1. /\ c \in Actor /\ "boot" \in Actor /\ c # "boot"
      /\ work[c] = <<>> /\ work' = [work EXCEPT ![c] = t]
      /\ UNCHANGED <<database, core, boot, mishaps>> /\ owed' \in BOOLEAN
      /\ mishaps' \in 0 .. MaxMishaps /\ boot' \in {"polling", "booting", "started", "failed"}
  BY MarketsAssumption DEF Commanding, Start, Idle, Actor, IInv, TypeOK
<1>2. There' = There /\ IdentityUsable' /\ MasterKeys' /\ MarketsJoined'
  BY <1>1, SameData DEF database, core
<1>3. Data'
  BY <1>1, <1>2, DataHolds DEF Data, DataTypes, database, core
<1>4. Programs' /\ Adding' /\ \A b \in Actor \ {c} : work'[b] = work[b]
  BY <1>1, <1>2, Given DEF database
<1>5. Booting'
  BY <1>1, <1>4 DEF IInv, Booting, database
<1> QED
  BY <1>1, <1>3, <1>4, <1>5, Together

(* Most commands are programs that add no profile.                         *)
LEMMA CommandedProgram ==
  ASSUME IInv, NEW c \in Clients, NEW t, Commanding(c, t), Program(t, There)
  PROVE  IInv'
BY Commanded DEF Program, NoAdd

(* Only data changes.                                                      *)
LEMMA Untouched ==
  ASSUME IInv, UNCHANGED <<work, boot>>, Data', There \subseteq There',
         last'.profile = last.profile, owed' \in BOOLEAN, mishaps' \in 0 .. MaxMishaps
  PROVE  IInv'
<1>1. Programs'
  BY BackedMono DEF IInv, Programs
<1>2. Adding'
  BY DEF IInv, Adding
<1>3. Booting'
  BY DEF IInv, Booting
<1> QED
  BY <1>1, <1>2, <1>3, Together DEF IInv, TypeOK

-----------------------------------------------------------------------------
(* The path of a new market's key is one: there are never more markets of  *)
(* a profile than markets.                                                 *)
LEMMA PathOfMarket ==
  ASSUME IInv, NEW p
  PROVE  Cardinality(OfProfile(p)) \in Path
<1>1. OfProfile(p) \subseteq 1 .. last.market /\ last.market \in 0 .. MaxMarkets
  BY DataHolds DEF OfProfile, Data, DataTypes
<1>2. IsFiniteSet(1 .. last.market) /\ Cardinality(1 .. last.market) = last.market
  <2>1. last.market \in Nat /\ 1 \in Int /\ last.market \in Int
    BY <1>1, MarketsAssumption
  <2> DEFINE n == last.market
  <2> HIDE DEF n
  <2>2. n \in Nat => IsFiniteSet(1 .. n) /\ Cardinality(1 .. n) = n
    BY FS_Interval
  <2> QED
    BY <2>1, <2>2 DEF n
<1>3. /\ IsFiniteSet(OfProfile(p)) /\ Cardinality(OfProfile(p)) <= last.market
  BY <1>1, <1>2, FS_Subset
<1>4. Cardinality(OfProfile(p)) \in Nat
  BY <1>3, FS_CardinalityType
<1> QED
  BY <1>1, <1>3, <1>4, MarketsAssumption DEF Path, MasterPath

(* The programs that make a profile join a market: with an identity that   *)
(* is made for it, or with one that the profile has.                       *)
LEMMA JoinPrograms ==
  ASSUME IInv, NEW p \in DOMAIN profiles, NEW n \in Names, NEW address \in Addresses
  PROVE  /\ Program(Append(MarketIdentity(p, profiles[p], n, Cardinality(OfProfile(p))),
                           CreateMarket(n, address, p, MarketWallet(profiles[p], n), FALSE)), There)
         /\ \A i \in identities : i.profile = p =>
              Program(<<CreateMarket(n, address, p, i.wallet, FALSE)>>, There)
<1>1. p \in Pid /\ profiles[p] \in ProfileName /\ p <= last.profile /\ p # None /\ p \in Nat
  BY DataHolds
<1>2. Cardinality(OfProfile(p)) \in Path
  BY PathOfMarket
<1> DEFINE Row(w) == [name |-> n, old |-> FALSE, address |-> address, profile |-> p, wallet |-> w]
<1>3. Program(Append(MarketIdentity(p, profiles[p], n, Cardinality(OfProfile(p))),
                     CreateMarket(n, address, p, MarketWallet(profiles[p], n), FALSE)), There)
  <2> DEFINE w == MarketWallet(profiles[p], n)
             row == Row(w)
  <2>1. w \in Wallet
    BY <1>1, WalletKinds DEF ShopWallet
  <2>2. row \in Market /\ row.profile = p /\ row.wallet = w
    BY <1>1, <2>1, MarketRow
  <2> HIDE DEF row
  <2>3. Program(Append(MarketIdentity(p, profiles[p], n, Cardinality(OfProfile(p))),
                       [op |-> "market", seeds |-> FALSE, row |-> row]), There)
    BY <1>1, <1>2, <2>2, JoiningProgram
  <2> QED
    BY <2>3 DEF CreateMarket, row
<1>4. ASSUME NEW i \in identities, i.profile = p
      PROVE  Program(<<CreateMarket(n, address, p, i.wallet, FALSE)>>, There)
  <2> DEFINE row == Row(i.wallet)
             x == [op |-> "market", seeds |-> FALSE, row |-> row]
  <2>1. i.wallet \in Wallet
    BY DataHolds DEF Data, DataTypes, Identity
  <2>2. row \in Market /\ row.profile = p /\ row.wallet = i.wallet
    BY <1>1, <2>1, MarketRow
  <2>3. OfIdentity(p, i.wallet) \in There
    <3>1. Joined(p, i.wallet)
      BY <1>1, <1>4 DEF Joined
    <3> QED
      BY <1>1, <2>1, <3>1, ThereFacts
  <2>4. x \in Step /\ x.op # "addProfile" /\ Needs(x) \subseteq There
    <3> HIDE DEF row
    <3>1. x \in Step
      BY <2>2, StepKinds
    <3>2. x.op # "addProfile" /\ Needs(x) = {OfIdentity(p, i.wallet)}
      BY <1>1, <2>2 DEF Needs
    <3> QED
      BY <2>3, <3>1, <3>2
  <2> HIDE DEF x
  <2>5. Program(<<x>>, There)
    BY <2>4, ShortPrograms
  <2> QED
    BY <2>5 DEF CreateMarket, x
<1> QED
  BY <1>3, <1>4

(* Adding a market, with or without joining it.                            *)
LEMMA MarketAddStep ==
  ASSUME IInv, NEW c \in Clients, NEW p \in DOMAIN profiles, NEW n \in MarketName,
         NEW address \in Address, NEW skipJoin \in BOOLEAN, MarketAdd(c, p, n, address, skipJoin)
  PROVE  IInv'
<1> DEFINE x == [op |-> "unjoined", name |-> n, address |-> address]
           row == [name |-> n, old |-> FALSE, address |-> address, profile |-> None,
                   wallet |-> NoWallet]
           y == [op |-> "market", seeds |-> FALSE, row |-> row]
<1>1. n \in Names /\ address \in Addresses
  BY DEF Names, Addresses
<1>2. Program(<<x, y>>, There)
  <2>1. row \in Market /\ row.profile = None
    BY <1>1, MarketRow
  <2> HIDE DEF row
  <2>2. x \in Step /\ y \in Step
    BY <1>1, <2>1, StepKinds
  <2>3. x.op # "addProfile" /\ y.op # "addProfile" /\ Needs(x) = {} /\ Needs(y) = {}
    BY <2>1 DEF Needs
  <2> HIDE DEF x, y
  <2> QED
    BY <2>2, <2>3, TwoSteps
<1>3. \/ Commanding(c, <<x, y>>)
      \/ Commanding(c, Append(MarketIdentity(p, profiles[p], n, Cardinality(OfProfile(p))),
                              CreateMarket(n, address, p, MarketWallet(profiles[p], n), FALSE)))
      \/ \E i \in identities :
           i.profile = p /\ Commanding(c, <<CreateMarket(n, address, p, i.wallet, FALSE)>>)
  BY DEF MarketAdd, CreateMarket
<1> HIDE DEF x, y
<1> QED
  BY <1>1, <1>2, <1>3, JoinPrograms, CommandedProgram

(* Joining a market that is there.                                         *)
LEMMA MarketJoinStep ==
  ASSUME IInv, NEW c \in Clients, NEW p \in DOMAIN profiles, NEW m \in DOMAIN markets,
         MarketJoin(c, p, m)
  PROVE  IInv'
<1> DEFINE n == markets[m].name
           address == markets[m].address
<1>1. n \in Names /\ address \in Addresses
  BY DataHolds DEF Data, DataTypes, Market
<1>2. \/ Commanding(c, Append(MarketIdentity(p, profiles[p], n, Cardinality(OfProfile(p))),
                              CreateMarket(n, address, p, MarketWallet(profiles[p], n), FALSE)))
      \/ \E i \in identities :
           i.profile = p /\ Commanding(c, <<CreateMarket(n, address, p, i.wallet, FALSE)>>)
  BY DEF MarketJoin
<1> HIDE DEF n, address
<1> QED
  BY <1>1, <1>2, JoinPrograms, CommandedProgram

(* The commands of one step: removing a market, setting or making the      *)
(* default one.                                                            *)
LEMMA ShortCommands ==
  ASSUME IInv, NEW c \in Clients,
         \/ \E m \in DOMAIN markets : MarketRemove(c, m)
         \/ \E p \in DOMAIN profiles, m \in DOMAIN markets : MarketDefault(c, p, m)
         \/ \E p \in DOMAIN profiles : MarketDefaultGet(c, p)
  PROVE  IInv'
<1>0. /\ \A p \in DOMAIN profiles : p \in Pid
      /\ \A m \in DOMAIN markets : m \in Mid
  BY DataHolds, MarketsAssumption DEF Data, DataTypes, Mid
<1>1. PICK x : /\ Commanding(c, <<x>>)
               /\ \/ \E m \in Mid : x = [op |-> "destroy", market |-> m]
                  \/ \E p \in Pid, m \in Mid : x = [op |-> "setMarket", profile |-> p, market |-> m]
                  \/ \E p \in Pid : x = [op |-> "seedMarket", profile |-> p]
  BY <1>0 DEF MarketRemove, MarketDefault, MarketDefaultGet
<1>2. x \in Step /\ x.op # "addProfile" /\ Needs(x) = {}
  <2>1. x \in Step
    BY <1>1, StepKinds
  <2>2. x.op \in {"destroy", "setMarket", "seedMarket"}
    BY <1>1
  <2> QED
    BY <2>1, <2>2 DEF Needs
<1>3. Program(<<x>>, There)
  BY <1>2, ShortPrograms
<1> QED
  BY <1>1, <1>3, CommandedProgram

(* An identity of a market, for itself.                                    *)
LEMMA IdentityAddStep ==
  ASSUME IInv, NEW c \in Clients, NEW p \in DOMAIN profiles, NEW n \in MarketName,
         IdentityAdd(c, p, n)
  PROVE  IInv'
<1>1. p \in Pid /\ profiles[p] \in ProfileName /\ n \in Names /\ Cardinality(OfProfile(p)) \in Path
  BY DataHolds, PathOfMarket DEF Names
<1>2. Program(MarketIdentity(p, profiles[p], n, Cardinality(OfProfile(p))), There)
  BY <1>1, MarketIdentityProgram
<1> QED
  BY <1>2, CommandedProgram DEF IdentityAdd

(* A profile is added with the next id, by one client at a time: the boot  *)
(* that might add one has ended.                                           *)
LEMMA ProfileAddStep ==
  ASSUME IInv, NEW c \in Clients, NEW name \in ProfileName, ProfileAdd(c, name)
  PROVE  IInv'
<1> DEFINE p == last.profile + 1
           x == [op |-> "addProfile", profile |-> p, name |-> name]
           t == ProfileIdentity(p, name)
<1>1. /\ boot = "started" /\ last.profile < MaxProfiles
      /\ \A b \in Clients : \A k \in DOMAIN work[b] : work[b][k].op # "addProfile"
      /\ Commanding(c, <<x>> \o t)
  BY DEF ProfileAdd
<1>2. p \in Pid
  BY <1>1, DataHolds, MarketsAssumption DEF Data, DataTypes, Pid
<1>3. x \in Step /\ x.op = "addProfile" /\ x.profile = last.profile + 1
  BY <1>2, StepKinds
<1>4. Program(t, There)
  BY <1>2, ProfileIdentityProgram
<1> HIDE DEF x, t
<1>5. <<x>> # <<>> /\ Adds(<<x>>, x, There)
  BY <1>3, AddsAlone
<1>6. Adds(<<x>> \o t, x, There)
  BY <1>4, <1>5, AddsMore
<1>7. \A b \in Actor : \A k \in DOMAIN work[b] : work[b][k].op # "addProfile"
  BY <1>1 DEF IInv, Adding, Booting, Actor
<1> QED
  BY <1>1, <1>3, <1>6, <1>7, Commanded DEF Adds

(* Another profile is made the default.                                    *)
LEMMA ProfileDefaultStep ==
  ASSUME IInv, NEW c \in Clients, NEW p \in DOMAIN profiles, ProfileDefault(c, p)
  PROVE  IInv'
<1>1. /\ boot = "started" /\ settings' = [settings EXCEPT !.profile = p]
      /\ UNCHANGED <<profiles, identities, markets, last, core, boot, work, owed, mishaps>>
  BY DEF ProfileDefault
<1>2. p \in Pid /\ p # None
  BY DataHolds
<1>3. There' = There /\ IdentityUsable' /\ MasterKeys' /\ MarketsJoined'
  BY <1>1, SameData DEF core
<1>4. /\ settings' \in [profile : Pid \cup {None}, market : [Pid -> Mid \cup {None}]]
      /\ settings'.profile = p
  <2>1. settings \in [profile : Pid \cup {None}, market : [Pid -> Mid \cup {None}]]
    BY DataHolds DEF Data, DataTypes
  <2> QED
    BY <1>1, <1>2, <2>1
<1>5. Data'
  BY <1>1, <1>3, <1>4, DataHolds DEF Data, DataTypes, core
<1> QED
  BY <1>1, <1>2, <1>3, <1>4, <1>5, Untouched DEF IInv, TypeOK

(* A mishap more is still within the bound.                                *)
LEMMA MishapCounted ==
  ASSUME IInv, Mishap
  PROVE  mishaps' \in 0 .. MaxMishaps
<1>1. mishaps \in 0 .. MaxMishaps /\ MaxMishaps \in Nat
  BY MarketsAssumption DEF IInv, TypeOK
<1>2. mishaps < MaxMishaps /\ mishaps' = mishaps + 1
  BY DEF Mishap
<1> QED
  BY <1>1, <1>2

(* The settings are changed as such, at any time.                          *)
LEMMA SettingsStep ==
  ASSUME IInv, SettingRemove \/ \E c \in Clients, p \in DOMAIN profiles : SettingSet(c, p)
  PROVE  IInv'
<1> DEFINE Types == [profile : Pid \cup {None}, market : [Pid -> Mid \cup {None}]]
<1>1. /\ UNCHANGED <<profiles, identities, markets, last, core, boot, work>>
      /\ owed' \in BOOLEAN /\ mishaps' \in 0 .. MaxMishaps
  <2>1. /\ UNCHANGED <<profiles, identities, markets, last, core, boot, work>>
        /\ owed' = FALSE \/ owed' = owed
    BY DEF SettingRemove, SettingSet
  <2>2. Mishap
    BY DEF SettingRemove, SettingSet
  <2>3. owed \in BOOLEAN
    BY DEF IInv, TypeOK
  <2> QED
    BY <2>1, <2>2, <2>3, MishapCounted
<1>2. settings' \in Types
  <2>1. settings \in Types /\ \A p \in DOMAIN profiles : p \in Pid
    BY DataHolds DEF Data, DataTypes
  <2>2. \/ \E q \in Pid \cup {None} : settings' = [settings EXCEPT !.profile = q]
        \/ \E p \in Pid, m \in Mid \cup {None} : settings' = [settings EXCEPT !.market[p] = m]
    BY <2>1 DEF SettingRemove, SettingSet
  <2> QED
    BY <2>1, <2>2
<1>3. There' = There /\ IdentityUsable' /\ MasterKeys' /\ MarketsJoined'
  BY <1>1, SameData DEF core
<1>4. Data'
  BY <1>1, <1>2, <1>3, DataHolds DEF Data, DataTypes, core
<1> QED
  BY <1>1, <1>3, <1>4, Untouched

(* A profile is removed, and its identities are of none: what its markets  *)
(* were joined with stays.                                                 *)
LEMMA ProfileRemoveStep ==
  ASSUME IInv, NEW c \in Clients, NEW p \in DOMAIN profiles, ProfileRemove(c, p)
  PROVE  IInv'
<1> DEFINE Left(i) == IF i.profile = p THEN [i EXCEPT !.profile = None] ELSE i
<1>1. /\ boot = "started" /\ profiles' = [q \in DOMAIN profiles \ {p} |-> profiles[q]]
      /\ identities' = {Left(i) : i \in identities}
      /\ settings' = [settings EXCEPT !.market[p] = None]
      /\ UNCHANGED <<markets, last, wallets, loaded, listening, boot, work, owed, mishaps>>
  BY DEF ProfileRemove, core
<1>2. Data /\ p \in Pid /\ p # None
  BY DataHolds
<1>3. \A i \in identities : /\ Left(i) \in Identity
                            /\ Left(i).wallet = i.wallet /\ Left(i).path = i.path
                            /\ i.profile # p => Left(i).profile = i.profile
  BY <1>2 DEF Data, DataTypes, Identity
<1> HIDE DEF Left
<1>4. /\ DOMAIN profiles' = DOMAIN profiles \ {p}
      /\ \A q \in DOMAIN profiles' : profiles'[q] = profiles[q]
  BY <1>1
<1>5. ASSUME NEW q, NEW w, Joined(q, w)
      PROVE  /\ q <= last'.profile
             /\ \E i \in identities' : i.wallet = w /\ (q \in DOMAIN profiles' => i.profile = q)
  <2>1. PICK i \in identities : i.wallet = w /\ (q \in DOMAIN profiles => i.profile = q)
    BY <1>5 DEF Joined
  <2>2. Left(i) \in identities' /\ Left(i).wallet = w
    BY <1>1, <1>3, <2>1
  <2>3. q \in DOMAIN profiles' => Left(i).profile = q
    BY <1>3, <1>4, <2>1
  <2>4. q <= last'.profile
    BY <1>1, <1>5 DEF Joined
  <2> QED
    BY <2>2, <2>3, <2>4
<1>6. There \subseteq There'
  BY <1>1, <1>5 DEF There, Joined
<1>7. MarketsJoined'
  <2> SUFFICES ASSUME NEW m \in DOMAIN markets, markets[m].profile # None
               PROVE  /\ markets[m].profile <= last'.profile
                      /\ \E i \in identities' :
                           /\ i.wallet = markets[m].wallet
                           /\ markets[m].profile \in DOMAIN profiles' => i.profile = markets[m].profile
    BY <1>1 DEF MarketsJoined, Joined
  <2>1. Joined(markets[m].profile, markets[m].wallet)
    BY <1>2 DEF Data, MarketsJoined
  <2> QED
    BY <1>5, <2>1
<1>8. IdentityUsable' /\ MasterKeys'
  BY <1>1, <1>2, <1>3 DEF Data, IdentityUsable, Usable, MasterKeys
<1>9. /\ settings' \in [profile : Pid \cup {None}, market : [Pid -> Mid \cup {None}]]
      /\ settings'.profile = settings.profile
  <2>1. settings \in [profile : Pid \cup {None}, market : [Pid -> Mid \cup {None}]]
    BY <1>2 DEF Data, DataTypes
  <2> QED
    BY <1>1, <1>2, <2>1
<1>10. Data'
  <2>1. Range(profiles') \subseteq ProfileName
    BY <1>2, <1>4 DEF Data, DataTypes, Range
  <2>2. DOMAIN profiles' \subseteq 1 .. last'.profile /\ identities' \subseteq Identity
    BY <1>1, <1>2, <1>3, <1>4 DEF Data, DataTypes
  <2> QED
    BY <1>1, <1>2, <1>7, <1>8, <1>9, <2>1, <2>2 DEF Data, DataTypes
<1> QED
  BY <1>1, <1>6, <1>10, Untouched DEF IInv, TypeOK

(* Markets of others: one is promoted, one expires.  One is voted out.     *)
LEMMA OthersMarketsStep ==
  ASSUME IInv, \/ \E n \in MarketName, address \in Address : ReceiveMarketAdd(n, address)
               \/ \E m \in DOMAIN markets : ExpireMarket(m) \/ VotedOut(m)
  PROVE  IInv'
<1>1. ASSUME NEW m \in DOMAIN markets, ExpireMarket(m) \/ VotedOut(m)
      PROVE  IInv'
  <2>1. /\ markets' = Destroyed(m)
        /\ UNCHANGED <<profiles, identities, settings, last, core, boot, work>>
        /\ owed' \in BOOLEAN /\ mishaps' \in 0 .. MaxMishaps
    <3>1. mishaps \in 0 .. MaxMishaps /\ owed \in BOOLEAN
      BY DEF IInv, TypeOK
    <3>2. CASE ExpireMarket(m)
      BY <3>1, <3>2 DEF ExpireMarket
    <3>3. CASE VotedOut(m)
      BY <3>3, MishapCounted DEF VotedOut
    <3> QED
      BY <1>1, <3>2, <3>3
  <2> QED
    BY <2>1, DestroyedData, Untouched
<1>2. ASSUME NEW n \in MarketName, NEW address \in Address, ReceiveMarketAdd(n, address)
      PROVE  IInv'
  <2> DEFINE m == last.market + 1
             row == [name |-> n, old |-> FALSE, address |-> address, profile |-> None,
                     wallet |-> NoWallet]
  <2>d. Data /\ last \in [profile : 0 .. MaxProfiles, market : 0 .. MaxMarkets]
        /\ DOMAIN markets \subseteq 1 .. last.market
    BY DataHolds DEF Data, DataTypes
  <2>1. /\ Room /\ last' = [last EXCEPT !.market = @ + 1]
        /\ markets' = [k \in DOMAIN markets \cup {last'.market} |->
                         IF k = last'.market THEN row ELSE markets[k]]
        /\ UNCHANGED <<profiles, identities, settings, wallets, loaded, listening>>
        /\ UNCHANGED <<boot, work, owed, mishaps>>
    BY <1>2 DEF ReceiveMarketAdd, core
  <2>2. m \in Nat /\ m \in 0 .. MaxMarkets
    <3> DEFINE busy == {a \in Actor : \E k \in DOMAIN work[a] : work[a][k].op = "market"}
    <3>1. IsFiniteSet(Actor)
      BY MarketsAssumption, FS_Singleton, FS_Union DEF Actor
    <3>2. Cardinality(busy) \in Nat
      BY <3>1, FS_Subset, FS_CardinalityType
    <3>3. last.market + Cardinality(busy) + 1 < MaxMarkets
      BY <2>1 DEF Room, Seeds
    <3> QED
      BY <2>d, <3>2, <3>3, MarketsAssumption
  <2>3. /\ last'.market = m /\ last'.profile = last.profile
        /\ last' \in [profile : 0 .. MaxProfiles, market : 0 .. MaxMarkets]
    BY <2>1, <2>2, <2>d
  <2>4. row \in Market /\ row.profile = None
    BY MarketRow DEF Names, Addresses
  <2> HIDE DEF row
  <2>5. /\ DOMAIN markets' = DOMAIN markets \cup {m} /\ markets'[m] = row /\ m \notin DOMAIN markets
        /\ \A k \in DOMAIN markets : markets'[k] = markets[k]
    <3>1. m \notin DOMAIN markets
      BY <2>d
    <3> QED
      BY <2>1, <2>3, <3>1
  <2>6. There \subseteq There'
    <3> SUFFICES ASSUME NEW f \in Fact, f \in There PROVE f \in There'
      BY DEF There
    <3>1. CASE f.about = "market"
      <4>1. f.id \in Nat /\ f.id <= last.market
        BY <3>1 DEF There, Fact
      <4>2. f.id <= m /\ f.id # m
        BY <2>d, <4>1
      <4> QED
        BY <2>3, <2>5, <3>1, <4>2 DEF There
    <3>2. CASE f.about # "market"
      BY <2>1, <2>3, <3>2 DEF There, Joined
    <3> QED
      BY <3>1, <3>2
  <2>7. Data'
    <3>1. MarketsJoined'
      BY <2>1, <2>3, <2>4, <2>5, <2>d DEF Data, MarketsJoined, Joined
    <3>2. IdentityUsable' /\ MasterKeys'
      BY <2>1, <2>d DEF Data, IdentityUsable, Usable, MasterKeys
    <3>3. DOMAIN markets' \subseteq 1 .. last'.market
      BY <2>d, <2>3, <2>5
    <3>4. \A k \in DOMAIN markets' : markets'[k] \in Market
      BY <2>d, <2>4, <2>5 DEF Data, DataTypes
    <3> QED
      BY <2>1, <2>3, <2>d, <3>1, <3>2, <3>3, <3>4 DEF Data, DataTypes
  <2> QED
    BY <2>1, <2>3, <2>6, <2>7, Untouched DEF IInv, TypeOK
<1> QED
  BY <1>1, <1>2

-----------------------------------------------------------------------------
(* The boot's programs: for a default profile that is known ...            *)
LEMMA RestProgram ==
  ASSUME NEW p \in Pid, NEW there
  PROVE  Program(Rest(p), there)
<1> DEFINE x == [op |-> "loadAll", profile |-> p]
           y == [op |-> "seedMarket", profile |-> p]
<1>1. x \in Step /\ y \in Step
  BY StepKinds
<1>2. x.op # "addProfile" /\ y.op # "addProfile" /\ Needs(x) = {} /\ Needs(y) = {}
  BY DEF Needs
<1>3. Rest(p) = <<x, y>>
  BY DEF Rest
<1> HIDE DEF x, y
<1> QED
  BY <1>1, <1>2, <1>3, TwoSteps

(* ... for an upgrade ...                                                  *)
LEMMA UpgradeProgram ==
  ASSUME NEW p \in Pid, profiles[p] \in ProfileName, NEW there
  PROVE  Program(Upgrade(p) \o Rest(p), there)
<1> DEFINE x == [op |-> "rename", profile |-> p]
           s == ProfileIdentity(p, profiles[p])
<1>1. x \in Step /\ x.op # "addProfile" /\ Needs(x) = {}
  BY StepKinds DEF Needs
<1>2. Program(s, there)
  BY ProfileIdentityProgram
<1>3. Upgrade(p) = Append(s, x)
  BY DEF Upgrade
<1> HIDE DEF x, s
<1>4. Program(Append(s, x), there)
  BY <1>1, <1>2, Appended
<1> QED
  BY <1>3, <1>4, RestProgram, Concatenated

(* ... and where no default is set, which the program then does.           *)
LEMMA SeedProfileProgram ==
  ASSUME NEW p \in Pid, p \in DOMAIN profiles => profiles[p] \in ProfileName, NEW there
  PROVE  LET t == SeedProfile(p) \o Rest(p)
             x == [op |-> "addProfile", profile |-> p, name |-> "DEFAULT"]
         IN /\ Adds(t, x, there) /\ t # <<>>
            /\ p \in DOMAIN profiles => NoAdd(t)
            /\ \E k \in DOMAIN t : t[k].op = "setProfile"
<1> DEFINE x == [op |-> "addProfile", profile |-> p, name |-> "DEFAULT"]
           y == [op |-> "setProfile", profile |-> p]
           made == ProfileIdentity(p, "DEFAULT")
           s == IF HasIdentity(p) THEN <<>> ELSE ProfileIdentity(p, profiles[p])
           r == Rest(p)
           t == SeedProfile(p) \o r
<1>1. /\ x \in Step /\ x.op = "addProfile" /\ y \in Step /\ y.op = "setProfile" /\ Needs(y) = {}
  BY MarketsAssumption, StepKinds DEF Needs
<1>2. /\ Program(made, there) /\ (p \in DOMAIN profiles => Program(s, there)) /\ Program(r, there)
      /\ Program(<<y>>, there)
  <2>1. Program(made, there)
    BY MarketsAssumption, ProfileIdentityProgram
  <2>2. p \in DOMAIN profiles => Program(s, there)
    BY ProfileIdentityProgram, ShortPrograms
  <2>3. Program(<<y>>, there)
    <3> HIDE DEF y
    <3> QED
      BY <1>1, ShortPrograms
  <2> QED
    BY <2>1, <2>2, <2>3, RestProgram
<1>3. SeedProfile(p) = (IF p \notin DOMAIN profiles THEN <<x>> \o made ELSE s) \o <<y>>
  BY DEF SeedProfile
<1> HIDE DEF x, y, made, s, r
<1>4. SeedProfile(p) \in Seq(Step) /\ Adds(t, x, there) /\ (p \in DOMAIN profiles => NoAdd(t))
  <2>1. CASE p \in DOMAIN profiles
    <3>1. Program(s \o <<y>>, there)
      BY <1>2, <2>1, Concatenated
    <3>2. Program((s \o <<y>>) \o r, there)
      BY <1>2, <3>1, Concatenated
    <3> QED
      BY <1>3, <2>1, <3>1, <3>2 DEF Program, NoAdd, Adds
  <2>2. CASE p \notin DOMAIN profiles
    <3>1. Adds(<<x>>, x, there) /\ <<x>> # <<>>
      BY <1>1, AddsAlone
    <3>2. Adds(<<x>> \o made, x, there) /\ <<x>> \o made # <<>>
      BY <1>2, <3>1, AddsMore
    <3>3. Adds((<<x>> \o made) \o <<y>>, x, there) /\ (<<x>> \o made) \o <<y>> # <<>>
      BY <1>2, <3>2, AddsMore
    <3>4. Adds(((<<x>> \o made) \o <<y>>) \o r, x, there)
      BY <1>2, <3>3, AddsMore
    <3> QED
      BY <1>3, <2>2, <3>3, <3>4 DEF Adds
  <2> QED
    BY <2>1, <2>2
<1>5. \E k \in DOMAIN t : t[k].op = "setProfile"
  <2> DEFINE end == <<y>>
             h == SeedProfile(p)
  <2>1. PICK before \in Seq(Step) : h = before \o end
    <3>1. <<x>> \o made \in Seq(Step)
      BY <1>1, <1>2, ConcatProperties DEF Program
    <3> QED
      BY <1>2, <1>3, <3>1 DEF Program
  <2>2. end \in Seq(Step) /\ 1 \in DOMAIN end /\ end[1] = y
    BY <1>1
  <2>3. h \in Seq(Step) /\ r \in Seq(Step) /\ t = h \o r
    BY <1>2, <1>4 DEF Program
  <2> HIDE DEF end, h, t
  <2>4. \E k \in DOMAIN h : h[k] = y
    BY <2>1, <2>2, StepsOfBoth
  <2>5. \E k \in DOMAIN t : t[k] = y
    <3>1. \A i \in DOMAIN h : \E k \in DOMAIN (h \o r) : (h \o r)[k] = h[i]
      BY <2>3, StepsOfBoth
    <3> QED
      BY <2>3, <2>4, <3>1
  <2> QED
    BY <1>1, <2>5
<1>6. t # <<>>
  BY <1>5
<1> QED
  BY <1>4, <1>5, <1>6 DEF x, r

(* The first profile is one there is, or the next one to be added.         *)
LEMMA FirstProfile ==
  ASSUME IInv
  PROVE  LET first == Min(DOMAIN profiles \cup {last.profile + 1})
         IN /\ first \in DOMAIN profiles \cup {last.profile + 1}
            /\ first <= MaxProfiles => first \in Pid
            /\ first \in DOMAIN profiles => profiles[first] \in ProfileName
<1> DEFINE S == DOMAIN profiles \cup {last.profile + 1}
<1>1. S \subseteq Nat \ {0} /\ S # {}
  BY DataHolds, MarketsAssumption DEF Data, DataTypes, Pid
<1>2. \E x \in S : \A y \in S : x <= y
  <2> HIDE DEF S
  <2>1. PICK x \in S : \A y \in S : <<y, x>> \notin OpToRel(<, Nat)
    BY <1>1, NatLessThanWellFounded, WFMin, Zenon
  <2>2. \A y \in S : ~ (y < x)
    BY <1>1, <2>1 DEF OpToRel
  <2> QED
    BY <1>1, <2>2
<1>3. Min(S) \in S
  BY <1>2 DEF Min
<1>4. Min(S) <= MaxProfiles => Min(S) \in Pid
  BY <1>1, <1>3, MarketsAssumption DEF Pid
<1> HIDE DEF S
<1>5. Min(S) \in DOMAIN profiles => profiles[Min(S)] \in ProfileName
  BY DataHolds
<1> QED
  BY <1>3, <1>4, <1>5 DEF S

(* The boot begins.                                                        *)
LEMMA BeginBootStep ==
  ASSUME IInv, BeginBoot
  PROVE  IInv'
<1> DEFINE p == settings.profile
           first == Min(DOMAIN profiles \cup {last.profile + 1})
<1>0. /\ boot = "polling" /\ UNCHANGED <<database, core, mishaps>> /\ owed' = (owed \/ Seeded)
      /\ \/ /\ p \in DOMAIN profiles /\ boot' = "booting"
            /\ Start("boot", Upgrade(p) \o Rest(p)) \/ Start("boot", Rest(p))
         \/ /\ p = None /\ first <= MaxProfiles /\ boot' = "booting"
            /\ Start("boot", SeedProfile(first) \o Rest(first))
         \/ p \notin DOMAIN profiles \cup {None} /\ boot' = "failed" /\ UNCHANGED work
  BY DEF BeginBoot, IsUpgrading
<1>1. There' = There /\ IdentityUsable' /\ MasterKeys' /\ MarketsJoined'
  BY <1>0, SameData DEF database, core
<1>2. /\ Data' /\ "boot" \in Actor /\ work["boot"] = <<>>
      /\ boot' \in {"polling", "booting", "started", "failed"}
      /\ owed' \in BOOLEAN /\ mishaps' \in 0 .. MaxMishaps
  <2>1. Data'
    BY <1>0, <1>1, DataHolds DEF Data, DataTypes, database, core
  <2>2. owed' \in BOOLEAN
    BY <1>0 DEF IInv, TypeOK, Seeded
  <2> QED
    BY <1>0, <2>1, <2>2 DEF IInv, Booting, TypeOK, Actor
<1>3. UNCHANGED <<settings, profiles, last>>
  BY <1>0 DEF database
<1>4. \A a \in Actor : \A k \in DOMAIN work[a] : work[a][k].op # "addProfile"
  BY <1>0, <1>2 DEF IInv, Adding
<1>5. CASE p \in DOMAIN profiles /\ boot' = "booting"
           /\ (Start("boot", Upgrade(p) \o Rest(p)) \/ Start("boot", Rest(p)))
  <2>1. PICK t : Start("boot", t) /\ Program(t, There)
    BY <1>5, DataHolds, UpgradeProgram, RestProgram
  <2>2. work' = [work EXCEPT !["boot"] = t]
    BY <2>1 DEF Start
  <2>3. t \in Seq(Step) /\ Backed(t, There) /\ \A k \in DOMAIN t : t[k].op # "addProfile"
    BY <2>1 DEF Program, NoAdd
  <2>4. Programs' /\ Adding'
    BY <1>0, <1>1, <1>2, <1>3, <2>2, <2>3, Given
  <2>5. Booting'
    BY <1>5 DEF Booting
  <2> QED
    BY <1>2, <2>4, <2>5, Together
<1>6. CASE /\ p = None /\ first <= MaxProfiles /\ boot' = "booting"
           /\ Start("boot", SeedProfile(first) \o Rest(first))
  <2> DEFINE t == SeedProfile(first) \o Rest(first)
             x == [op |-> "addProfile", profile |-> first, name |-> "DEFAULT"]
  <2>3. /\ first \in Pid /\ (first \in DOMAIN profiles => profiles[first] \in ProfileName)
        /\ first \notin DOMAIN profiles => first = last.profile + 1
    BY <1>6, FirstProfile
  <2> HIDE DEF first
  <2>4. Adds(t, x, There) /\ (first \in DOMAIN profiles => NoAdd(t))
    BY <2>3, SeedProfileProgram
  <2>5. x.profile = first
    OBVIOUS
  <2> HIDE DEF t, x
  <2>6. work' = [work EXCEPT !["boot"] = t]
    BY <1>6 DEF Start, t
  <2>7. /\ t \in Seq(Step) /\ Backed(t, There)
        /\ \A k \in DOMAIN t : t[k].op = "addProfile" =>
             /\ k = 1 /\ t[k].profile = last.profile + 1
             /\ \A b \in Actor \ {"boot"} : \A j \in DOMAIN work[b] : work[b][j].op # "addProfile"
    BY <1>4, <2>3, <2>4, <2>5 DEF Adds, NoAdd
  <2>8. Programs' /\ Adding' /\ work'["boot"] = t
    <3>1. last'.profile = last.profile /\ "boot" \in Actor
      BY <1>2, <1>3
    <3> DEFINE a == "boot"
    <3>2. \A k \in DOMAIN t : t[k].op = "addProfile" =>
            /\ k = 1 /\ t[k].profile = last.profile + 1
            /\ a # "boot" => boot' = "started"
            /\ \A b \in Actor \ {a} : \A j \in DOMAIN work[b] : work[b][j].op # "addProfile"
      BY <2>7
    <3>3. /\ a \in Actor /\ work[a] = <<>> /\ work' = [work EXCEPT ![a] = t]
          /\ boot' = boot \/ boot = "polling"
      BY <1>0, <1>2, <2>6
    <3>4. a = "boot" /\ t \in Seq(Step) /\ Backed(t, There)
      BY <2>7
    <3> HIDE DEF a
    <3>5. Programs' /\ Adding' /\ work'[a] = t
      BY <1>1, <3>1, <3>2, <3>3, <3>4, Given
    <3> QED
      BY <3>4, <3>5
  <2>9. Booting'
    BY <1>6 DEF Booting
  <2> QED
    BY <1>2, <2>8, <2>9, Together
<1>7. CASE p \notin DOMAIN profiles \cup {None} /\ boot' = "failed" /\ UNCHANGED work
  <2>1. Programs'
    BY <1>1, <1>7 DEF IInv, Programs
  <2>2. Adding'
    BY <1>4, <1>7 DEF Adding
  <2>3. Booting'
    BY <1>2, <1>3, <1>7 DEF Booting
  <2> QED
    BY <1>2, <2>1, <2>2, <2>3, Together
<1> QED
  BY <1>0, <1>5, <1>6, <1>7

(* The boot ends, with a default profile set.                              *)
LEMMA FinishBootStep ==
  ASSUME IInv, FinishBoot
  PROVE  IInv'
<1>0. /\ boot = "booting" /\ work["boot"] = <<>> /\ boot' = "started" /\ owed' = FALSE
      /\ UNCHANGED <<database, core, work, mishaps>>
  BY DEF FinishBoot, Idle
<1>1. There' = There /\ IdentityUsable' /\ MasterKeys' /\ MarketsJoined'
  BY <1>0, SameData DEF database, core
<1>2. Data'
  BY <1>0, <1>1, DataHolds DEF Data, DataTypes, database, core
<1>3. Programs'
  BY <1>0, <1>1 DEF IInv, Programs
<1>4. Adding'
  BY <1>0 DEF IInv, Adding, database
<1>5. Booting'
  BY <1>0 DEF IInv, Booting, database
<1> QED
  BY <1>0, <1>2, <1>3, <1>4, <1>5, Together DEF IInv, TypeOK

(* A node in which nobody has work yet.                                    *)
LEMMA StartsIdle ==
  ASSUME DataTypes, IdentityUsable, MasterKeys, MarketsJoined, Booting,
         boot = "polling", work = [a \in Actor |-> <<>>], owed = TRUE, mishaps = 0
  PROVE  IInv
<1>1. /\ DOMAIN work = Actor /\ \A a \in Actor : work[a] = <<>>
      /\ work \in [Actor -> Seq(Step)]
  OBVIOUS
<1>2. Programs /\ Adding
  BY <1>1 DEF Programs, Backed, Adding
<1>3. TypeOK
  BY <1>1, MarketsAssumption DEF TypeOK, DataTypes
<1> QED
  BY <1>2, <1>3 DEF IInv

-----------------------------------------------------------------------------
(* A node that is new, and one of an old version with its one market.      *)
LEMMA StartsWell ==
  ASSUME Init
  PROVE  IInv
<1>1. /\ boot = "polling" /\ work = [a \in Actor |-> <<>>] /\ owed = TRUE /\ mishaps = 0
      /\ New \/ Old
  BY DEF Init
<1>2. /\ None \in Mid \cup {None} /\ 1 \in Pid /\ 0 \in 0 .. MaxProfiles /\ 0 \in 0 .. MaxMarkets
      /\ 1 \in 0 .. MaxProfiles /\ 1 \in 0 .. MaxMarkets /\ 0 \in Path /\ MasterPath \in Path
      /\ OldWallet \in Wallet /\ OldWallet \in ShopWallet
      /\ "default" \in Names /\ "default" \in Addresses /\ "DEFAULT" \in ProfileName
  BY MarketsAssumption
     DEF Pid, None, Path, MasterPath, Wallet, ShopWallet, OldWallet, Names, Addresses
<1>3. 1 .. 0 = {} /\ 1 .. 1 = {1}
  OBVIOUS
<1>4. CASE New
  <2>1. /\ profiles = <<>> /\ identities = {} /\ markets = <<>> /\ wallets = <<>> /\ loaded = {}
        /\ listening = {} /\ last = [profile |-> 0, market |-> 0]
        /\ settings = [profile |-> None, market |-> [p \in Pid |-> None]]
        /\ DOMAIN profiles = {} /\ DOMAIN markets = {} /\ DOMAIN wallets = {}
    BY <1>4 DEF New
  <2>2. DataTypes
    BY <1>2, <2>1 DEF DataTypes, Range
  <2>3. IdentityUsable /\ MasterKeys /\ MarketsJoined
    BY <2>1 DEF IdentityUsable, MasterKeys, MarketsJoined
  <2>4. Booting
    BY <1>1, <1>3, <2>1 DEF Booting, Actor
  <2> QED
    BY <1>1, <2>2, <2>3, <2>4, StartsIdle
<1>5. CASE Old
  <2> DEFINE i == [wallet |-> OldWallet, profile |-> 1, path |-> 0]
             m == [name |-> "default", old |-> FALSE, address |-> "default", profile |-> 1,
                   wallet |-> OldWallet]
             w == [paths |-> {0}, account |-> TRUE]
  <2>1. /\ profiles = <<"DEFAULT">> /\ last = [profile |-> 1, market |-> 1]
        /\ identities = {i} /\ wallets = [v \in {OldWallet} |-> w] /\ loaded = {}
        /\ listening = {"default"} /\ markets = <<m>>
        /\ settings = [profile |-> 1, market |-> [p \in Pid |-> None]]
    BY <1>5 DEF Old
  <2>2. i \in Identity /\ i.wallet = OldWallet /\ i.profile = 1 /\ i.path = 0
    BY <1>2 DEF Identity
  <2>3. m \in Market /\ m.profile = 1 /\ m.wallet = OldWallet
    BY <1>2 DEF Market
  <2>4. w \in [paths : SUBSET Path, account : BOOLEAN] /\ w.paths = {0} /\ w.account
    BY <1>2
  <2> HIDE DEF i, m, w
  <2>5. /\ DOMAIN profiles = {1} /\ profiles[1] = "DEFAULT" /\ DOMAIN markets = {1}
        /\ markets[1] = m /\ DOMAIN wallets = {OldWallet} /\ wallets[OldWallet] = w
        /\ last.profile = 1 /\ last.market = 1 /\ settings.profile = 1
    BY <2>1
  <2>6. DataTypes
    <3>1. settings \in [profile : Pid \cup {None}, market : [Pid -> Mid \cup {None}]]
      BY <1>2, <2>1
    <3>2. last \in [profile : 0 .. MaxProfiles, market : 0 .. MaxMarkets]
      BY <1>2, <2>1
    <3>3. Range(profiles) \subseteq ProfileName
      BY <1>2, <2>5 DEF Range
    <3> QED
      BY <1>2, <1>3, <2>1, <2>2, <2>3, <2>4, <2>5, <3>1, <3>2, <3>3 DEF DataTypes
  <2>7. IdentityUsable
    BY <2>1, <2>2, <2>4, <2>5 DEF IdentityUsable, Usable
  <2>8. MasterKeys
    BY <1>2, <2>1, <2>2, <2>5 DEF MasterKeys
  <2>9. MarketsJoined
    BY <2>1, <2>2, <2>3, <2>5 DEF MarketsJoined, Joined
  <2>10. Booting
    BY <1>1, <2>5 DEF Booting, Actor, None
  <2> QED
    BY <1>1, <2>6, <2>7, <2>8, <2>9, <2>10, StartsIdle
<1> QED
  BY <1>1, <1>4, <1>5

(* Every step of the node preserves the invariant.                         *)
LEMMA Preserved ==
  ASSUME IInv, [Next]_vars
  PROVE  IInv'
<1>1. CASE BeginBoot \/ FinishBoot \/ Crash
  BY <1>1, BeginBootStep, FinishBootStep, CrashStep
<1>2. ASSUME NEW a \in Actor, Proceed(a) \/ Fault(a)
      PROVE  IInv'
  BY <1>2, ProceedStep, FaultStep
<1>3. ASSUME NEW c \in Clients, NEW p \in DOMAIN profiles,
             \/ \E n \in MarketName, address \in Address, skip \in BOOLEAN :
                  MarketAdd(c, p, n, address, skip)
             \/ \E m \in DOMAIN markets : MarketJoin(c, p, m) \/ MarketDefault(c, p, m)
             \/ MarketDefaultGet(c, p) \/ ProfileDefault(c, p) \/ ProfileRemove(c, p)
             \/ SettingSet(c, p)
             \/ \E n \in MarketName : IdentityAdd(c, p, n)
      PROVE  IInv'
  BY <1>3, MarketAddStep, MarketJoinStep, ShortCommands, ProfileDefaultStep, ProfileRemoveStep,
     SettingsStep, IdentityAddStep
<1>4. ASSUME NEW c \in Clients, \E m \in DOMAIN markets : MarketRemove(c, m)
      PROVE  IInv'
  BY <1>4, ShortCommands
<1>5. ASSUME NEW c \in Clients, NEW name \in ProfileName, ProfileAdd(c, name)
      PROVE  IInv'
  BY <1>5, ProfileAddStep
<1>6. CASE \/ \E n \in MarketName, address \in Address : ReceiveMarketAdd(n, address)
           \/ \E m \in DOMAIN markets : ExpireMarket(m) \/ VotedOut(m)
           \/ SettingRemove
  BY <1>6, OthersMarketsStep, SettingsStep
<1>7. CASE UNCHANGED vars
  <2>1. UNCHANGED <<profiles, identities, markets, settings, last, wallets, loaded, listening>>
        /\ UNCHANGED <<boot, work, owed, mishaps>>
    BY <1>7 DEF vars, database, core
  <2>2. There' = There /\ IdentityUsable' /\ MasterKeys' /\ MarketsJoined'
    BY <2>1, SameData
  <2>3. Data'
    BY <2>1, <2>2, DataHolds DEF Data, DataTypes
  <2> QED
    BY <2>1, <2>2, <2>3, Untouched DEF IInv, TypeOK
<1> QED
  BY <1>1, <1>2, <1>3, <1>4, <1>5, <1>6, <1>7 DEF Next

(* The invariant holds in every state of the node.                         *)
THEOREM Invariance == Spec => []IInv
<1>1. Init => IInv
  BY StartsWell
<1>2. IInv /\ [Next]_vars => IInv'
  BY Preserved
<1> QED
  BY <1>1, <1>2, PTL DEF Spec

(* The types of everything that the node, core and the programs keep.      *)
THEOREM TypeCorrect == Spec => []TypeOK
<1>1. IInv => TypeOK
  BY DEF IInv
<1> QED
  BY <1>1, Invariance, PTL

(* An identity that has a row can be used, wherever the node stops: its    *)
(* wallet exists, with the key of its path and an account.                 *)
THEOREM IdentitiesUsable == Spec => []IdentityUsable
<1>1. IInv => IdentityUsable
  BY DEF IInv
<1> QED
  BY <1>1, Invariance, PTL

(* Every market of a profile that exists was joined with an identity of    *)
(* that profile, whatever was added, removed or interrupted.               *)
THEOREM MarketsOfIdentities == Spec => []MarketOfIdentity
<1>1. IInv => MarketOfIdentity
  <2> SUFFICES ASSUME IInv, NEW p \in DOMAIN profiles, NEW m \in OfProfile(p)
               PROVE  \E i \in identities : i.profile = p /\ i.wallet = markets[m].wallet
    BY DEF MarketOfIdentity
  <2>1. p # None /\ m \in DOMAIN markets /\ markets[m].profile = p
    BY DataHolds DEF OfProfile
  <2> QED
    BY <2>1 DEF IInv, MarketsJoined, Joined
<1> QED
  BY <1>1, Invariance, PTL

-----------------------------------------------------------------------------
(* StaysSeeded.  The programs of clients that set a default market or      *)
(* destroy one are the ones to look at; all other steps are calm.  Which   *)
(* profile is the default is a step of the boot alone.                     *)
Unsettling == {"setMarket", "destroy", "setProfile"}
CalmStep == {x \in Step : x.op \notin Unsettling}
BootStep == {x \in Step : x.op \notin {"setMarket", "destroy"}}

(* A market that is about to be made the default one is there and of that  *)
(* profile.                                                                *)
ItsOwn(step) == step.market \in OfProfile(step.profile)

(* Only clients destroy markets, and do nothing after that.                *)
Destroying ==
  \A a \in Actor : \A k \in DOMAIN work[a] :
    work[a][k].op = "destroy" => a \in Clients /\ Len(work[a]) = 1

Choosing == \A c \in Clients : \A k \in DOMAIN work[c] : work[c][k].op # "setProfile"

SInv == Destroying /\ Choosing

(* One client, who waits for the end of a command before the next.         *)
OneClient == \A b, c \in Clients : b = c

(* Calm programs put together are calm.                                    *)
LEMMA CalmSequences ==
  /\ <<>> \in Seq(CalmStep)
  /\ \A x \in CalmStep : <<x>> \in Seq(CalmStep)
  /\ \A s, t \in Seq(CalmStep) : s \o t \in Seq(CalmStep)
  /\ \A s \in Seq(CalmStep), x \in CalmStep : Append(s, x) \in Seq(CalmStep)
  /\ \A s \in Seq(CalmStep) :
       s \in Seq(Step) /\ \A k \in DOMAIN s : s[k].op \notin Unsettling
<1>1. \A s \in Seq(CalmStep) : \A k \in DOMAIN s : s[k] \in CalmStep
  BY ElementOfSeq, LenProperties
<1>2. \A s, t \in Seq(CalmStep) : s \o t \in Seq(CalmStep)
  BY ConcatProperties
<1>3. \A s \in Seq(CalmStep), x \in CalmStep : Append(s, x) \in Seq(CalmStep)
  BY AppendProperties
<1>4. \A s \in Seq(CalmStep) : s \in Seq(Step)
  <2>1. CalmStep \subseteq Step
    BY DEF CalmStep
  <2> QED
    BY <2>1
<1>5. \A x \in CalmStep : <<x>> \in Seq(CalmStep)
  OBVIOUS
<1>6. \A s \in Seq(CalmStep) : \A k \in DOMAIN s : s[k].op \notin Unsettling
  BY <1>1 DEF CalmStep
<1> QED
  BY <1>2, <1>3, <1>4, <1>5, <1>6

(* The programs that make identities are calm, and so is the boot's.       *)
LEMMA CalmPrograms ==
  ASSUME NEW p \in Pid, NEW name \in ProfileName
  PROVE  /\ ProfileIdentity(p, name) \in Seq(CalmStep)
         /\ \A n \in Names, path \in Path : MarketIdentity(p, name, n, path) \in Seq(CalmStep)
         /\ Rest(p) \in Seq(CalmStep)
<1>1. ProfileIdentity(p, name) \in Seq(CalmStep)
  <2> DEFINE w == ProfileWallet(name)
             x == [op |-> "wallet", wallet |-> w, profile |-> p]
             y == Insert(w, p, MasterPath)
  <2>1. w \in Wallet \ ShopWallet
    BY WalletKinds
  <2>2. x \in CalmStep /\ y \in CalmStep
    BY <2>1, StepKinds DEF CalmStep, Unsettling, Insert
  <2>3. ProfileIdentity(p, name) = <<x, y>>
    BY DEF ProfileIdentity
  <2> HIDE DEF x, y
  <2> QED
    BY <2>2, <2>3
<1>2. ASSUME NEW n \in Names, NEW path \in Path
      PROVE  MarketIdentity(p, name, n, path) \in Seq(CalmStep)
  <2> DEFINE w == MarketWallet(name, n)
             x == [op |-> "wallet", wallet |-> w, profile |-> p]
             y == [op |-> "import", wallet |-> w, path |-> path]
             z == Insert(w, p, path)
  <2>1. w \in ShopWallet /\ w \in Wallet
    BY WalletKinds DEF ShopWallet
  <2>2. x \in CalmStep /\ y \in CalmStep /\ z \in CalmStep
    BY <2>1, StepKinds DEF CalmStep, Unsettling, Insert
  <2>3. MarketIdentity(p, name, n, path) = <<x, y, z>>
    BY DEF MarketIdentity
  <2> HIDE DEF w, x, y, z
  <2> QED
    BY <2>2, <2>3
<1>3. Rest(p) \in Seq(CalmStep)
  <2> DEFINE x == [op |-> "loadAll", profile |-> p]
             y == [op |-> "seedMarket", profile |-> p]
  <2>1. x \in CalmStep /\ y \in CalmStep
    BY StepKinds DEF CalmStep, Unsettling
  <2>2. Rest(p) = <<x, y>>
    BY DEF Rest
  <2> HIDE DEF x, y
  <2> QED
    BY <2>1, <2>2
<1> QED
  BY <1>1, <1>2, <1>3

(* ... and so are those that make a market.                                *)
LEMMA CalmMarkets ==
  ASSUME NEW p \in Pid, NEW name \in ProfileName, NEW n \in Names, NEW path \in Path,
         NEW m \in Names, NEW address \in Addresses, NEW seeds \in BOOLEAN
  PROVE  /\ Append(MarketIdentity(p, name, n, path),
                   CreateMarket(m, address, p, MarketWallet(name, n), seeds)) \in Seq(CalmStep)
         /\ \A w \in Wallet : <<CreateMarket(m, address, p, w, FALSE)>> \in Seq(CalmStep)
<1>1. p # None
  BY MarketsAssumption DEF Pid, None
<1>2. MarketWallet(name, n) \in Wallet
  BY WalletKinds DEF ShopWallet
<1>3. ASSUME NEW w \in Wallet, NEW b \in BOOLEAN
      PROVE  CreateMarket(m, address, p, w, b) \in CalmStep
  <2> DEFINE row == [name |-> m, old |-> FALSE, address |-> address, profile |-> p, wallet |-> w]
  <2>1. row \in Market /\ row.profile = p
    BY DEF Market
  <2>2. CreateMarket(m, address, p, w, b) = [op |-> "market", seeds |-> b, row |-> row]
    BY DEF CreateMarket
  <2> HIDE DEF row
  <2>3. [op |-> "market", seeds |-> b, row |-> row] \in Step
    BY <1>1, <2>1, StepKinds
  <2> QED
    BY <2>2, <2>3 DEF CalmStep, Unsettling
<1>4. ASSUME NEW w \in Wallet
      PROVE  <<CreateMarket(m, address, p, w, FALSE)>> \in Seq(CalmStep)
  BY <1>3, CalmSequences
<1> QED
  BY <1>2, <1>3, <1>4, CalmPrograms, CalmSequences

(* Sequences over a smaller set are over the larger one.                   *)
LEMMA SeqWider ==
  ASSUME NEW S, NEW T, S \subseteq T
  PROVE  \A s \in Seq(S) : s \in Seq(T)
OBVIOUS

(* A program whose first step is replaced has the steps of both.           *)
LEMMA ReplacedSteps ==
  ASSUME NEW s \in Seq(Step), s # <<>>, NEW t \in Seq(Step)
  PROVE  \A k \in DOMAIN (t \o Tail(s)) :
           \/ \E i \in DOMAIN t : (t \o Tail(s))[k] = t[i]
           \/ \E i \in DOMAIN s \ {1} : (t \o Tail(s))[k] = s[i]
<1> DEFINE rest == Tail(s)
           u == t \o rest
<1>1. /\ rest \in Seq(Step) /\ Len(s) \in Nat \ {0} /\ DOMAIN s = 1 .. Len(s)
      /\ Len(rest) = Len(s) - 1 /\ \A i \in 1 .. Len(s) - 1 : rest[i] = s[i + 1]
  BY HeadTailProperties, LenProperties, EmptySeq
<1>2. /\ Len(t) \in Nat /\ DOMAIN t = 1 .. Len(t) /\ DOMAIN u = 1 .. Len(t) + Len(rest)
      /\ \A i \in 1 .. Len(t) + Len(rest) : u[i] = IF i <= Len(t) THEN t[i] ELSE rest[i - Len(t)]
  BY <1>1, ConcatProperties, LenProperties
<1> HIDE DEF rest, u
<1>3. ASSUME NEW k \in DOMAIN u
      PROVE  (\E i \in DOMAIN t : u[k] = t[i]) \/ \E i \in DOMAIN s \ {1} : u[k] = s[i]
  <2>1. CASE k <= Len(t)
    BY <1>2, <2>1
  <2>2. CASE ~ (k <= Len(t))
    <3>1. k - Len(t) \in 1 .. Len(s) - 1 /\ u[k] = rest[k - Len(t)]
      BY <1>1, <1>2, <2>2
    <3>2. k - Len(t) + 1 \in DOMAIN s \ {1} /\ u[k] = s[k - Len(t) + 1]
      BY <1>1, <3>1
    <3> QED
      BY <3>2
  <2> QED
    BY <2>1, <2>2
<1> QED
  BY <1>3 DEF u, rest

(* What is left of a program, with other steps before it.                  *)
LEMMA Replacing ==
  ASSUME IInv, NEW a \in Actor, work[a] # <<>>, NEW t \in Seq(Step), Replace(a, t)
  PROVE  /\ \A b \in Actor \ {a} : work'[b] = work[b]
         /\ \A k \in DOMAIN work'[a] :
              \/ \E i \in DOMAIN t : work'[a][k] = t[i]
              \/ \E i \in DOMAIN work[a] \ {1} : work'[a][k] = work[a][i]
<1>1. work \in [Actor -> Seq(Step)] /\ work[a] \in Seq(Step)
  BY DEF IInv, Programs
<1>2. work'[a] = t \o Tail(work[a]) /\ \A b \in Actor \ {a} : work'[b] = work[b]
  BY <1>1 DEF Replace
<1>3. \A k \in DOMAIN (t \o Tail(work[a])) :
        \/ \E i \in DOMAIN t : (t \o Tail(work[a]))[k] = t[i]
        \/ \E i \in DOMAIN work[a] \ {1} : (t \o Tail(work[a]))[k] = work[a][i]
  BY <1>1, ReplacedSteps
<1> DEFINE Among(u) ==
       \A k \in DOMAIN u :
         (\E i \in DOMAIN t : u[k] = t[i]) \/ \E i \in DOMAIN work[a] \ {1} : u[k] = work[a][i]
<1>4. Among(t \o Tail(work[a]))
  BY <1>3
<1>5. Among(work'[a])
  <2> HIDE DEF Among
  <2> QED
    BY <1>2, <1>4
<1> QED
  BY <1>2, <1>5

(* Every step is taken by its own actor and leaves calm steps behind, or   *)
(* none, apart from a new market that is to be the default one.            *)
LEMMA CalmProceed ==
  ASSUME IInv, NEW a \in Actor, Proceed(a)
  PROVE  /\ work[a] # <<>>
         /\ Threw(a) \/ (\E t \in Seq(CalmStep) : Replace(a, t)) \/ InsertMarket(a)
<1>1. work[a] # <<>>
  BY DEF Proceed, AddProfile, SetProfile, RenameMarket, LoadWallets, SeedMarket, OpenWallet,
         CreateWallet, extKeyGenesisImport, extKeyImport, DeriveAccount, InsertIdentity,
         LookForUnjoined, InsertMarket, JoinMarket, SetMarket, DestroyMarket, Running
<1>2. Done(a) => \E t \in Seq(CalmStep) : Replace(a, t)
  BY CalmSequences DEF Done
<1>3. \A there : Finds(a, there) => Done(a) \/ Threw(a)
  BY DEF Finds
<1>4. CASE \/ AddProfile(a) \/ SetProfile(a) \/ RenameMarket(a) \/ LoadWallets(a)
           \/ CreateWallet(a) \/ extKeyGenesisImport(a) \/ DeriveAccount(a) \/ InsertIdentity(a)
           \/ LookForUnjoined(a) \/ JoinMarket(a) \/ SetMarket(a) \/ DestroyMarket(a)
  <2>1. Done(a) \/ Threw(a) \/ \E there : Finds(a, there)
    BY <1>4 DEF AddProfile, SetProfile, RenameMarket, LoadWallets, CreateWallet,
         extKeyGenesisImport, DeriveAccount, InsertIdentity, LookForUnjoined, JoinMarket,
         SetMarket, DestroyMarket
  <2> QED
    BY <1>1, <1>2, <1>3, <2>1
<1>5. CASE SeedMarket(a)
  <2> DEFINE p == Head(work[a]).profile
             steps == Append(MarketIdentity(p, profiles[p], IdentityName, 0),
                             CreateMarket("default", "default", p,
                                          MarketWallet(profiles[p], IdentityName), TRUE))
  <2>1. \/ Threw(a)
        \/ p \in DOMAIN profiles /\ (Replace(a, <<>>) \/ Replace(a, steps))
    BY <1>5 DEF SeedMarket
  <2>2. p \in DOMAIN profiles => steps \in Seq(CalmStep)
    <3>1. IdentityName \in Names /\ "default" \in Names /\ "default" \in Addresses /\ 0 \in Path
      BY MarketsAssumption DEF Names, Addresses, Path, MasterPath
    <3>2. p \in DOMAIN profiles => p \in Pid /\ profiles[p] \in ProfileName
      BY DataHolds
    <3> QED
      BY <3>1, <3>2, CalmMarkets
  <2> HIDE DEF steps
  <2> QED
    BY <1>1, <2>1, <2>2, CalmSequences
<1>6. CASE OpenWallet(a)
  <2> DEFINE s == Head(work[a])
             x == [op |-> "create", wallet |-> s.wallet]
             y == [op |-> "genesis", wallet |-> s.wallet]
  <2>1. s \in Step /\ s.op = "wallet"
    BY <1>1, <1>6, FirstStep DEF OpenWallet, Running
  <2>2. s.wallet \in Wallet
    BY <2>1, StepFields
  <2>3. x \in CalmStep /\ (s.wallet.market = "none" => y \in CalmStep)
    BY <2>2, StepKinds DEF CalmStep, Unsettling, ShopWallet
  <2>4. Threw(a) \/ Replace(a, <<>>)
        \/ Replace(a, <<x>> \o (IF s.wallet.market = "none" THEN <<y>> ELSE <<>>))
    BY <1>6 DEF OpenWallet
  <2> HIDE DEF x, y
  <2>5. <<x>> \o (IF s.wallet.market = "none" THEN <<y>> ELSE <<>>) \in Seq(CalmStep)
    <3>1. <<x>> \in Seq(CalmStep) /\ (IF s.wallet.market = "none" THEN <<y>> ELSE <<>>) \in Seq(CalmStep)
      BY <2>3, CalmSequences
    <3> QED
      BY <3>1, CalmSequences
  <2> QED
    BY <1>1, <2>4, <2>5, CalmSequences
<1>7. CASE extKeyImport(a)
  <2> DEFINE s == Head(work[a])
             x == [op |-> "account", wallet |-> s.wallet]
  <2>1. s \in Step /\ s.op = "import"
    BY <1>1, <1>7, FirstStep DEF extKeyImport, Running
  <2>2. x \in CalmStep
    BY <2>1, StepFields, StepKinds DEF CalmStep, Unsettling
  <2>3. Replace(a, <<>>) \/ Replace(a, <<x>>)
    BY <1>7 DEF extKeyImport
  <2> HIDE DEF x
  <2> QED
    BY <1>1, <2>2, <2>3, CalmSequences
<1> QED
  BY <1>1, <1>4, <1>5, <1>6, <1>7 DEF Proceed

(* A market that is inserted is joined, and is of the profile whose default *)
(* it is to be.                                                            *)
LEMMA InsertedMarket ==
  ASSUME IInv, NEW a \in Actor, InsertMarket(a)
  PROVE  \/ Threw(a)
         \/ \E t \in Seq(Step) :
              /\ Replace(a, t)
              /\ \A k \in DOMAIN t :
                   /\ t[k].op # "destroy" /\ t[k].op # "setProfile"
                   /\ t[k].op = "setMarket" => ItsOwn(t[k])'
<1>h. PICK s, m : s = Head(work[a]) /\ m = last.market + 1
  OBVIOUS
<1> DEFINE p == s.row.profile
           x == [op |-> "join", market |-> m]
           y == [op |-> "setMarket", profile |-> p, market |-> m]
           j == IF p = None THEN <<>> ELSE <<x>>
           e == IF s.seeds THEN <<y>> ELSE <<>>
<1>0. /\ work[a] # <<>> /\ s.op = "market" /\ last.market < MaxMarkets
      /\ \/ /\ Replace(a, j \o e)
            /\ markets' = [k \in DOMAIN markets \cup {m} |-> IF k = m THEN s.row ELSE markets[k]]
         \/ Threw(a)
  BY <1>h DEF InsertMarket, Running
<1>1. s \in Step
  BY <1>0, <1>h, FirstStep
<1>2. s.row \in Market /\ (s.seeds => p # None) /\ p \in Pid \cup {None}
  BY <1>0, <1>1, StepFields DEF Market
<1>3. m \in Mid
  <2>1. last.market \in 0 .. MaxMarkets
    BY DEF IInv, TypeOK
  <2> QED
    BY <1>0, <1>h, <2>1, MarketsAssumption DEF Mid
<1>4. x \in Step /\ x.op = "join" /\ y.op = "setMarket" /\ y.market = m /\ y.profile = p
      /\ (p # None => y \in Step)
  BY <1>2, <1>3, StepKinds
<1>5. markets' = [k \in DOMAIN markets \cup {m} |-> IF k = m THEN s.row ELSE markets[k]]
        => ItsOwn(y)'
  BY <1>2 DEF OfProfile, ItsOwn
<1> HIDE DEF x, y
<1>6. j \in Seq({x}) /\ e \in Seq({y})
  <2>1. <<>> \in Seq({x}) /\ <<x>> \in Seq({x}) /\ <<>> \in Seq({y}) /\ <<y>> \in Seq({y})
    OBVIOUS
  <2> QED
    BY <2>1
<1>7. j \in Seq(Step) /\ e \in Seq(Step)
  BY <1>2, <1>4
<1> HIDE DEF j, e
<1>8. j \o e \in Seq(Step)
  BY <1>7, ConcatProperties
<1>9. ASSUME NEW k \in DOMAIN (j \o e) PROVE (j \o e)[k] = x \/ (j \o e)[k] = y
  <2>1. j \in Seq({x, y}) /\ e \in Seq({x, y})
    <3>1. {x} \subseteq {x, y} /\ {y} \subseteq {x, y}
      OBVIOUS
    <3> QED
      BY <1>6, <3>1, SeqWider
  <2>2. j \o e \in Seq({x, y})
    BY <2>1, ConcatProperties
  <2>3. (j \o e)[k] \in {x, y}
    BY <2>2, ElementOfSeq, LenProperties
  <2> QED
    BY <2>3
<1>10. CASE Replace(a, j \o e)
            /\ markets' = [k \in DOMAIN markets \cup {m} |-> IF k = m THEN s.row ELSE markets[k]]
  <2> DEFINE t == j \o e
  <2>1. \A k \in DOMAIN t :
          /\ t[k].op # "destroy" /\ t[k].op # "setProfile"
          /\ t[k].op = "setMarket" => ItsOwn(t[k])'
    BY <1>4, <1>5, <1>9, <1>10
  <2> HIDE DEF t
  <2>2. t \in Seq(Step) /\ Replace(a, t)
    BY <1>8, <1>10 DEF t
  <2> QED
    BY <2>1, <2>2
<1> QED
  BY <1>0, <1>10

(* What a program has left to do after a step: nothing that destroys, and  *)
(* default markets to set that it had to set before or has just made.      *)
LEMMA Proceeded ==
  ASSUME IInv, SInv, NEW a \in Actor, Proceed(a)
  PROVE  /\ work[a] # <<>> /\ \A b \in Actor \ {a} : work'[b] = work[b]
         /\ \A k \in DOMAIN work'[a] :
              /\ work'[a][k].op # "destroy"
              /\ work'[a][k].op = "setProfile" => \E i \in DOMAIN work[a] : work'[a][k] = work[a][i]
              /\ work'[a][k].op = "setMarket" =>
                   \/ \E i \in DOMAIN work[a] : work'[a][k] = work[a][i]
                   \/ \E x \in Step : x = work'[a][k] /\ ItsOwn(x)'
<1>1. work[a] # <<>> /\ work \in [Actor -> Seq(Step)]
  BY CalmProceed DEF IInv, Programs
<1>2. CASE Threw(a)
  <2>1. work'[a] = <<>> /\ \A b \in Actor \ {a} : work'[b] = work[b]
    BY <1>1, <1>2 DEF Threw
  <2> QED
    BY <1>1, <2>1
<1>3. ASSUME NEW t \in Seq(Step), Replace(a, t),
             \A k \in DOMAIN t :
               /\ t[k].op # "destroy" /\ t[k].op # "setProfile"
               /\ t[k].op = "setMarket" => ItsOwn(t[k])'
      PROVE  /\ \A b \in Actor \ {a} : work'[b] = work[b]
             /\ \A k \in DOMAIN work'[a] :
                  /\ work'[a][k].op # "destroy"
                  /\ work'[a][k].op = "setProfile" =>
                       \E i \in DOMAIN work[a] : work'[a][k] = work[a][i]
                  /\ work'[a][k].op = "setMarket" =>
                       \/ \E i \in DOMAIN work[a] : work'[a][k] = work[a][i]
                       \/ \E x \in Step : x = work'[a][k] /\ ItsOwn(x)'
  <2>1. /\ \A b \in Actor \ {a} : work'[b] = work[b]
        /\ \A k \in DOMAIN work'[a] :
              \/ \E i \in DOMAIN t : work'[a][k] = t[i]
              \/ \E i \in DOMAIN work[a] \ {1} : work'[a][k] = work[a][i]
    BY <1>1, <1>3, Replacing
  <2>2. ASSUME NEW i \in DOMAIN work[a] \ {1} PROVE work[a][i].op # "destroy"
    <3>1. DOMAIN work[a] = 1 .. Len(work[a])
      BY <1>1, LenProperties
    <3> QED
      BY <3>1 DEF SInv, Destroying
  <2>3. \A i \in DOMAIN t : t[i] \in Step
    BY ElementOfSeq, LenProperties
  <2> QED
    BY <1>3, <2>1, <2>2, <2>3
<1>4. ASSUME NEW t \in Seq(CalmStep)
      PROVE  /\ t \in Seq(Step)
             /\ \A k \in DOMAIN t : t[k].op # "destroy" /\ t[k].op # "setProfile" /\ t[k].op # "setMarket"
  BY CalmSequences DEF Unsettling
<1>5. Threw(a) \/ \E t \in Seq(Step) :
        /\ Replace(a, t)
        /\ \A k \in DOMAIN t :
             /\ t[k].op # "destroy" /\ t[k].op # "setProfile"
             /\ t[k].op = "setMarket" => ItsOwn(t[k])'
  <2>1. CASE \E t \in Seq(CalmStep) : Replace(a, t)
    BY <1>4, <2>1
  <2> QED
    BY <2>1, CalmProceed, InsertedMarket
<1> QED
  BY <1>1, <1>2, <1>3, <1>5

(* A market of a profile stays unless a command destroys it.               *)
LEMMA MarketsStay ==
  ASSUME IInv, Next, ~ Overriding, NEW m \in DOMAIN markets, markets[m].profile # None
  PROVE  \/ m \in DOMAIN markets' /\ markets'[m].profile = markets[m].profile
         \/ \E a \in Actor : DestroyMarket(a) /\ Head(work[a]).market = m /\ Running(a, "destroy")
<1>1. ASSUME NEW a \in Actor, RenameMarket(a)
      PROVE  m \in DOMAIN markets' /\ markets'[m].profile = markets[m].profile
  <2>1. markets[m] \in Market
    BY DEF IInv, TypeOK
  <2>2. markets' = markets \/ \E k : markets' = [markets EXCEPT ![k].old = TRUE]
    BY <1>1 DEF RenameMarket
  <2> QED
    BY <2>1, <2>2 DEF Market
<1>2. ASSUME NEW a \in Actor, InsertMarket(a)
      PROVE  m \in DOMAIN markets' /\ markets'[m].profile = markets[m].profile
  <2>1. DOMAIN markets \subseteq 1 .. last.market /\ last.market \in 0 .. MaxMarkets
    BY DEF IInv, TypeOK
  <2>2. m # last.market + 1
    BY <2>1, MarketsAssumption
  <2> QED
    BY <1>2, <2>2 DEF InsertMarket
<1>3. ASSUME NEW a \in Actor, DestroyMarket(a)
      PROVE  \/ m \in DOMAIN markets' /\ markets'[m].profile = markets[m].profile
             \/ Head(work[a]).market = m /\ Running(a, "destroy")
  <2>1. Running(a, "destroy") /\ (markets' = Destroyed(Head(work[a]).market) \/ markets' = markets)
    BY <1>3 DEF DestroyMarket
  <2> QED
    BY <2>1 DEF Destroyed
<1>4. ASSUME NEW a \in Actor, Proceed(a), ~ RenameMarket(a), ~ InsertMarket(a), ~ DestroyMarket(a)
      PROVE  markets' = markets
  BY <1>4 DEF Proceed, AddProfile, SetProfile, LoadWallets, SeedMarket, OpenWallet,
         CreateWallet, extKeyGenesisImport, extKeyImport, DeriveAccount, InsertIdentity,
         LookForUnjoined, JoinMarket, SetMarket, database
<1>5. ASSUME NEW k \in DOMAIN markets, ExpireMarket(k)
      PROVE  m \in DOMAIN markets' /\ markets'[m].profile = markets[m].profile
  BY <1>5 DEF ExpireMarket, Destroyed
<1>6. ASSUME NEW n, NEW address, ReceiveMarketAdd(n, address)
      PROVE  m \in DOMAIN markets' /\ markets'[m].profile = markets[m].profile
  <2>1. DOMAIN markets \subseteq 1 .. last.market /\ last \in [profile : 0 .. MaxProfiles, market : 0 .. MaxMarkets]
    BY DEF IInv, TypeOK
  <2>2. last'.market = last.market + 1 /\ m # last'.market
    BY <1>6, <2>1, MarketsAssumption DEF ReceiveMarketAdd
  <2> QED
    BY <1>6, <2>2 DEF ReceiveMarketAdd
<1>7. CASE BeginBoot \/ FinishBoot \/ Crash \/ \E a \in Actor : Fault(a)
  BY <1>7 DEF BeginBoot, FinishBoot, Crash, Fault, database
<1>8. ASSUME NEW c \in Clients, NEW p \in DOMAIN profiles,
             \/ \E n \in MarketName, address \in Address, skip \in BOOLEAN :
                  MarketAdd(c, p, n, address, skip)
             \/ \E k \in DOMAIN markets : MarketJoin(c, p, k) \/ MarketDefault(c, p, k)
             \/ MarketDefaultGet(c, p) \/ ProfileDefault(c, p) \/ ProfileRemove(c, p)
             \/ \E n \in MarketName : IdentityAdd(c, p, n)
      PROVE  markets' = markets
  BY <1>8 DEF MarketAdd, MarketJoin, MarketDefault, MarketDefaultGet, ProfileDefault,
         ProfileRemove, IdentityAdd, Commanding, database
<1>9. ASSUME NEW c \in Clients, \/ \E k \in DOMAIN markets : MarketRemove(c, k)
                               \/ \E name \in ProfileName : ProfileAdd(c, name)
      PROVE  markets' = markets
  BY <1>9 DEF MarketRemove, ProfileAdd, Commanding, database
<1>10. ASSUME NEW a \in Actor, Proceed(a)
       PROVE  \/ m \in DOMAIN markets' /\ markets'[m].profile = markets[m].profile
              \/ DestroyMarket(a) /\ Head(work[a]).market = m /\ Running(a, "destroy")
  BY <1>1, <1>2, <1>3, <1>4, <1>10
<1> QED
  BY <1>5, <1>6, <1>7, <1>8, <1>9, <1>10 DEF Next, Overriding

(* What the boot begins with is calm but for choosing the profile.         *)
LEMMA CalmBoot ==
  ASSUME IInv, BeginBoot
  PROVE  work' = work \/ \E t \in Seq(BootStep) : work' = [work EXCEPT !["boot"] = t]
<1> DEFINE p == settings.profile
           first == Min(DOMAIN profiles \cup {last.profile + 1})
<1>1. \/ UNCHANGED work
      \/ p \in DOMAIN profiles /\ (Start("boot", Upgrade(p) \o Rest(p)) \/ Start("boot", Rest(p)))
      \/ /\ p = None /\ first <= MaxProfiles
         /\ Start("boot", SeedProfile(first) \o Rest(first))
  BY DEF BeginBoot, IsUpgrading
<1>2. ASSUME NEW t \in Seq(BootStep), Start("boot", t)
      PROVE  \E u \in Seq(BootStep) : work' = [work EXCEPT !["boot"] = u]
  BY <1>2 DEF Start
<1>5. /\ \A s \in Seq(CalmStep) : s \in Seq(BootStep)
      /\ \A s, t \in Seq(BootStep) : s \o t \in Seq(BootStep)
  <2>1. CalmStep \subseteq BootStep
    BY DEF CalmStep, BootStep, Unsettling
  <2>2. \A s \in Seq(CalmStep) : s \in Seq(BootStep)
    BY <2>1, SeqWider
  <2>3. \A s, t \in Seq(BootStep) : s \o t \in Seq(BootStep)
    BY ConcatProperties
  <2> QED
    BY <2>2, <2>3
<1>3. CASE p \in DOMAIN profiles
  <2>1. p \in Pid /\ profiles[p] \in ProfileName
    BY <1>3, DataHolds
  <2>2. ProfileIdentity(p, profiles[p]) \in Seq(CalmStep) /\ Rest(p) \in Seq(CalmStep)
    BY <2>1, CalmPrograms
  <2>3. [op |-> "rename", profile |-> p] \in CalmStep
    BY <2>1, StepKinds DEF CalmStep, Unsettling
  <2>4. Upgrade(p) \in Seq(CalmStep)
    BY <2>2, <2>3, CalmSequences DEF Upgrade
  <2>5. Upgrade(p) \o Rest(p) \in Seq(CalmStep)
    BY <2>2, <2>4, CalmSequences
  <2>6. p # None
    BY <2>1, DataHolds
  <2> QED
    BY <1>1, <1>2, <1>5, <2>2, <2>5, <2>6
<1>4. CASE p = None /\ first <= MaxProfiles
  <2>3. first \in Pid /\ (first \in DOMAIN profiles => profiles[first] \in ProfileName)
    BY <1>4, FirstProfile
  <2>4. "DEFAULT" \in ProfileName
    BY MarketsAssumption
  <2> HIDE DEF first
  <2> DEFINE add == [op |-> "addProfile", profile |-> first, name |-> "DEFAULT"]
             set == [op |-> "setProfile", profile |-> first]
             made == ProfileIdentity(first, "DEFAULT")
             s == ProfileIdentity(first, profiles[first])
  <2>5. add \in CalmStep /\ set \in BootStep
    BY <2>3, <2>4, StepKinds DEF CalmStep, BootStep, Unsettling
  <2>6. /\ made \in Seq(CalmStep) /\ Rest(first) \in Seq(CalmStep)
        /\ first \in DOMAIN profiles => s \in Seq(CalmStep)
    BY <2>3, <2>4, CalmPrograms
  <2>7. SeedProfile(first) = (IF first \notin DOMAIN profiles THEN <<add>> \o made
                              ELSE IF HasIdentity(first) THEN <<>> ELSE s) \o <<set>>
    BY DEF SeedProfile
  <2> HIDE DEF add, set, made, s
  <2>8. <<add>> \in Seq(CalmStep) /\ <<set>> \in Seq(BootStep) /\ <<>> \in Seq(CalmStep)
    BY <2>5, CalmSequences
  <2>9. <<add>> \o made \in Seq(CalmStep)
    BY <2>6, <2>8, CalmSequences
  <2>10. (IF first \notin DOMAIN profiles THEN <<add>> \o made
          ELSE IF HasIdentity(first) THEN <<>> ELSE s) \in Seq(CalmStep)
    BY <2>6, <2>8, <2>9
  <2>11. SeedProfile(first) \in Seq(BootStep)
    BY <1>5, <2>7, <2>8, <2>10
  <2>12. SeedProfile(first) \o Rest(first) \in Seq(BootStep)
    BY <1>5, <2>6, <2>11
  <2>13. p \notin DOMAIN profiles
    BY <1>4, DataHolds
  <2> QED
    BY <1>1, <1>2, <2>12, <2>13 DEF first
<1> QED
  BY <1>1, <1>3, <1>4

(* The commands that give a client a program: one of calm steps, or the    *)
(* one step that makes a market of a profile its default, or the one that  *)
(* destroys a market that is not the default.                              *)
Commands(c) ==
  \/ \E p \in DOMAIN profiles :
       \/ \E n \in MarketName, address \in Address, skip \in BOOLEAN : MarketAdd(c, p, n, address, skip)
       \/ \E m \in DOMAIN markets : MarketJoin(c, p, m) \/ MarketDefault(c, p, m)
       \/ MarketDefaultGet(c, p)
       \/ \E n \in MarketName : IdentityAdd(c, p, n)
  \/ \E m \in DOMAIN markets : MarketRemove(c, m)
  \/ \E name \in ProfileName : ProfileAdd(c, name)

Unsettled(x) ==
  \/ x.op = "setMarket" /\ ItsOwn(x)
  \/ x.op = "destroy" /\ x.market # settings.market[settings.profile]

LEMMA CommandPrograms ==
  ASSUME IInv, NEW c \in Clients, Commands(c)
  PROVE  \E t : /\ Commanding(c, t)
                /\ t \in Seq(CalmStep) \/ \E x \in Step : t = <<x>> /\ Unsettled(x)
<1>1. ASSUME NEW p \in DOMAIN profiles, NEW n \in Names, NEW address \in Addresses
      PROVE  /\ Append(MarketIdentity(p, profiles[p], n, Cardinality(OfProfile(p))),
                       CreateMarket(n, address, p, MarketWallet(profiles[p], n), FALSE))
                  \in Seq(CalmStep)
             /\ MarketIdentity(p, profiles[p], n, Cardinality(OfProfile(p))) \in Seq(CalmStep)
             /\ \A i \in identities : <<CreateMarket(n, address, p, i.wallet, FALSE)>> \in Seq(CalmStep)
  <2>1. p \in Pid /\ profiles[p] \in ProfileName /\ Cardinality(OfProfile(p)) \in Path
    BY DataHolds, PathOfMarket
  <2>2. \A i \in identities : i.wallet \in Wallet
    BY DataHolds DEF Data, DataTypes, Identity
  <2> QED
    BY <2>1, <2>2, CalmPrograms, CalmMarkets
<1>2. MarketName \subseteq Names /\ Address \subseteq Addresses
  BY DEF Names, Addresses
<1>3. ASSUME NEW p \in DOMAIN profiles, NEW n \in MarketName, NEW address \in Address,
             NEW skip \in BOOLEAN, MarketAdd(c, p, n, address, skip)
      PROVE  \E t \in Seq(CalmStep) : Commanding(c, t)
  <2> DEFINE x == [op |-> "unjoined", name |-> n, address |-> address]
             row == [name |-> n, old |-> FALSE, address |-> address, profile |-> None,
                     wallet |-> NoWallet]
             y == [op |-> "market", seeds |-> FALSE, row |-> row]
  <2>1. row \in Market
    BY <1>2, MarketRow
  <2>2. x \in CalmStep /\ y \in CalmStep
    <3> HIDE DEF row
    <3> QED
      BY <1>2, <2>1, StepKinds DEF CalmStep, Unsettling
  <2>3. \/ Commanding(c, <<x, y>>)
        \/ Commanding(c, Append(MarketIdentity(p, profiles[p], n, Cardinality(OfProfile(p))),
                                CreateMarket(n, address, p, MarketWallet(profiles[p], n), FALSE)))
        \/ \E i \in identities :
             i.profile = p /\ Commanding(c, <<CreateMarket(n, address, p, i.wallet, FALSE)>>)
    BY <1>3 DEF MarketAdd, CreateMarket
  <2> HIDE DEF x, y
  <2>4. <<x, y>> \in Seq(CalmStep)
    BY <2>2
  <2> QED
    BY <1>1, <1>2, <2>3, <2>4
<1>4. ASSUME NEW p \in DOMAIN profiles, NEW m \in DOMAIN markets, MarketJoin(c, p, m)
      PROVE  \E t \in Seq(CalmStep) : Commanding(c, t)
  <2>1. markets[m].name \in Names /\ markets[m].address \in Addresses
    BY DataHolds DEF Data, DataTypes, Market
  <2> QED
    BY <1>1, <1>4, <2>1 DEF MarketJoin
<1>5. ASSUME NEW p \in DOMAIN profiles, MarketDefaultGet(c, p)
      PROVE  \E t \in Seq(CalmStep) : Commanding(c, t)
  <2>1. [op |-> "seedMarket", profile |-> p] \in CalmStep
    BY DataHolds, StepKinds DEF CalmStep, Unsettling
  <2> QED
    BY <1>5, <2>1, CalmSequences DEF MarketDefaultGet
<1>6. ASSUME NEW p \in DOMAIN profiles, NEW n \in MarketName, IdentityAdd(c, p, n)
      PROVE  \E t \in Seq(CalmStep) : Commanding(c, t)
  <2>1. \E address : address \in Addresses
    BY DEF Addresses
  <2> QED
    BY <1>1, <1>2, <1>6, <2>1 DEF IdentityAdd
<1>7. ASSUME NEW p \in DOMAIN profiles, NEW m \in DOMAIN markets, MarketDefault(c, p, m)
      PROVE  \E x \in Step : Commanding(c, <<x>>) /\ Unsettled(x)
  <2> DEFINE x == [op |-> "setMarket", profile |-> p, market |-> m]
  <2>0. p \in Pid /\ m \in Mid
    BY DataHolds, MarketsAssumption DEF Data, DataTypes, Mid
  <2>1. x \in Step
    BY <2>0, StepKinds
  <2>2. Commanding(c, <<x>>) /\ Unsettled(x)
    BY <1>7 DEF MarketDefault, Unsettled, ItsOwn, OfProfile
  <2> QED
    BY <2>1, <2>2
<1>8. ASSUME NEW m \in DOMAIN markets, MarketRemove(c, m)
      PROVE  \E x \in Step : Commanding(c, <<x>>) /\ Unsettled(x)
  <2> DEFINE x == [op |-> "destroy", market |-> m]
  <2>0. m \in Mid
    BY DataHolds, MarketsAssumption DEF Data, DataTypes, Mid
  <2>1. x \in Step
    BY <2>0, StepKinds
  <2>2. Commanding(c, <<x>>) /\ Unsettled(x)
    BY <1>8 DEF MarketRemove, Unsettled
  <2> QED
    BY <2>1, <2>2
<1>9. ASSUME NEW name \in ProfileName, ProfileAdd(c, name)
      PROVE  \E t \in Seq(CalmStep) : Commanding(c, t)
  <2> DEFINE p == last.profile + 1
             x == [op |-> "addProfile", profile |-> p, name |-> name]
  <2>1. Commanding(c, <<x>> \o ProfileIdentity(p, name)) /\ last.profile < MaxProfiles
    BY <1>9 DEF ProfileAdd
  <2>2. p \in Pid
    BY <2>1, DataHolds, MarketsAssumption DEF Data, DataTypes, Pid
  <2>3. x \in CalmStep /\ ProfileIdentity(p, name) \in Seq(CalmStep)
    BY <2>2, StepKinds, CalmPrograms DEF CalmStep, Unsettling
  <2> HIDE DEF x
  <2>4. <<x>> \o ProfileIdentity(p, name) \in Seq(CalmStep)
    BY <2>3, CalmSequences
  <2> QED
    BY <2>1, <2>4
<1> QED
  BY <1>3, <1>4, <1>5, <1>6, <1>7, <1>8, <1>9 DEF Commands

(* A market that a client is about to make the default one stays: no other *)
(* is there to remove it.                                                  *)
LEMMA OwnStay ==
  ASSUME IInv, SInv, OneClient, [Next]_vars, ~ Overriding, NEW c \in Clients,
         NEW k \in DOMAIN work[c], NEW x \in Step, x = work[c][k], x.op = "setMarket", ItsOwn(x)
  PROVE  ItsOwn(x)'
<1>1. x.profile # None /\ x.market \in DOMAIN markets /\ markets[x.market].profile = x.profile
  <2>1. x.profile \in Pid
    BY StepFields
  <2> QED
    BY <2>1, MarketsAssumption DEF ItsOwn, OfProfile, Pid, None
<1>2. CASE UNCHANGED vars
  BY <1>1, <1>2 DEF vars, database, ItsOwn, OfProfile
<1>3. CASE Next
  <2>1. ASSUME NEW a \in Actor, Running(a, "destroy") PROVE FALSE
    <3>1. work[a] \in Seq(Step) /\ work[c] \in Seq(Step) /\ work[a] # <<>>
      BY <2>1 DEF IInv, Programs, Running, Actor
    <3>2. 1 \in DOMAIN work[a] /\ work[a][1].op = "destroy"
      BY <2>1, <3>1, HeadTailProperties, LenProperties, EmptySeq DEF Running
    <3>3. a = c /\ Len(work[a]) = 1
      BY <3>2 DEF SInv, Destroying, OneClient
    <3>4. k = 1
      BY <3>1, <3>3, LenProperties
    <3> QED
      BY <3>2, <3>3, <3>4
  <2>2. x.market \in DOMAIN markets' /\ markets'[x.market].profile = x.profile
    BY <1>1, <1>3, <2>1, MarketsStay
  <2> QED
    BY <2>2 DEF ItsOwn, OfProfile
<1> QED
  BY <1>2, <1>3

(* The programs that one step of the node leaves behind are as they have   *)
(* to be: SInv is inductive.                                               *)
LEMMA SKept ==
  ASSUME IInv, SInv, [Next]_vars
  PROVE  SInv'
<1>0. work \in [Actor -> Seq(Step)] /\ "boot" \in Actor /\ "boot" \notin Clients
      /\ \A c \in Clients : c \in Actor
  BY MarketsAssumption DEF IInv, Programs, Actor
<1> DEFINE Fine(a) ==
       /\ \A k \in DOMAIN work'[a] : work'[a][k].op = "destroy" =>
            a \in Clients /\ Len(work'[a]) = 1
       /\ a \in Clients => \A k \in DOMAIN work'[a] : work'[a][k].op # "setProfile"
<1>1. \A a \in Actor : work'[a] = work[a] => Fine(a)
  BY DEF SInv, Destroying, Choosing
<1>2. \A a \in Actor : work'[a] = <<>> => Fine(a)
  OBVIOUS
<1>3. ASSUME NEW a \in Actor, NEW t, work'[a] = t,
             t \in Seq(CalmStep) \/ (a = "boot" /\ t \in Seq(BootStep))
      PROVE  Fine(a)
  <2>1. ASSUME t \in Seq(CalmStep)
        PROVE  \A k \in DOMAIN t : t[k].op # "destroy" /\ t[k].op # "setProfile"
    BY <2>1, CalmSequences DEF Unsettling
  <2>2. ASSUME t \in Seq(BootStep)
        PROVE  \A k \in DOMAIN t : t[k].op # "destroy"
    <3>1. \A k \in DOMAIN t : t[k] \in BootStep
      BY <2>2, ElementOfSeq, LenProperties
    <3> QED
      BY <3>1 DEF BootStep
  <2> QED
    BY <1>0, <1>3, <2>1, <2>2
<1>4. (\A a \in Actor : Fine(a)) => SInv'
  BY <1>0 DEF SInv, Destroying, Choosing
<1>5. ASSUME NEW a \in Actor, Proceed(a) PROVE \A b \in Actor : Fine(b)
  <2>1. \A b \in Actor \ {a} : work'[b] = work[b]
    BY <1>5, Proceeded
  <2>2. ASSUME NEW k \in DOMAIN work'[a]
        PROVE  /\ work'[a][k].op # "destroy"
               /\ a \in Clients => work'[a][k].op # "setProfile"
    <3>1. /\ work'[a][k].op # "destroy"
          /\ work'[a][k].op = "setProfile" => \E i \in DOMAIN work[a] : work'[a][k] = work[a][i]
      BY <1>5, Proceeded
    <3>2. a \in Clients => work'[a][k].op # "setProfile"
      BY <3>1 DEF SInv, Choosing
    <3> QED
      BY <3>1, <3>2
  <2>3. Fine(a)
    BY <2>2
  <2> HIDE DEF Fine
  <2> QED
    BY <1>1, <2>1, <2>3
<1>6. ASSUME NEW a \in Actor, Threw(a) PROVE \A b \in Actor : Fine(b)
  <2>1. work'[a] = <<>> /\ \A b \in Actor \ {a} : work'[b] = work[b]
    BY <1>0, <1>6 DEF Threw
  <2> HIDE DEF Fine
  <2> QED
    BY <1>1, <1>2, <2>1
<1>7. ASSUME NEW c \in Clients, Commands(c) PROVE \A b \in Actor : Fine(b)
  <2>1. PICK t : /\ Commanding(c, t)
                 /\ t \in Seq(CalmStep) \/ \E x \in Step : t = <<x>> /\ Unsettled(x)
    BY <1>7, CommandPrograms
  <2>2. /\ work'[c] = t /\ \A b \in Actor \ {c} : work'[b] = work[b]
        /\ c \in Actor
    BY <1>0, <2>1 DEF Commanding, Start
  <2>3. ASSUME NEW x \in Step, t = <<x>>, Unsettled(x) PROVE Fine(c)
    <3>1. DOMAIN <<x>> = {1} /\ <<x>>[1] = x /\ Len(<<x>>) = 1
      OBVIOUS
    <3>2. x.op # "setProfile"
      BY <2>3 DEF Unsettled
    <3> QED
      BY <2>2, <2>3, <3>1, <3>2
  <2>4. Fine(c)
    <3> HIDE DEF Fine
    <3> QED
      BY <1>3, <2>1, <2>2, <2>3
  <2> HIDE DEF Fine
  <2> QED
    BY <1>1, <2>2, <2>4
<1> HIDE DEF Fine
<1>8. CASE BeginBoot
  <2>1. work' = work \/ \E t \in Seq(BootStep) : work' = [work EXCEPT !["boot"] = t]
    BY <1>8, CalmBoot
  <2>2. ASSUME NEW t \in Seq(BootStep), work' = [work EXCEPT !["boot"] = t]
        PROVE  \A a \in Actor : Fine(a)
    <3>1. work'["boot"] = t /\ \A b \in Actor \ {"boot"} : work'[b] = work[b]
      BY <1>0, <2>2
    <3> QED
      BY <1>0, <1>1, <1>3, <3>1
  <2> QED
    BY <1>1, <1>4, <2>1, <2>2
<1>9. CASE Crash
  <2>1. \A a \in Actor : work'[a] = <<>>
    BY <1>9 DEF Crash
  <2> QED
    BY <1>2, <1>4, <2>1
<1>10. CASE UNCHANGED work
  BY <1>1, <1>4, <1>10
<1>11. CASE \/ FinishBoot \/ UNCHANGED vars \/ Overriding
            \/ \E c \in Clients, p \in DOMAIN profiles : ProfileDefault(c, p) \/ ProfileRemove(c, p)
            \/ \E n \in MarketName, address \in Address : ReceiveMarketAdd(n, address)
            \/ \E m \in DOMAIN markets : ExpireMarket(m)
  <2>1. UNCHANGED work
    BY <1>11 DEF FinishBoot, vars, ProfileDefault, ProfileRemove, ReceiveMarketAdd, ExpireMarket,
           Overriding, SettingSet, SettingRemove, VotedOut
  <2> QED
    BY <1>10, <2>1
<1>12. ASSUME NEW a \in Actor, Fault(a) PROVE SInv'
  BY <1>4, <1>6, <1>12 DEF Fault
<1>13. ASSUME NEW a \in Actor, Proceed(a) PROVE SInv'
  BY <1>4, <1>5, <1>13
<1>14. ASSUME NEW c \in Clients, Commands(c) PROVE SInv'
  BY <1>4, <1>7, <1>14
<1>15. Next => \/ BeginBoot \/ FinishBoot \/ Crash \/ \E a \in Actor : Proceed(a) \/ Fault(a)
               \/ Overriding \/ \E c \in Clients : Commands(c)
               \/ \E c \in Clients, p \in DOMAIN profiles : ProfileDefault(c, p) \/ ProfileRemove(c, p)
               \/ \E n \in MarketName, address \in Address : ReceiveMarketAdd(n, address)
               \/ \E m \in DOMAIN markets : ExpireMarket(m)
  BY DEF Next, Commands, Overriding
<1> QED
  BY <1>8, <1>9, <1>11, <1>12, <1>13, <1>14, <1>15

(* The identities of the profiles that there are stay, and a default       *)
(* market is changed only where it is set, as long as no profile is added  *)
(* or removed and the settings are not changed as such.                    *)
LEMMA SettingsStay ==
  ASSUME IInv, [Next]_vars, ~ Overriding, profiles' = profiles
  PROVE  /\ identities \subseteq identities'
         /\ settings'.market = settings.market \/ \E a \in Actor : Proceed(a) /\ SetMarket(a)
<1>1. ASSUME NEW a \in Actor, Proceed(a)
      PROVE  identities \subseteq identities' /\ (SetMarket(a) \/ settings'.market = settings.market)
  <2>1. CASE SetProfile(a)
    <3>1. settings \in [profile : Pid \cup {None}, market : [Pid -> Mid \cup {None}]]
      BY DEF IInv, TypeOK
    <3> QED
      BY <2>1, <3>1 DEF SetProfile
  <2>2. CASE InsertIdentity(a)
    BY <2>2 DEF InsertIdentity
  <2>3. CASE ~ SetProfile(a) /\ ~ InsertIdentity(a)
    BY <1>1, <2>3 DEF Proceed, AddProfile, RenameMarket, LoadWallets, SeedMarket, OpenWallet,
           CreateWallet, extKeyGenesisImport, extKeyImport, DeriveAccount, LookForUnjoined,
           InsertMarket, JoinMarket, SetMarket, DestroyMarket, database
  <2> QED
    BY <2>1, <2>2, <2>3
<1>2. ASSUME NEW c \in Clients, NEW p \in DOMAIN profiles, ProfileRemove(c, p) PROVE FALSE
  BY <1>2 DEF ProfileRemove
<1>3. ASSUME NEW c \in Clients, NEW p \in DOMAIN profiles, ProfileDefault(c, p)
      PROVE  identities' = identities /\ settings'.market = settings.market
  <2>1. settings \in [profile : Pid \cup {None}, market : [Pid -> Mid \cup {None}]]
    BY DEF IInv, TypeOK
  <2> QED
    BY <1>3, <2>1 DEF ProfileDefault
<1>4. ASSUME NEW c \in Clients, Commands(c) PROVE UNCHANGED <<identities, settings>>
  BY <1>4, CommandPrograms DEF Commanding, database
<1>5. ASSUME \/ BeginBoot \/ FinishBoot \/ Crash \/ UNCHANGED vars \/ \E a \in Actor : Fault(a)
             \/ \E n \in MarketName, address \in Address : ReceiveMarketAdd(n, address)
             \/ \E m \in DOMAIN markets : ExpireMarket(m)
      PROVE  UNCHANGED <<identities, settings>>
  BY <1>5 DEF BeginBoot, FinishBoot, Crash, Fault, ReceiveMarketAdd, ExpireMarket, vars, database
<1> QED
  BY <1>1, <1>2, <1>3, <1>4, <1>5 DEF Next, Commands, Overriding

(* A step that removes a market, at the head of a program.                 *)
LEMMA RemovingStep ==
  ASSUME IInv, NEW a \in Actor, work[a] # <<>>, Head(work[a]).op = "destroy"
  PROVE  Removing(Head(work[a]).market)
<1>1. Head(work[a]) = [op |-> "destroy", market |-> Head(work[a]).market]
  BY FirstStep DEF Step
<1> QED
  BY <1>1 DEF Removing

(* The boot is not about to set a default market.                          *)
SetsNone == \A k \in DOMAIN work["boot"] : work["boot"][k].op # "setMarket"

(* Nobody is about to remove the default market after a step, either.      *)
LEMMA NotRemoved ==
  ASSUME IInv, SInv, OneClient, [Next]_vars, NEW d, ~ Removing(d),
         settings.market[settings.profile] = d
  PROVE  /\ \A a \in Clients : Proceed(a) => \A m : ~ Removing(m)'
         /\ (\A a \in Clients : ~ Proceed(a)) => ~ Removing(d)'
<1>0. /\ work \in [Actor -> Seq(Step)] /\ work' \in [Actor -> Seq(Step)]
      /\ Actor = Clients \cup {"boot"} /\ "boot" \notin Clients
      /\ boot = "polling" => work["boot"] = <<>>
  BY Preserved, MarketsAssumption DEF IInv, Programs, Booting, Actor
<1>1. \A a \in Actor : work'[a] # <<>> => 1 \in DOMAIN work'[a] /\ Head(work'[a]) = work'[a][1]
  BY <1>0, HeadTailProperties, LenProperties, EmptySeq
<1> DEFINE Harmless(a, m) ==
       work'[a] # <<>> => Head(work'[a]) # [op |-> "destroy", market |-> m]
<1>2. ASSUME NEW m, \A a \in Actor : Harmless(a, m) PROVE ~ Removing(m)'
  BY <1>2 DEF Removing
<1>3. \A a \in Actor : \A m : (\A k \in DOMAIN work'[a] : work'[a][k].op # "destroy") => Harmless(a, m)
  BY <1>1
<1>4. \A a \in Actor : work'[a] = work[a] => Harmless(a, d)
  BY DEF Removing
<1>5. \A a \in Actor : \A m : work'[a] = <<>> => Harmless(a, m)
  OBVIOUS
<1>6. ASSUME NEW a \in Clients, Proceed(a), NEW m PROVE ~ Removing(m)'
  <2>1. /\ a \in Actor /\ \A b \in Actor \ {a} : work'[b] = work[b]
        /\ \A k \in DOMAIN work'[a] : work'[a][k].op # "destroy"
    BY <1>0, <1>6, Proceeded
  <2>2. Harmless(a, m)
    BY <1>3, <2>1
  <2>3. work'["boot"] = work["boot"] /\ "boot" \in Actor
    BY <1>0, <2>1
  <2>4. Harmless("boot", m)
    BY <1>0, <1>3, <2>3 DEF SInv, Destroying
  <2> HIDE DEF Harmless
  <2>5. \A b \in Clients : Harmless(b, m)
    BY <2>2 DEF OneClient
  <2> QED
    BY <1>0, <1>2, <2>4, <2>5
<1>12. ASSUME Proceed("boot") PROVE ~ Removing(d)'
  <2>1. /\ \A b \in Actor \ {"boot"} : work'[b] = work[b]
        /\ \A k \in DOMAIN work'["boot"] : work'["boot"][k].op # "destroy"
    BY <1>0, <1>12, Proceeded
  <2>2. Harmless("boot", d)
    BY <1>0, <1>3, <2>1
  <2> HIDE DEF Harmless
  <2> QED
    BY <1>2, <1>4, <2>1, <2>2
<1>7. ASSUME NEW a \in Actor, Fault(a) PROVE ~ Removing(d)'
  <2>1. work'[a] = <<>> /\ \A b \in Actor \ {a} : work'[b] = work[b]
    BY <1>0, <1>7 DEF Fault, Threw
  <2> HIDE DEF Harmless
  <2> QED
    BY <1>2, <1>4, <1>5, <2>1
<1>8. ASSUME NEW c \in Clients, Commands(c) PROVE ~ Removing(d)'
  <2>1. PICK t : /\ Commanding(c, t)
                 /\ t \in Seq(CalmStep) \/ \E x \in Step : t = <<x>> /\ Unsettled(x)
    BY <1>8, CommandPrograms
  <2>2. work'[c] = t /\ (\A b \in Actor \ {c} : work'[b] = work[b]) /\ c \in Actor
    BY <1>0, <2>1 DEF Commanding, Start
  <2>3. ASSUME NEW x \in Step, t = <<x>>, Unsettled(x) PROVE Harmless(c, d)
    <3>1. Head(<<x>>) = x /\ (x.op = "destroy" => x.market # d)
      BY <2>3 DEF Unsettled
    <3> QED
      BY <2>2, <2>3, <3>1
  <2>4. t \in Seq(CalmStep) => \A k \in DOMAIN t : t[k].op # "destroy"
    BY CalmSequences DEF Unsettling
  <2> HIDE DEF Harmless
  <2>5. Harmless(c, d)
    BY <1>3, <2>1, <2>2, <2>3, <2>4
  <2> QED
    BY <1>2, <1>4, <2>2, <2>5
<1>9. ASSUME BeginBoot PROVE ~ Removing(d)'
  <2>1. work' = work \/ \E t \in Seq(BootStep) : work' = [work EXCEPT !["boot"] = t]
    BY <1>9, CalmBoot
  <2>2. \A b \in Actor \ {"boot"} : work'[b] = work[b]
    BY <1>0, <2>1
  <2>3. work'["boot"] = work["boot"] \/ work'["boot"] \in Seq(BootStep)
    BY <1>0, <2>1
  <2>4. work'["boot"] \in Seq(BootStep) =>
          \A k \in DOMAIN work'["boot"] : work'["boot"][k].op # "destroy"
    <3>1. \A t \in Seq(BootStep) : \A k \in DOMAIN t : t[k] \in BootStep
      BY ElementOfSeq, LenProperties
    <3> QED
      BY <3>1 DEF BootStep
  <2> HIDE DEF Harmless
  <2> QED
    <3>1. Harmless("boot", d)
      BY <1>0, <1>3, <1>4, <2>3, <2>4
    <3>2. \A b \in Actor : Harmless(b, d)
      BY <1>4, <2>2, <3>1
    <3> QED
      BY <1>2, <3>2
<1>10. CASE Crash
  BY <1>2, <1>5, <1>10 DEF Crash
<1>11. ASSUME \/ FinishBoot \/ UNCHANGED vars \/ Overriding
              \/ \E c \in Clients, p \in DOMAIN profiles : ProfileDefault(c, p) \/ ProfileRemove(c, p)
              \/ \E n \in MarketName, address \in Address : ReceiveMarketAdd(n, address)
              \/ \E m \in DOMAIN markets : ExpireMarket(m)
       PROVE  ~ Removing(d)'
  <2>1. UNCHANGED work
    BY <1>11 DEF FinishBoot, vars, ProfileDefault, ProfileRemove, ReceiveMarketAdd, ExpireMarket,
           Overriding, SettingSet, SettingRemove, VotedOut
  <2> QED
    BY <1>2, <1>4, <2>1
<1> QED
  BY <1>0, <1>6, <1>7, <1>8, <1>9, <1>10, <1>11, <1>12 DEF Next, Commands, Overriding

(* ... and what is about to become a default market is still one of its    *)
(* profile.                                                                *)
LEMMA NotMisled ==
  ASSUME IInv, SInv, OneClient, [Next]_vars, ~ Overriding, SetsNone, NEW p, ~ Misled(p)
  PROVE  ~ Misled(p)'
<1>0. work \in [Actor -> Seq(Step)] /\ Actor = Clients \cup {"boot"}
  BY DEF IInv, Programs, Actor
<1> DEFINE Fine(a) ==
       \A k \in DOMAIN work'[a] :
         work'[a][k].op = "setMarket" /\ work'[a][k].profile = p =>
           \E x \in Step : x = work'[a][k] /\ ItsOwn(x)'
<1>1. (\A a \in Actor : Fine(a)) => ~ Misled(p)'
  BY DEF Misled, ItsOwn, OfProfile
<1>2. ASSUME NEW a \in Actor, NEW i \in DOMAIN work[a],
             work[a][i].op = "setMarket", work[a][i].profile = p
      PROVE  \E x \in Step : x = work[a][i] /\ ItsOwn(x)'
  <2>1. work[a][i] \in Step
    BY <1>0, ElementOfSeq, LenProperties
  <2>2. PICK x \in Step : x = work[a][i]
    BY <2>1
  <2>3. a \in Clients
    BY <1>0, <1>2 DEF SetsNone
  <2>4. ItsOwn(x)
    BY <1>2, <2>2 DEF Misled, ItsOwn
  <2>5. ItsOwn(x)'
    BY <1>2, <2>2, <2>3, <2>4, OwnStay
  <2> QED
    BY <2>2, <2>5
<1>3. \A a \in Actor : work'[a] = work[a] => Fine(a)
  BY <1>2
<1>4. \A a \in Actor : (\A k \in DOMAIN work'[a] : work'[a][k].op # "setMarket") => Fine(a)
  OBVIOUS
<1>5. \A a \in Actor : work'[a] = <<>> => Fine(a)
  OBVIOUS
<1>6. ASSUME NEW a \in Actor, Proceed(a) PROVE ~ Misled(p)'
  <2>1. /\ \A b \in Actor \ {a} : work'[b] = work[b]
        /\ \A k \in DOMAIN work'[a] : work'[a][k].op = "setMarket" =>
             \/ \E i \in DOMAIN work[a] : work'[a][k] = work[a][i]
             \/ \E x \in Step : x = work'[a][k] /\ ItsOwn(x)'
    BY <1>6, Proceeded
  <2>2. Fine(a)
    BY <1>2, <2>1
  <2> HIDE DEF Fine
  <2> QED
    BY <1>1, <1>3, <2>1, <2>2
<1>7. ASSUME NEW a \in Actor, Fault(a) PROVE ~ Misled(p)'
  <2>1. work'[a] = <<>> /\ \A b \in Actor \ {a} : work'[b] = work[b]
    BY <1>0, <1>7 DEF Fault, Threw
  <2> HIDE DEF Fine
  <2> QED
    BY <1>1, <1>3, <1>5, <2>1
<1>8. ASSUME NEW c \in Clients, Commands(c) PROVE ~ Misled(p)'
  <2>1. PICK t : /\ Commanding(c, t)
                 /\ t \in Seq(CalmStep) \/ \E x \in Step : t = <<x>> /\ Unsettled(x)
    BY <1>8, CommandPrograms
  <2>2. /\ work'[c] = t /\ (\A b \in Actor \ {c} : work'[b] = work[b]) /\ c \in Actor
        /\ markets' = markets
    BY <1>0, <2>1 DEF Commanding, Start, database
  <2>3. ASSUME NEW x \in Step, t = <<x>>, Unsettled(x) PROVE Fine(c)
    <3>1. DOMAIN <<x>> = {1} /\ <<x>>[1] = x
      OBVIOUS
    <3>2. x.op = "setMarket" => ItsOwn(x)'
      BY <2>2, <2>3 DEF Unsettled, ItsOwn, OfProfile
    <3> QED
      BY <2>2, <2>3, <3>1, <3>2
  <2>4. t \in Seq(CalmStep) => \A k \in DOMAIN t : t[k].op # "setMarket"
    BY CalmSequences DEF Unsettling
  <2> HIDE DEF Fine
  <2>5. Fine(c)
    BY <1>4, <2>1, <2>2, <2>3, <2>4
  <2> QED
    BY <1>1, <1>3, <2>2, <2>5
<1>9. ASSUME BeginBoot PROVE ~ Misled(p)'
  <2>1. work' = work \/ \E t \in Seq(BootStep) : work' = [work EXCEPT !["boot"] = t]
    BY <1>9, CalmBoot
  <2>2. \A b \in Actor \ {"boot"} : work'[b] = work[b]
    BY <1>0, <2>1
  <2>3. work'["boot"] = work["boot"] \/ work'["boot"] \in Seq(BootStep)
    BY <1>0, <2>1
  <2>4. work'["boot"] \in Seq(BootStep) =>
          \A k \in DOMAIN work'["boot"] : work'["boot"][k].op # "setMarket"
    <3>1. \A t \in Seq(BootStep) : \A k \in DOMAIN t : t[k] \in BootStep
      BY ElementOfSeq, LenProperties
    <3> QED
      BY <3>1 DEF BootStep
  <2> HIDE DEF Fine
  <2>5. Fine("boot")
    BY <1>0, <1>3, <1>4, <2>3, <2>4
  <2> QED
    BY <1>1, <1>3, <2>2, <2>5
<1>10. ASSUME Crash PROVE ~ Misled(p)'
  BY <1>1, <1>5, <1>10 DEF Crash
<1>11. ASSUME \/ FinishBoot \/ UNCHANGED vars
              \/ \E c \in Clients, q \in DOMAIN profiles : ProfileDefault(c, q) \/ ProfileRemove(c, q)
              \/ \E n \in MarketName, address \in Address : ReceiveMarketAdd(n, address)
              \/ \E m \in DOMAIN markets : ExpireMarket(m)
       PROVE  ~ Misled(p)'
  <2>1. UNCHANGED work
    BY <1>11 DEF FinishBoot, vars, ProfileDefault, ProfileRemove, ReceiveMarketAdd, ExpireMarket
  <2> HIDE DEF Fine
  <2> QED
    BY <1>1, <1>3, <2>1
<1> QED
  BY <1>6, <1>7, <1>8, <1>9, <1>10, <1>11 DEF Next, Commands, Overriding

(* What the boot has set up survives every step of the node, unless the    *)
(* boot sets it up, profiles are added, removed or made the default, or a  *)
(* default is taken away from outside.                                     *)
LEMMA SeededStays ==
  ASSUME IInv, SInv, OneClient, [Next]_vars, ~ Overriding, Seeded, SetsNone,
         profiles' = profiles, settings'.profile = settings.profile
  PROVE  Seeded'
<1>1. PICK p, d : p = settings.profile /\ d = settings.market[p]
  OBVIOUS
<1>2. /\ p \in DOMAIN profiles /\ HasIdentity(p) /\ ~ Removing(d) /\ p # None
      /\ d \in DOMAIN markets /\ markets[d].profile = p /\ ~ Misled(p)
  BY <1>1, DataHolds DEF Seeded, OfProfile
<1>m. ~ Misled(p)'
  BY <1>2, NotMisled
<1>3. p \in DOMAIN profiles' /\ HasIdentity(p)'
  BY <1>2, SettingsStay DEF HasIdentity
<1>4. d \in OfProfile(p)'
  <2>1. \A a \in Actor : ~ (Head(work[a]).market = d /\ Running(a, "destroy"))
    BY <1>2, RemovingStep DEF Running
  <2>2. CASE Next
    BY <1>2, <2>1, <2>2, MarketsStay DEF OfProfile
  <2>3. CASE UNCHANGED vars
    BY <1>2, <2>3 DEF vars, database, OfProfile
  <2> QED
    BY <2>2, <2>3
<1>5. CASE settings'.market = settings.market
  <2>1. ~ Removing(d)'
    BY <1>1, <1>2, NotRemoved
  <2> QED
    BY <1>m, <1>1, <1>3, <1>4, <1>5, <2>1 DEF Seeded
<1>6. ASSUME NEW a \in Actor, Proceed(a), SetMarket(a) PROVE Seeded'
  <2>1. PICK s : s = Head(work[a])
    OBVIOUS
  <2>2. /\ work[a] # <<>> /\ s.op = "setMarket" /\ markets' = markets
        /\ settings' = settings \/ settings' = [settings EXCEPT !.market[s.profile] = s.market]
    BY <1>6, <2>1 DEF SetMarket, Running
  <2>3. s \in Step /\ 1 \in DOMAIN work[a] /\ work[a][1] = s
    BY <2>1, <2>2, FirstStep
  <2>4. a \in Clients
    BY <2>2, <2>3 DEF Actor, SetsNone
  <2>5. s.profile = p => s.market \in OfProfile(p)
    <3>1. a \in Actor
      BY <2>4 DEF Actor
    <3> QED
      BY <1>2, <2>2, <2>3, <3>1 DEF Misled
  <2>6. settings.market \in [Pid -> Mid \cup {None}] /\ p \in Pid /\ settings \in [profile : Pid \cup {None}, market : [Pid -> Mid \cup {None}]]
    BY <1>2, DataHolds DEF IInv, TypeOK
  <2>7. settings'.market[p] = d \/ (s.profile = p /\ settings'.market[p] = s.market)
    BY <1>1, <2>2, <2>6
  <2>8. settings'.market[p] \in OfProfile(p)'
    BY <1>4, <2>2, <2>5, <2>7 DEF OfProfile
  <2>9. \A m : ~ Removing(m)'
    BY <1>1, <1>2, <1>6, <2>4, NotRemoved
  <2> QED
    BY <1>m, <1>1, <1>3, <2>8, <2>9 DEF Seeded
<1> QED
  BY <1>5, <1>6, SettingsStay

(* Of all programs only those of clients destroy a market, as their one    *)
(* step, and only the boot's chooses the default profile, in every state   *)
(* of the node.                                                            *)
THEOREM SeededInvariance == Spec => []SInv
<1>1. Init => SInv
  BY DEF Init, SInv, Destroying, Choosing, Actor
<1>2. IInv /\ SInv /\ [Next]_vars => SInv'
  BY SKept
<1> QED
  BY <1>1, <1>2, Invariance, PTL DEF Spec

(* With one client, no command but those of profiles takes the default     *)
(* market of the default profile, or its identity, away again: only the    *)
(* end of a vote on that market does, or a change of the settings as such. *)
THEOREM SeededForOneClient == OneClient => (Spec => StaysSeeded)
<1> SUFFICES ASSUME OneClient PROVE Spec => StaysSeeded
  OBVIOUS
<1>1. IInv /\ boot # "booting" => SetsNone
  BY DEF IInv, Booting, SetsNone
<1>2. IInv /\ SInv /\ [Next]_vars
        => [Seeded /\ boot # "booting" /\ profiles' = profiles
              /\ settings'.profile = settings.profile /\ ~ Overriding => Seeded']_vars
  BY <1>1, SeededStays
<1> QED
  BY <1>2, Invariance, SeededInvariance, PTL DEF Spec, StaysSeeded

-----------------------------------------------------------------------------
(* BootReady.  What a boot that is owed has still to do says what it will  *)
(* have done in the end: the last step of its program seeds the default    *)
(* market of the profile, inserts that market or makes it the default one. *)
LoadAll(p) == [op |-> "loadAll", profile |-> p]
SeedOf(p) == [op |-> "seedMarket", profile |-> p]
SetOf(p) == [op |-> "setProfile", profile |-> p]
Ending == {"seedMarket", "market", "setMarket"}
Final(x, p, mine) ==
  \/ x = SeedOf(p)
  \/ x.op = "market" /\ x.seeds = TRUE /\ x.row.profile = p
  \/ x.op = "setMarket" /\ x.profile = p /\ x.market \in mine
Ends(steps, p, mine) ==
  /\ steps # <<>> /\ Final(steps[Len(steps)], p, mine)
  /\ \A k \in 1 .. Len(steps) - 1 : steps[k].op \notin Ending

ClientsIdle == \A c \in Clients : work[c] = <<>>
NoneSet == settings.market = [p \in Pid |-> None]

(* The wallets of the profile are loaded, or will be.                      *)
Loads(p) ==
  \/ LoadAll(p) \in Range(work["boot"])
  \/ \A i \in identities : i.profile = p => i.wallet \in loaded

(* The boot is making the default profile and its default market, and no   *)
(* client has asked for anything.                                          *)
Seeding(p) ==
  /\ ClientsIdle /\ NoneSet /\ Ends(work["boot"], p, OfProfile(p))
  /\ settings.profile = p \/ SetOf(p) \in Range(work["boot"])
  /\ \A x \in Range(work["boot"]) : x.op = "setProfile" => x.profile = p
  /\ \/ HasIdentity(p)
     \/ \E x \in Range(work["boot"]) : x.op = "identity" /\ x.profile = p /\ x.path = MasterPath

(* The profile and the market are there, and the boot leaves them alone.   *)
Keeping(p) ==
  /\ Seeded /\ settings.profile = p
  /\ \A x \in Range(work["boot"]) : x \in {LoadAll(p), SeedOf(p)}

(* Before its first boot a node has what it was installed with.            *)
Fresh == ClientsIdle /\ NoneSet /\ (settings.profile = None \/ IsUpgrading)

Owing ==
  /\ boot = "started" => ~ owed
  /\ boot = "polling" /\ owed => Fresh
  /\ boot = "booting" /\ owed => \E p \in Pid : Loads(p) /\ (Seeding(p) \/ Keeping(p))

-----------------------------------------------------------------------------
(* A program of one step.                                                  *)
LEMMA RangeOfOne ==
  ASSUME NEW x
  PROVE  Range(<<x>>) = {x}
BY DEF Range

(* The steps of programs that are put together.                            *)
LEMMA RangeOfBoth ==
  ASSUME NEW s \in Seq(Step), NEW t \in Seq(Step)
  PROVE  Range(s \o t) = Range(s) \cup Range(t)
<1>1. \A k \in DOMAIN (s \o t) : (s \o t)[k] \in Range(s) \cup Range(t)
  <2>1. /\ Len(s) \in Nat /\ Len(t) \in Nat
        /\ DOMAIN s = 1 .. Len(s) /\ DOMAIN t = 1 .. Len(t)
        /\ DOMAIN (s \o t) = 1 .. Len(s) + Len(t)
        /\ \A i \in 1 .. Len(s) + Len(t) :
             (s \o t)[i] = IF i <= Len(s) THEN s[i] ELSE t[i - Len(s)]
    BY ConcatProperties, LenProperties
  <2> TAKE k \in DOMAIN (s \o t)
  <2>2. CASE k <= Len(s)
    BY <2>1, <2>2 DEF Range
  <2>3. CASE ~ (k <= Len(s))
    <3>1. k - Len(s) \in DOMAIN t /\ (s \o t)[k] = t[k - Len(s)]
      BY <2>1, <2>3
    <3> QED
      BY <3>1 DEF Range
  <2> QED
    BY <2>2, <2>3
<1> DEFINE u == s \o t
<1>2. /\ \A i \in DOMAIN s : \E k \in DOMAIN u : u[k] = s[i]
      /\ \A i \in DOMAIN t : \E k \in DOMAIN u : u[k] = t[i]
      /\ \A k \in DOMAIN u : u[k] \in Range(s) \cup Range(t)
  BY <1>1, StepsOfBoth
<1> HIDE DEF u
<1>3. Range(u) = Range(s) \cup Range(t)
  BY <1>2 DEF Range
<1> QED
  BY <1>3 DEF u

(* The first step and the others.                                          *)
LEMMA RangeOfRest ==
  ASSUME NEW s \in Seq(Step), s # <<>>
  PROVE  /\ Tail(s) \in Seq(Step) /\ Len(s) \in Nat \ {0} /\ DOMAIN s = 1 .. Len(s)
         /\ Len(Tail(s)) = Len(s) - 1 /\ \A i \in 1 .. Len(s) - 1 : Tail(s)[i] = s[i + 1]
         /\ Head(s) = s[1] /\ Range(s) = {Head(s)} \cup Range(Tail(s))
<1>1. /\ Tail(s) \in Seq(Step) /\ Len(s) \in Nat \ {0} /\ DOMAIN s = 1 .. Len(s)
      /\ Len(Tail(s)) = Len(s) - 1 /\ \A i \in 1 .. Len(s) - 1 : Tail(s)[i] = s[i + 1]
      /\ Head(s) = s[1]
  BY HeadTailProperties, LenProperties, EmptySeq
<1>2. PICK r \in Seq(Step) : r = Tail(s)
  BY <1>1
<1>3. DOMAIN r = 1 .. Len(s) - 1 /\ \A i \in 1 .. Len(s) - 1 : r[i] = s[i + 1]
  BY <1>1, <1>2, LenProperties
<1>4. \A i \in DOMAIN r : i + 1 \in DOMAIN s /\ r[i] = s[i + 1]
  BY <1>1, <1>3
<1>5. \A k \in DOMAIN s : k = 1 \/ (k - 1 \in DOMAIN r /\ s[k] = r[k - 1])
  <2> TAKE k \in DOMAIN s
  <2>1. k = 1 \/ k - 1 \in 1 .. Len(s) - 1
    BY <1>1
  <2>2. (k - 1) + 1 = k
    BY <1>1
  <2> QED
    BY <1>3, <2>1, <2>2
<1>6. Range(s) = {s[1]} \cup Range(r)
  <2>1. 1 \in DOMAIN s
    BY <1>1
  <2> QED
    BY <1>4, <1>5, <2>1 DEF Range
<1> QED
  BY <1>1, <1>2, <1>6

(* A program that ends as it has to still does with other steps before it. *)
LEMMA EndsAfter ==
  ASSUME NEW s \in Seq(Step), NEW t \in Seq(Step), NEW p, NEW mine, Ends(s, p, mine),
         \A x \in Range(t) : x.op \notin Ending
  PROVE  Ends(t \o s, p, mine)
<1>1. /\ Len(s) \in Nat /\ Len(t) \in Nat /\ DOMAIN t = 1 .. Len(t)
      /\ t \o s \in Seq(Step) /\ Len(t \o s) = Len(t) + Len(s)
      /\ \A i \in 1 .. Len(t) + Len(s) :
           (t \o s)[i] = IF i <= Len(t) THEN t[i] ELSE s[i - Len(t)]
  BY ConcatProperties, LenProperties
<1>2. Len(s) # 0
  BY EmptySeq DEF Ends
<1>3. (t \o s)[Len(t) + Len(s)] = s[Len(s)]
  BY <1>1, <1>2
<1>4. ASSUME NEW k \in 1 .. (Len(t) + Len(s)) - 1
      PROVE  (t \o s)[k].op \notin Ending
  <2>1. CASE k <= Len(t)
    <3>1. (t \o s)[k] = t[k] /\ k \in DOMAIN t
      BY <1>1, <2>1
    <3> QED
      BY <3>1 DEF Range
  <2>2. CASE ~ (k <= Len(t))
    <3>1. (t \o s)[k] = s[k - Len(t)] /\ k - Len(t) \in 1 .. Len(s) - 1
      BY <1>1, <2>2
    <3> QED
      BY <3>1 DEF Ends
  <2> QED
    BY <2>1, <2>2
<1>5. t \o s # <<>>
  BY <1>1, <1>2, EmptySeq
<1> QED
  BY <1>1, <1>3, <1>4, <1>5 DEF Ends

(* The last step is the only one of its kind: the first is it, or the rest *)
(* of the program ends with it.                                            *)
LEMMA EndsRest ==
  ASSUME NEW s \in Seq(Step), NEW p, NEW mine, Ends(s, p, mine)
  PROVE  /\ Head(s).op \notin Ending => Ends(Tail(s), p, mine)
         /\ Head(s).op \in Ending =>
              Tail(s) = <<>> /\ Range(s) = {Head(s)} /\ Final(Head(s), p, mine)
<1>1. s # <<>>
  BY DEF Ends
<1>2. /\ Tail(s) \in Seq(Step) /\ Len(s) \in Nat \ {0}
      /\ Len(Tail(s)) = Len(s) - 1 /\ \A i \in 1 .. Len(s) - 1 : Tail(s)[i] = s[i + 1]
      /\ Head(s) = s[1] /\ Range(s) = {Head(s)} \cup Range(Tail(s))
  BY <1>1, RangeOfRest
<1>3. CASE Len(s) = 1
  <2>1. Tail(s) = <<>> /\ Range(<<>>) = {}
    <3>0. Len(Tail(s)) = 0 /\ Tail(s) \in Seq(Step)
      BY <1>2, <1>3
    <3>1. Tail(s) = <<>>
      BY <3>0, EmptySeq
    <3> QED
      BY <3>1 DEF Range
  <2>2. Final(Head(s), p, mine)
    BY <1>2, <1>3 DEF Ends
  <2>3. Head(s).op \in Ending
    BY <2>2 DEF Final, Ending, SeedOf
  <2> QED
    BY <1>2, <2>1, <2>2, <2>3
<1>4. CASE Len(s) # 1
  <2>1. Head(s).op \notin Ending
    BY <1>2, <1>4 DEF Ends
  <2>2. Tail(s) # <<>>
    BY <1>2, <1>4, EmptySeq
  <2>3. Tail(s)[Len(Tail(s))] = s[Len(s)]
    BY <1>2, <1>4
  <2>4. \A k \in 1 .. Len(Tail(s)) - 1 : Tail(s)[k].op \notin Ending
    BY <1>2 DEF Ends
  <2> QED
    BY <2>1, <2>2, <2>3, <2>4 DEF Ends
<1> QED
  BY <1>3, <1>4

(* A program that is nothing but its end.                                  *)
LEMMA EndsOne ==
  ASSUME NEW x \in Step, NEW p, NEW mine, Final(x, p, mine)
  PROVE  Ends(<<x>>, p, mine) /\ Range(<<x>>) = {x}
BY DEF Ends, Range

(* More markets of the profile do no harm.                                 *)
LEMMA EndsMono ==
  ASSUME NEW s, NEW p, NEW mine, NEW more, mine \subseteq more, Ends(s, p, mine)
  PROVE  Ends(s, p, more)
BY DEF Ends, Final

-----------------------------------------------------------------------------
(* A step that is no mishap, or starts from none: nobody overrides.        *)
LEMMA NoMishap ==
  ASSUME IInv, mishaps' = mishaps \/ mishaps' = 0
  PROVE  ~ Crash /\ ~ Overriding /\ \A a \in Actor : ~ Fault(a)
<1>1. ~ Mishap
  <2>1. mishaps \in Nat
    BY MarketsAssumption DEF IInv, TypeOK
  <2> QED
    BY <2>1 DEF Mishap
<1> QED
  BY <1>1 DEF Crash, Fault, Overriding, SettingSet, SettingRemove, VotedOut

(* A boot that is owed after the step has not been overridden.             *)
LEMMA NotOverridden ==
  ASSUME boot # "started", owed'
  PROVE  ~ Overriding
BY DEF Overriding, SettingSet, SettingRemove, VotedOut

-----------------------------------------------------------------------------
(* What happens while the boot runs.                                       *)

(* The boot's program is what it was, or the boot has taken a step of it.  *)
LEMMA BootWork ==
  ASSUME IInv, Next, boot = "booting", boot' = "booting"
  PROVE  \/ work'["boot"] = work["boot"]
         \/ /\ Proceed("boot") /\ work["boot"] # <<>> /\ ~ Threw("boot")
            /\ \E t \in Seq(Step) : work'["boot"] = t \o Tail(work["boot"])
<1>0. work \in [Actor -> Seq(Step)] /\ "boot" \in Actor /\ "boot" \notin Clients
      /\ \A c \in Clients : c \in Actor
  BY MarketsAssumption DEF IInv, Programs, Actor
<1>1. ~ Threw("boot")
  BY DEF Threw
<1>2. CASE Proceed("boot")
  <2>1. /\ work["boot"] # <<>>
        /\ (\E t \in Seq(CalmStep) : Replace("boot", t)) \/ InsertMarket("boot")
    BY <1>0, <1>1, <1>2, CalmProceed
  <2>2. \E t \in Seq(Step) : Replace("boot", t)
    <3>1. CASE InsertMarket("boot")
      BY <1>0, <1>1, <3>1, InsertedMarket
    <3> QED
      BY <2>1, <3>1, CalmSequences
  <2>3. \E t \in Seq(Step) : work'["boot"] = t \o Tail(work["boot"])
    BY <1>0, <2>2 DEF Replace
  <2> QED
    BY <1>1, <1>2, <2>1, <2>3
<1>3. ASSUME NEW a \in Actor \ {"boot"}, Proceed(a) PROVE work'["boot"] = work["boot"]
  <2>1. work[a] # <<>> /\ (Threw(a) \/ \E t \in Seq(Step) : Replace(a, t))
    <3>1. ASSUME InsertMarket(a) PROVE Threw(a) \/ \E t \in Seq(Step) : Replace(a, t)
      BY <1>0, <1>3, <3>1, InsertedMarket
    <3>2. work[a] # <<>> /\ (Threw(a) \/ (\E t \in Seq(CalmStep) : Replace(a, t)) \/ InsertMarket(a))
      BY <1>3, CalmProceed
    <3> QED
      BY <3>1, <3>2, CalmSequences
  <2> QED
    BY <1>0, <1>3, <2>1 DEF Threw, Replace
<1>4. ASSUME NEW a \in Actor, Fault(a) PROVE work'["boot"] = work["boot"]
  BY <1>0, <1>1, <1>4 DEF Fault, Threw
<1>5. ASSUME NEW c \in Clients, Commands(c) PROVE work'["boot"] = work["boot"]
  <2>1. \E t : Commanding(c, t)
    BY <1>5, CommandPrograms
  <2> QED
    BY <1>0, <2>1 DEF Commanding, Start
<1>6. CASE \/ \E c \in Clients, p \in DOMAIN profiles : ProfileDefault(c, p) \/ ProfileRemove(c, p)
           \/ \E n \in MarketName, address \in Address : ReceiveMarketAdd(n, address)
           \/ (\E m \in DOMAIN markets : ExpireMarket(m)) \/ Overriding
  BY <1>6 DEF ProfileDefault, ProfileRemove, ReceiveMarketAdd, ExpireMarket,
       Overriding, SettingSet, SettingRemove, VotedOut
<1>7. ~ BeginBoot /\ ~ FinishBoot /\ ~ Crash
  BY DEF BeginBoot, FinishBoot, Crash
<1> QED
  BY <1>2, <1>3, <1>4, <1>5, <1>6, <1>7 DEF Next, Commands, Overriding

(* Core unloads nothing, and an identity that is new has its wallet loaded.*)
LEMMA WalletsLoaded ==
  ASSUME IInv, Next, boot = "booting", boot' = "booting"
  PROVE  /\ loaded \subseteq loaded' /\ identities \subseteq identities'
         /\ \A i \in identities' \ identities : i.wallet \in loaded
<1>1. ASSUME NEW a \in Actor, InsertIdentity(a)
      PROVE  /\ loaded \subseteq loaded' /\ identities \subseteq identities'
             /\ \A i \in identities' \ identities : i.wallet \in loaded
  <2> DEFINE s == Head(work[a])
  <2>1. /\ work[a] # <<>> /\ s.op = "identity"
        /\ \/ identities' = identities
           \/ identities' = identities \cup {[wallet |-> s.wallet, profile |-> s.profile,
                                              path |-> s.path]}
        /\ loaded' = loaded
    BY <1>1 DEF InsertIdentity, Running, core
  <2>2. s \in Step /\ Needs(s) \subseteq There
    BY <2>1, FirstStep
  <2>3. s.wallet \in Wallet /\ OfWallet(s.wallet) \in There
    <3>1. OfWallet(s.wallet) \in Needs(s)
      BY <2>1 DEF Needs
    <3> QED
      BY <2>1, <2>2, <3>1, StepFields
  <2>4. s.wallet \in loaded
    BY <2>3, ThereFacts
  <2> QED
    BY <2>1, <2>4
<1>2. ASSUME NEW a \in Actor, Proceed(a), ~ InsertIdentity(a)
      PROVE  loaded \subseteq loaded' /\ identities' = identities
  BY <1>2 DEF Proceed, AddProfile, SetProfile, RenameMarket, LoadWallets, SeedMarket, OpenWallet,
       CreateWallet, extKeyGenesisImport, extKeyImport, DeriveAccount, LookForUnjoined,
       InsertMarket, JoinMarket, SetMarket, DestroyMarket, database, core
<1>3. ASSUME NEW a \in Actor, Fault(a) PROVE loaded' = loaded /\ identities' = identities
  BY <1>3 DEF Fault, database, core
<1>4. ASSUME NEW c \in Clients, Commands(c) PROVE loaded' = loaded /\ identities' = identities
  <2>1. \E t : Commanding(c, t)
    BY <1>4, CommandPrograms
  <2> QED
    BY <2>1 DEF Commanding, database, core
<1>5. CASE \/ \E c \in Clients, p \in DOMAIN profiles : ProfileDefault(c, p)
           \/ \E n \in MarketName, address \in Address : ReceiveMarketAdd(n, address)
           \/ (\E m \in DOMAIN markets : ExpireMarket(m)) \/ Overriding
  BY <1>5 DEF ProfileDefault, ReceiveMarketAdd, ExpireMarket, core,
       Overriding, SettingSet, SettingRemove, VotedOut
<1>6. /\ ~ BeginBoot /\ ~ FinishBoot /\ ~ Crash
      /\ \A c \in Clients, p \in DOMAIN profiles : ~ ProfileRemove(c, p)
  BY DEF BeginBoot, FinishBoot, Crash, ProfileRemove
<1> QED
  BY <1>1, <1>2, <1>3, <1>4, <1>5, <1>6 DEF Next, Commands, Overriding

(* The wallets of the profile stay loaded, or will be loaded.              *)
LEMMA LoadsKept ==
  ASSUME IInv, Next, boot = "booting", boot' = "booting", NEW p, Loads(p)
  PROVE  Loads(p)'
<1>1. /\ loaded \subseteq loaded' /\ identities \subseteq identities'
      /\ \A i \in identities' \ identities : i.wallet \in loaded
  BY WalletsLoaded
<1>2. CASE \A i \in identities : i.profile = p => i.wallet \in loaded
  BY <1>1, <1>2 DEF Loads
<1>3. CASE LoadAll(p) \in Range(work["boot"])
  <2>0. work["boot"] \in Seq(Step)
    BY DEF IInv, Programs, Actor
  <2>1. CASE work'["boot"] = work["boot"]
    BY <1>3, <2>1 DEF Loads
  <2>2. CASE Proceed("boot") /\ work["boot"] # <<>>
             /\ \E t \in Seq(Step) : work'["boot"] = t \o Tail(work["boot"])
    <3>1. Range(work["boot"]) = {Head(work["boot"])} \cup Range(Tail(work["boot"]))
          /\ Tail(work["boot"]) \in Seq(Step)
      BY <2>0, <2>2, RangeOfRest
    <3>2. Range(Tail(work["boot"])) \subseteq Range(work'["boot"])
      BY <2>2, <3>1, RangeOfBoth
    <3>3. CASE Head(work["boot"]) = LoadAll(p)
      <4>1. Head(work["boot"]).op = "loadAll" /\ Head(work["boot"]).profile = p
        BY <3>3 DEF LoadAll
      <4>2. LoadWallets("boot")
        BY <2>2, <4>1 DEF Proceed, AddProfile, SetProfile, RenameMarket, SeedMarket, OpenWallet,
             CreateWallet, extKeyGenesisImport, extKeyImport, DeriveAccount, InsertIdentity,
             LookForUnjoined, InsertMarket, JoinMarket, SetMarket, DestroyMarket, Running
      <4>3. /\ identities' = identities
            /\ loaded' = loaded \cup {w \in DOMAIN wallets :
                                        \E i \in identities : i.profile = p /\ i.wallet = w}
        BY <4>1, <4>2 DEF LoadWallets, database
      <4>4. \A i \in identities : i.wallet \in DOMAIN wallets
        BY DEF IInv, IdentityUsable
      <4> QED
        BY <4>3, <4>4 DEF Loads
    <3>4. CASE Head(work["boot"]) # LoadAll(p)
      BY <1>3, <3>1, <3>2, <3>4 DEF Loads
    <3> QED
      BY <3>3, <3>4
  <2> QED
    BY <2>1, <2>2, BootWork
<1> QED
  BY <1>2, <1>3 DEF Loads

(* While the boot runs no profile is removed, none is added by a client,   *)
(* and no client chooses the default one.                                  *)
LEMMA ProfilesWhileBooting ==
  ASSUME IInv, SInv, Next, ~ Overriding, boot = "booting"
  PROVE  /\ profiles' = profiles \/ AddProfile("boot")
         /\ settings'.profile = settings.profile \/ SetProfile("boot")
         /\ settings'.market = settings.market \/ \E a \in Actor : Proceed(a) /\ SetMarket(a)
<1>0. settings \in [profile : Pid \cup {None}, market : [Pid -> Mid \cup {None}]]
  BY DEF IInv, TypeOK
<1>1. ASSUME NEW a \in Actor, Proceed(a)
      PROVE  /\ profiles' = profiles \/ AddProfile("boot")
             /\ settings'.profile = settings.profile \/ SetProfile("boot")
             /\ settings'.market = settings.market \/ SetMarket(a)
  <2>1. ASSUME AddProfile(a) PROVE a = "boot" /\ settings' = settings
    <3>1. Running(a, "addProfile") /\ settings' = settings
      BY <2>1 DEF AddProfile
    <3>2. 1 \in DOMAIN work[a] /\ work[a][1].op = "addProfile"
      BY <3>1, FirstStep DEF Running
    <3> QED
      BY <3>1, <3>2 DEF IInv, Adding
  <2>2. ASSUME SetProfile(a) PROVE a = "boot" /\ profiles' = profiles /\ settings'.market = settings.market
    <3>1. /\ Running(a, "setProfile") /\ profiles' = profiles
          /\ settings' = [settings EXCEPT !.profile = Head(work[a]).profile]
      BY <2>2 DEF SetProfile
    <3>2. 1 \in DOMAIN work[a] /\ work[a][1].op = "setProfile"
      BY <3>1, FirstStep DEF Running
    <3>3. a \notin Clients
      BY <3>2 DEF SInv, Choosing
    <3> QED
      BY <1>0, <3>1, <3>3 DEF Actor
  <2>3. ASSUME SetMarket(a) PROVE profiles' = profiles /\ settings'.profile = settings.profile
    BY <1>0, <2>3 DEF SetMarket
  <2>4. ~ AddProfile(a) /\ ~ SetProfile(a) /\ ~ SetMarket(a) => UNCHANGED <<profiles, settings>>
    BY <1>1 DEF Proceed, RenameMarket, LoadWallets, SeedMarket, OpenWallet, CreateWallet,
         extKeyGenesisImport, extKeyImport, DeriveAccount, InsertIdentity, LookForUnjoined,
         InsertMarket, JoinMarket, DestroyMarket, database
  <2> QED
    BY <2>1, <2>2, <2>3, <2>4
<1>2. ASSUME NEW c \in Clients, Commands(c) PROVE UNCHANGED <<profiles, settings>>
  <2>1. \E t : Commanding(c, t)
    BY <1>2, CommandPrograms
  <2> QED
    BY <2>1 DEF Commanding, database
<1>3. ASSUME \/ BeginBoot \/ FinishBoot \/ Crash \/ \E a \in Actor : Fault(a)
             \/ \E n \in MarketName, address \in Address : ReceiveMarketAdd(n, address)
             \/ \E m \in DOMAIN markets : ExpireMarket(m)
      PROVE  UNCHANGED <<profiles, settings>>
  BY <1>3 DEF BeginBoot, FinishBoot, Crash, Fault, ReceiveMarketAdd, ExpireMarket, database
<1>4. \A c \in Clients, p \in DOMAIN profiles : ~ ProfileDefault(c, p) /\ ~ ProfileRemove(c, p)
  BY DEF ProfileDefault, ProfileRemove
<1> QED
  BY <1>1, <1>2, <1>3, <1>4 DEF Next, Commands, Overriding

(* A boot that finds everything leaves it alone, and so does the client.   *)
LEMMA KeepingKept ==
  ASSUME IInv, SInv, OneClient, Next, ~ Overriding, boot = "booting", boot' = "booting",
         NEW p, Keeping(p)
  PROVE  Keeping(p)'
<1>0. /\ work["boot"] \in Seq(Step) /\ "boot" \in Actor
      /\ \A x \in Range(work["boot"]) : x \in {LoadAll(p), SeedOf(p)}
  BY DEF IInv, Programs, Actor, Keeping
<1>1. SetsNone
  <2>1. \A k \in DOMAIN work["boot"] : work["boot"][k] \in Range(work["boot"])
    BY DEF Range
  <2> QED
    BY <1>0, <2>1 DEF SetsNone, LoadAll, SeedOf
<1>2. work["boot"] # <<>> =>
        Head(work["boot"]) \in Range(work["boot"]) /\ Head(work["boot"]).op \in {"loadAll", "seedMarket"}
  BY <1>0, RangeOfRest DEF LoadAll, SeedOf
<1>3. ~ AddProfile("boot") /\ ~ SetProfile("boot")
  BY <1>2 DEF AddProfile, SetProfile, Running
<1>4. profiles' = profiles /\ settings'.profile = settings.profile
  BY <1>3, ProfilesWhileBooting
<1>5. Seeded'
  BY <1>1, <1>4, SeededStays DEF Keeping
<1>6. Range(work'["boot"]) \subseteq Range(work["boot"])
  <2>1. CASE Proceed("boot") /\ work["boot"] # <<>> /\ ~ Threw("boot")
    <3>1. LoadWallets("boot") \/ SeedMarket("boot")
      BY <1>2, <2>1 DEF Proceed, AddProfile, SetProfile, RenameMarket, OpenWallet,
           CreateWallet, extKeyGenesisImport, extKeyImport, DeriveAccount, InsertIdentity,
           LookForUnjoined, InsertMarket, JoinMarket, SetMarket, DestroyMarket, Running
    <3>2. ASSUME SeedMarket("boot") PROVE Done("boot")
      <4>1. Head(work["boot"]).op = "seedMarket"
        BY <3>2 DEF SeedMarket, Running
      <4>2. Head(work["boot"]) = SeedOf(p)
        BY <1>0, <1>2, <2>1, <4>1 DEF LoadAll
      <4>3. Head(work["boot"]).profile = p
        BY <4>2 DEF SeedOf
      <4>4. settings.market[p] \in DOMAIN markets
        BY DEF Keeping, Seeded, OfProfile
      <4> QED
        BY <2>1, <3>2, <4>3, <4>4 DEF SeedMarket, Done
    <3>3. Done("boot")
      BY <3>1, <3>2 DEF LoadWallets
    <3>4. work'["boot"] = <<>> \o Tail(work["boot"])
      BY <1>0, <3>3 DEF Done, Replace, IInv, Programs
    <3>5. Tail(work["boot"]) \in Seq(Step) /\ Range(Tail(work["boot"])) \subseteq Range(work["boot"])
      BY <1>0, <2>1, RangeOfRest
    <3>6. <<>> \in Seq(Step) /\ Range(<<>>) = {}
      BY DEF Range
    <3>7. Range(work'["boot"]) = Range(<<>>) \cup Range(Tail(work["boot"]))
      BY <3>4, <3>5, <3>6, RangeOfBoth
    <3> QED
      BY <3>5, <3>6, <3>7
  <2> QED
    BY <2>1, BootWork
<1> QED
  BY <1>0, <1>4, <1>5, <1>6 DEF Keeping

-----------------------------------------------------------------------------
(* Steps that neither end the boot's program nor change the settings.      *)
QuietStep == {x \in CalmStep : x.op \notin Ending}

(* Steps that do not make the default market leave only quiet ones behind. *)
LEMMA QuietProceed ==
  ASSUME IInv, NEW a \in Actor, Proceed(a), Head(work[a]).op \notin Ending
  PROVE  Threw(a) \/ \E t \in Seq(QuietStep) : Replace(a, t)
<1>1. work[a] # <<>> /\ <<>> \in Seq(QuietStep)
  BY CalmProceed
<1>2. Done(a) => \E t \in Seq(QuietStep) : Replace(a, t)
  BY <1>1 DEF Done
<1>3. ~ SeedMarket(a) /\ ~ InsertMarket(a) /\ ~ SetMarket(a)
  BY DEF SeedMarket, InsertMarket, SetMarket, Running, Ending
<1>4. CASE \/ AddProfile(a) \/ SetProfile(a) \/ RenameMarket(a) \/ LoadWallets(a)
           \/ CreateWallet(a) \/ extKeyGenesisImport(a) \/ DeriveAccount(a) \/ InsertIdentity(a)
           \/ LookForUnjoined(a) \/ JoinMarket(a) \/ DestroyMarket(a)
  <2>1. Done(a) \/ Threw(a)
    BY <1>4 DEF AddProfile, SetProfile, RenameMarket, LoadWallets, CreateWallet,
         extKeyGenesisImport, DeriveAccount, InsertIdentity, LookForUnjoined, JoinMarket,
         DestroyMarket, Finds
  <2> QED
    BY <1>2, <2>1
<1>5. CASE OpenWallet(a)
  <2> DEFINE s == Head(work[a])
             x == [op |-> "create", wallet |-> s.wallet]
             y == [op |-> "genesis", wallet |-> s.wallet]
  <2>1. s \in Step /\ s.op = "wallet"
    BY <1>1, <1>5, FirstStep DEF OpenWallet, Running
  <2>2. s.wallet \in Wallet
    BY <2>1, StepFields
  <2>3. x \in QuietStep /\ (s.wallet.market = "none" => y \in QuietStep)
    BY <2>2, StepKinds DEF QuietStep, Ending, CalmStep, Unsettling, ShopWallet
  <2>4. Threw(a) \/ Replace(a, <<>>)
        \/ Replace(a, <<x>> \o (IF s.wallet.market = "none" THEN <<y>> ELSE <<>>))
    BY <1>5 DEF OpenWallet
  <2> HIDE DEF x, y
  <2>5. <<x>> \o (IF s.wallet.market = "none" THEN <<y>> ELSE <<>>) \in Seq(QuietStep)
    <3>1. <<x>> \in Seq(QuietStep) /\ (IF s.wallet.market = "none" THEN <<y>> ELSE <<>>) \in Seq(QuietStep)
      BY <2>3
    <3> QED
      BY <3>1, ConcatProperties
  <2> QED
    BY <1>1, <2>4, <2>5
<1>6. CASE extKeyImport(a)
  <2> DEFINE s == Head(work[a])
             x == [op |-> "account", wallet |-> s.wallet]
  <2>1. s \in Step /\ s.op = "import"
    BY <1>1, <1>6, FirstStep DEF extKeyImport, Running
  <2>2. x \in QuietStep
    BY <2>1, StepFields, StepKinds DEF QuietStep, Ending, CalmStep, Unsettling
  <2>3. Replace(a, <<>>) \/ Replace(a, <<x>>)
    BY <1>6 DEF extKeyImport
  <2> HIDE DEF x
  <2>4. <<x>> \in Seq(QuietStep)
    BY <2>2
  <2> QED
    BY <1>1, <2>3, <2>4
<1> QED
  BY <1>3, <1>4, <1>5, <1>6 DEF Proceed

(* The markets of a profile stay while no client removes them.             *)
LEMMA MarketsOfIdle ==
  ASSUME IInv, SInv, Next, ~ Overriding, ClientsIdle, NEW p \in Pid
  PROVE  OfProfile(p) \subseteq OfProfile(p)'
<1> SUFFICES ASSUME NEW m \in DOMAIN markets, markets[m].profile = p
             PROVE  m \in DOMAIN markets' /\ markets'[m].profile = p
  BY DEF OfProfile
<1>1. p # None
  BY DataHolds
<1>2. ASSUME NEW a \in Actor, Running(a, "destroy") PROVE FALSE
  <2>1. work[a] # <<>> /\ 1 \in DOMAIN work[a] /\ work[a][1].op = "destroy"
    BY <1>2, FirstStep DEF Running
  <2> QED
    BY <2>1 DEF SInv, Destroying, ClientsIdle
<1> QED
  BY <1>1, <1>2, MarketsStay

(* A quiet step of the boot that makes the default profile and market.     *)
LEMMA SeedingGoes ==
  ASSUME IInv, NEW p \in Pid, Seeding(p), NEW t \in Seq(QuietStep), Replace("boot", t),
         Head(work["boot"]).op \notin Ending, settings'.market = settings.market,
         IF Head(work["boot"]).op = "setProfile"
         THEN settings'.profile = Head(work["boot"]).profile
         ELSE settings'.profile = settings.profile,
         Head(work["boot"]).op = "identity" /\ Head(work["boot"]).profile = p
           /\ Head(work["boot"]).path = MasterPath => HasIdentity(p)',
         identities \subseteq identities', OfProfile(p) \subseteq OfProfile(p)'
  PROVE  Seeding(p)'
<1>1. PICK s : s = work["boot"]
  OBVIOUS
<1>2. /\ s \in Seq(Step) /\ s # <<>> /\ work'["boot"] = t \o Tail(s)
      /\ \A c \in Clients : work'[c] = work[c]
  BY <1>1, MarketsAssumption DEF IInv, Programs, Actor, Seeding, Ends, Replace
<1>3. Tail(s) \in Seq(Step) /\ Range(s) = {Head(s)} \cup Range(Tail(s))
  BY <1>2, RangeOfRest
<1>4. t \in Seq(Step) /\ \A x \in Range(t) : x.op \notin Ending /\ x.op # "setProfile"
  <2>1. QuietStep \subseteq Step
    BY DEF QuietStep, CalmStep
  <2>2. \A k \in DOMAIN t : t[k] \in QuietStep
    BY ElementOfSeq, LenProperties
  <2>3. t \in Seq(Step)
    BY <2>1, SeqWider
  <2> QED
    BY <2>2, <2>3 DEF Range, QuietStep, CalmStep, Unsettling
<1>5. Range(work'["boot"]) = Range(t) \cup Range(Tail(s))
  BY <1>2, <1>3, <1>4, RangeOfBoth
<1>6. Ends(work'["boot"], p, OfProfile(p)')
  <2>1. Ends(Tail(s), p, OfProfile(p))
    BY <1>1, <1>2, EndsRest DEF Seeding
  <2>2. Ends(t \o Tail(s), p, OfProfile(p))
    BY <1>3, <1>4, <2>1, EndsAfter
  <2> QED
    BY <1>2, <2>2, EndsMono
<1>7. (settings.profile = p \/ SetOf(p) \in Range(work["boot"]))'
  BY <1>1, <1>3, <1>5 DEF Seeding, SetOf
<1>8. \A x \in Range(work'["boot"]) : x.op = "setProfile" => x.profile = p
  BY <1>1, <1>3, <1>4, <1>5 DEF Seeding
<1>9. \/ HasIdentity(p)'
      \/ \E x \in Range(work'["boot"]) : x.op = "identity" /\ x.profile = p /\ x.path = MasterPath
  <2>1. HasIdentity(p) => HasIdentity(p)'
    BY DEF HasIdentity
  <2> QED
    BY <1>1, <1>3, <1>5, <2>1 DEF Seeding
<1>10. ClientsIdle' /\ NoneSet'
  BY <1>2 DEF Seeding, ClientsIdle, NoneSet
<1> QED
  BY <1>6, <1>7, <1>8, <1>9, <1>10 DEF Seeding

(* A step of the boot that makes the profile, its identity, or looks.      *)
LEMMA SeedingQuietly ==
  ASSUME IInv, SInv, Next, ~ Overriding, Proceed("boot"), ~ Threw("boot"),
         NEW p \in Pid, Seeding(p),
         Head(work["boot"]).op \notin Ending
  PROVE  Seeding(p)'
<1>0. "boot" \in Actor /\ settings \in [profile : Pid \cup {None}, market : [Pid -> Mid \cup {None}]]
  BY DEF IInv, TypeOK, Actor
<1>1. PICK t \in Seq(QuietStep) : Replace("boot", t)
  BY <1>0, QuietProceed
<1>2. OfProfile(p) \subseteq OfProfile(p)'
  BY MarketsOfIdle DEF Seeding
<1>3. /\ settings'.market = settings.market
      /\ IF Head(work["boot"]).op = "setProfile"
         THEN settings'.profile = Head(work["boot"]).profile
         ELSE settings'.profile = settings.profile
  <2>1. CASE SetProfile("boot")
    BY <1>0, <2>1 DEF SetProfile, Running
  <2>2. CASE ~ SetProfile("boot")
    BY <2>2 DEF Proceed, AddProfile, RenameMarket, LoadWallets, SeedMarket, OpenWallet,
         CreateWallet, extKeyGenesisImport, extKeyImport, DeriveAccount, InsertIdentity,
         LookForUnjoined, InsertMarket, JoinMarket, SetMarket, DestroyMarket, database, Running,
         Ending
  <2> QED
    BY <2>1, <2>2
<1>4. /\ identities \subseteq identities'
      /\ Head(work["boot"]).op = "identity" /\ Head(work["boot"]).profile = p
           /\ Head(work["boot"]).path = MasterPath => HasIdentity(p)'
  <2>1. CASE InsertIdentity("boot")
    <3> DEFINE s == Head(work["boot"])
               i == [wallet |-> s.wallet, profile |-> s.profile, path |-> s.path]
    <3>1. PICK fits \in BOOLEAN :
            /\ Finds("boot", fits)
            /\ identities' = IF fits THEN identities \cup {i} ELSE identities
      BY <2>1 DEF InsertIdentity
    <3>2. identities \subseteq identities' /\ i \in identities'
      BY <3>1 DEF Finds
    <3>3. i.profile = s.profile /\ i.path = s.path
      OBVIOUS
    <3> HIDE DEF i, s
    <3>4. s.profile = p /\ s.path = MasterPath => HasIdentity(p)'
      BY <3>2, <3>3 DEF HasIdentity
    <3> QED
      BY <3>2, <3>4 DEF s
  <2>2. CASE ~ InsertIdentity("boot")
    <3>1. identities' = identities /\ Head(work["boot"]).op # "identity"
      BY <2>2 DEF Proceed, AddProfile, SetProfile, RenameMarket, LoadWallets, SeedMarket,
           OpenWallet, CreateWallet, extKeyGenesisImport, extKeyImport, DeriveAccount,
           LookForUnjoined, InsertMarket, JoinMarket, SetMarket, DestroyMarket, database, Running
    <3> QED
      BY <3>1
  <2> QED
    BY <2>1, <2>2
<1> QED
  BY <1>1, <1>2, <1>3, <1>4, SeedingGoes

(* The last step of the boot's program, when it is not the one that sets   *)
(* the default market: others take its place.                              *)
LEMMA SeedingEnd ==
  ASSUME IInv, NEW p \in Pid, Seeding(p), NEW t \in Seq(Step), Replace("boot", t),
         Head(work["boot"]).op \in Ending, Ends(t, p, OfProfile(p)'),
         \A x \in Range(t) : x.op # "setProfile",
         UNCHANGED <<settings, identities>>
  PROVE  Seeding(p)'
<1>1. PICK s : s = work["boot"]
  OBVIOUS
<1>2. /\ s \in Seq(Step) /\ work'["boot"] = t \o Tail(s) /\ Ends(s, p, OfProfile(p))
      /\ \A c \in Clients : work'[c] = work[c]
  BY <1>1, MarketsAssumption DEF IInv, Programs, Actor, Seeding, Replace
<1>3. Tail(s) = <<>> /\ Range(s) = {Head(s)} /\ Head(s).op \in Ending
  BY <1>1, <1>2, EndsRest
<1>4. t \o <<>> = t
  OBVIOUS
<1>5. work'["boot"] = t
  BY <1>2, <1>3, <1>4
<1>6. settings.profile = p /\ HasIdentity(p)
  BY <1>1, <1>3 DEF Seeding, SetOf, Ending
<1> QED
  BY <1>2, <1>5, <1>6 DEF Seeding, ClientsIdle, NoneSet, HasIdentity

(* The default market is looked for; it is not there, and will be made.    *)
LEMMA SeedingSeeds ==
  ASSUME IInv, NEW p \in Pid, Seeding(p), SeedMarket("boot"), ~ Threw("boot")
  PROVE  Seeding(p)'
<1>0. "boot" \in Actor /\ work["boot"] # <<>> /\ Head(work["boot"]).op = "seedMarket"
  BY DEF SeedMarket, Running, Actor
<1>1. Head(work["boot"]) = SeedOf(p)
  <2>1. work["boot"] \in Seq(Step) /\ Ends(work["boot"], p, OfProfile(p))
    BY DEF IInv, Programs, Actor, Seeding
  <2>2. Final(Head(work["boot"]), p, OfProfile(p))
    BY <1>0, <2>1, EndsRest DEF Ending
  <2> QED
    BY <1>0, <2>2 DEF Final
<1>2. Head(work["boot"]).profile = p /\ settings.market[p] \notin DOMAIN markets
  <2>1. None \notin DOMAIN markets
    <3>1. DOMAIN markets \subseteq 1 .. last.market /\ last.market \in Nat
      BY MarketsAssumption DEF IInv, TypeOK
    <3> QED
      BY <3>1 DEF None
  <2> QED
    BY <1>1, <2>1 DEF SeedOf, Seeding, NoneSet
<1> DEFINE w == MarketWallet(profiles[p], IdentityName)
           s == MarketIdentity(p, profiles[p], IdentityName, 0)
           y == CreateMarket("default", "default", p, w, TRUE)
           t == Append(s, y)
<1>3. p \in DOMAIN profiles /\ Replace("boot", t) /\ UNCHANGED <<settings, identities>>
  BY <1>2 DEF SeedMarket, database
<1>4. /\ IdentityName \in Names /\ "default" \in Names /\ "default" \in Addresses /\ 0 \in Path
      /\ profiles[p] \in ProfileName /\ TRUE \in BOOLEAN
  BY <1>3, DataHolds, MarketsAssumption DEF Names, Addresses, Path, MasterPath
<1>5. /\ s \in Seq(CalmStep) /\ t \in Seq(CalmStep)
      /\ \A k \in DOMAIN s : s[k].op \notin Ending
  <2>1. s \in Seq(CalmStep)
    BY <1>4, CalmPrograms
  <2>2. t \in Seq(CalmStep)
    BY <1>4, CalmMarkets
  <2> DEFINE v == MarketWallet(profiles[p], IdentityName)
             a == [op |-> "wallet", wallet |-> v, profile |-> p]
             b == [op |-> "import", wallet |-> v, path |-> 0]
             c == Insert(v, p, 0)
  <2>3. s = <<a, b, c>>
    BY DEF MarketIdentity
  <2>4. a.op \notin Ending /\ b.op \notin Ending /\ c.op \notin Ending
    BY DEF Ending, Insert
  <2> HIDE DEF s, t, a, b, c
  <2>5. \A k \in DOMAIN s : s[k].op \notin Ending
    <3>1. \A k \in DOMAIN <<a, b, c>> : <<a, b, c>>[k] \in {a, b, c}
      OBVIOUS
    <3> QED
      BY <2>3, <2>4, <3>1
  <2> QED
    BY <2>1, <2>2, <2>5
<1>6. Final(y, p, OfProfile(p)') /\ y.op # "setProfile"
  BY DEF CreateMarket, Final
<1> HIDE DEF s, y
<1>7. /\ Len(s) \in Nat /\ DOMAIN s = 1 .. Len(s) /\ Len(t) = Len(s) + 1 /\ t[Len(s) + 1] = y
      /\ \A k \in 1 .. Len(s) : t[k] = s[k]
  BY <1>5, AppendProperties, LenProperties
<1>8. t \in Seq(Step) /\ \A k \in DOMAIN t : t[k].op # "setProfile"
  BY <1>5, CalmSequences DEF Unsettling
<1> HIDE DEF t
<1>9. Ends(t, p, OfProfile(p)')
  <2>1. t # <<>>
    BY <1>7, <1>8, EmptySeq
  <2>2. t[Len(t)] = y
    BY <1>7
  <2>3. \A k \in 1 .. Len(t) - 1 : t[k].op \notin Ending
    BY <1>5, <1>7
  <2> QED
    BY <1>6, <2>1, <2>2, <2>3 DEF Ends
<1>10. \A x \in Range(t) : x.op # "setProfile"
  BY <1>8 DEF Range
<1>11. Head(work["boot"]).op \in Ending
  BY <1>0 DEF Ending
<1> QED
  BY <1>3, <1>8, <1>9, <1>10, <1>11, SeedingEnd

(* The default market is inserted; it will be joined and made the default. *)
LEMMA SeedingInserts ==
  ASSUME IInv, NEW p \in Pid, Seeding(p), InsertMarket("boot"), ~ Threw("boot")
  PROVE  Seeding(p)'
<1>h. PICK s, m : s = Head(work["boot"]) /\ m = last.market + 1
  OBVIOUS
<1> DEFINE x == [op |-> "join", market |-> m]
           y == [op |-> "setMarket", profile |-> p, market |-> m]
<1>0. /\ work["boot"] # <<>> /\ work["boot"] \in Seq(Step) /\ s.op = "market" /\ p # None
      /\ Ends(work["boot"], p, OfProfile(p)) /\ last.market < MaxMarkets
  BY <1>h, DataHolds DEF InsertMarket, Running, IInv, Programs, Actor, Seeding
<1>1. s.seeds = TRUE /\ s.row.profile = p
  <2>1. Final(s, p, OfProfile(p))
    BY <1>h, <1>0, EndsRest DEF Ending
  <2> QED
    BY <1>0, <2>1 DEF Final, SeedOf
<1>2. /\ Replace("boot", <<x>> \o <<y>>) /\ UNCHANGED <<settings, identities>>
      /\ markets' = [k \in DOMAIN markets \cup {m} |-> IF k = m THEN s.row ELSE markets[k]]
  BY <1>h, <1>0, <1>1 DEF InsertMarket
<1>3. m \in OfProfile(p)'
  BY <1>1, <1>2 DEF OfProfile
<1>4. m \in Mid
  <2>1. last.market \in 0 .. MaxMarkets
    BY DEF IInv, TypeOK
  <2> QED
    BY <1>0, <1>h, <2>1, MarketsAssumption DEF Mid
<1>5. x \in Step /\ y \in Step
  BY <1>4, StepKinds
<1>6. x.op = "join" /\ y.op = "setMarket" /\ y.profile = p /\ y.market = m
  OBVIOUS
<1> HIDE DEF x, y
<1>7. Ends(<<y>>, p, OfProfile(p)') /\ Range(<<y>>) = {y} /\ Range(<<x>>) = {x}
  <2>1. Final(y, p, OfProfile(p)')
    BY <1>3, <1>6 DEF Final
  <2>2. Range(<<x>>) = {x}
    BY DEF Range
  <2> QED
    BY <1>5, <2>1, <2>2, EndsOne
<1>8. <<x>> \in Seq(Step) /\ <<y>> \in Seq(Step)
  BY <1>5
<1>9. Ends(<<x>> \o <<y>>, p, OfProfile(p)')
  BY <1>6, <1>7, <1>8, EndsAfter DEF Ending
<1>10. \A z \in Range(<<x>> \o <<y>>) : z.op # "setProfile"
  BY <1>6, <1>7, <1>8, RangeOfBoth
<1>11. <<x>> \o <<y>> \in Seq(Step)
  BY <1>8, ConcatProperties
<1> QED
  BY <1>0, <1>2, <1>9, <1>10, <1>11, <1>h, SeedingEnd DEF Ending

(* The default market is set, and the boot has nothing left to do.         *)
LEMMA SeedingSets ==
  ASSUME IInv, NEW p \in Pid, Seeding(p), SetMarket("boot"), ~ Threw("boot")
  PROVE  Keeping(p)'
<1>h. PICK s : s = Head(work["boot"])
  OBVIOUS
<1>0. /\ work["boot"] # <<>> /\ work["boot"] \in Seq(Step) /\ s.op = "setMarket"
      /\ Ends(work["boot"], p, OfProfile(p))
  BY <1>h DEF SetMarket, Running, IInv, Programs, Actor, Seeding
<1>1. Tail(work["boot"]) = <<>> /\ Range(work["boot"]) = {s} /\ Final(s, p, OfProfile(p))
  BY <1>h, <1>0, EndsRest DEF Ending
<1>2. s.profile = p /\ s.market \in OfProfile(p)
  BY <1>0, <1>1 DEF Final, SeedOf
<1>3. settings.profile = p /\ HasIdentity(p)
  BY <1>0, <1>1 DEF Seeding, SetOf
<1>4. /\ p \in DOMAIN profiles /\ Replace("boot", <<>>)
      /\ settings' = [settings EXCEPT !.market[p] = s.market]
      /\ UNCHANGED <<profiles, identities, markets>>
  BY <1>h, <1>2 DEF SetMarket, Finds, Done
<1>5. settings'.profile = p /\ settings'.market[p] = s.market
  <2>1. settings \in [profile : Pid \cup {None}, market : [Pid -> Mid \cup {None}]]
    BY DEF IInv, TypeOK
  <2> QED
    BY <1>3, <1>4, <2>1
<1>6. work'["boot"] = <<>> /\ \A c \in Clients : work'[c] = <<>>
  <2>1. <<>> \o <<>> = <<>>
    OBVIOUS
  <2> QED
    BY <1>1, <1>4, <2>1, MarketsAssumption DEF Replace, IInv, Programs, Actor, Seeding, ClientsIdle
<1>7. ~ Removing(s.market)' /\ ~ Misled(p)' /\ Range(work'["boot"]) = {}
  BY <1>6 DEF Removing, Misled, Actor, Range
<1>8. Seeded'
  BY <1>2, <1>3, <1>4, <1>5, <1>7 DEF Seeded, HasIdentity, OfProfile
<1> QED
  BY <1>5, <1>7, <1>8 DEF Keeping

(* A node that has its default market has set it.                          *)
LEMMA SeededIsSet ==
  ASSUME IInv, Seeded
  PROVE  ~ NoneSet
<1>1. settings.profile \in Pid /\ settings.market[settings.profile] \in DOMAIN markets
  BY DataHolds DEF Seeded, OfProfile
<1>2. NoneSet => None \in DOMAIN markets
  BY <1>1 DEF NoneSet
<1>3. DOMAIN markets \subseteq 1 .. last.market /\ last.market \in Nat
  BY MarketsAssumption DEF IInv, TypeOK
<1> QED
  BY <1>2, <1>3 DEF None

(* The boot goes on making the default profile and market, and what others *)
(* do meanwhile does not matter, until it has made them.                   *)
LEMMA SeedingKept ==
  ASSUME IInv, SInv, Next, boot = "booting", boot' = "booting", owed', NEW p \in Pid, Seeding(p)
  PROVE  Seeding(p)' \/ Keeping(p)'
<1>0. /\ ~ Threw("boot") /\ "boot" \in Actor /\ \A a \in Actor \ {"boot"} : work[a] = <<>>
      /\ ~ Overriding
  BY NotOverridden DEF Threw, Actor, Seeding, ClientsIdle
<1>1. CASE Proceed("boot")
  <2>1. CASE Head(work["boot"]).op \notin Ending
    BY <1>0, <1>1, <2>1, SeedingQuietly
  <2>2. CASE Head(work["boot"]).op \in Ending
    <3>1. SeedMarket("boot") \/ InsertMarket("boot") \/ SetMarket("boot")
      BY <1>1, <2>2 DEF Proceed, AddProfile, SetProfile, RenameMarket, LoadWallets, OpenWallet,
           CreateWallet, extKeyGenesisImport, extKeyImport, DeriveAccount, InsertIdentity,
           LookForUnjoined, JoinMarket, DestroyMarket, Running, Ending
    <3> QED
      BY <1>0, <3>1, SeedingSeeds, SeedingInserts, SeedingSets
  <2> QED
    BY <2>1, <2>2
<1>2. ASSUME NEW a \in Actor \ {"boot"}, Proceed(a) \/ Fault(a) PROVE FALSE
  <2>1. ~ Fault(a)
    BY <1>0, <1>2 DEF Fault, Running
  <2>2. work[a] # <<>>
    BY <1>2, <2>1, CalmProceed
  <2> QED
    BY <1>0, <2>2
<1>3. ~ Fault("boot")
  BY <1>0 DEF Fault
<1>4. ASSUME NEW c \in Clients, Commands(c) PROVE FALSE
  <2>1. Seeded
    <3>1. \E t : Commanding(c, t)
      BY <1>4, CommandPrograms
    <3> QED
      BY <3>1 DEF Commanding
  <2> QED
    BY <2>1, SeededIsSet DEF Seeding
<1>5. CASE \/ \E n \in MarketName, address \in Address : ReceiveMarketAdd(n, address)
           \/ \E m \in DOMAIN markets : ExpireMarket(m)
  <2>1. UNCHANGED <<work, settings, identities>>
    BY <1>5 DEF ReceiveMarketAdd, ExpireMarket
  <2>2. OfProfile(p) \subseteq OfProfile(p)'
    BY <1>0, MarketsOfIdle DEF Seeding
  <2>3. Ends(work'["boot"], p, OfProfile(p)')
    BY <2>1, <2>2, EndsMono DEF Seeding
  <2> QED
    BY <2>1, <2>3 DEF Seeding, ClientsIdle, NoneSet, HasIdentity
<1>6. /\ ~ BeginBoot /\ ~ FinishBoot /\ ~ Crash
      /\ \A c \in Clients, q \in DOMAIN profiles : ~ ProfileDefault(c, q) /\ ~ ProfileRemove(c, q)
  BY DEF BeginBoot, FinishBoot, Crash, ProfileDefault, ProfileRemove
<1> QED
  BY <1>0, <1>1, <1>2, <1>3, <1>4, <1>5, <1>6 DEF Next, Commands, Overriding

(* What bootstrap() begins with, when the default profile is known.        *)
LEMMA RangeOfPrograms ==
  ASSUME NEW p \in Pid
  PROVE  /\ Rest(p) \in Seq(Step) /\ Range(Rest(p)) = {LoadAll(p), SeedOf(p)}
         /\ \A mine : Ends(Rest(p), p, mine)
         /\ \A name \in ProfileName : LET w == ProfileWallet(name) IN
              /\ ProfileIdentity(p, name) \in Seq(Step)
              /\ Range(ProfileIdentity(p, name)) =
                   {[op |-> "wallet", wallet |-> w, profile |-> p], Insert(w, p, MasterPath)}
<1> DEFINE x == LoadAll(p)
           y == SeedOf(p)
<1>1. x \in Step /\ y \in Step /\ x.op \notin Ending
  BY StepKinds DEF LoadAll, SeedOf, Ending
<1>2. Rest(p) = <<x, y>>
  BY DEF Rest, LoadAll, SeedOf
<1>3. \A mine : Final(y, p, mine)
  BY DEF Final
<1> HIDE DEF x, y
<1>4. <<x, y>> \in Seq(Step) /\ Range(<<x, y>>) = {x, y}
  <2>1. <<x, y>>[1] = x /\ <<x, y>>[2] = y /\ DOMAIN <<x, y>> = {1, 2}
    OBVIOUS
  <2> QED
    BY <1>1, <2>1 DEF Range
<1>5. ASSUME NEW mine PROVE Ends(<<x, y>>, p, mine)
  BY <1>1, <1>3 DEF Ends
<1>6. ASSUME NEW name \in ProfileName
      PROVE  LET w == ProfileWallet(name) IN
             /\ ProfileIdentity(p, name) \in Seq(Step)
             /\ Range(ProfileIdentity(p, name)) =
                  {[op |-> "wallet", wallet |-> w, profile |-> p], Insert(w, p, MasterPath)}
  <2> DEFINE w == ProfileWallet(name)
             a == [op |-> "wallet", wallet |-> w, profile |-> p]
             b == Insert(w, p, MasterPath)
  <2>1. ProfileIdentity(p, name) = <<a, b>> /\ ProfileIdentity(p, name) \in Seq(Step)
    BY CalmPrograms, CalmSequences DEF ProfileIdentity
  <2> HIDE DEF a, b
  <2>2. Range(<<a, b>>) = {a, b}
    <3>1. <<a, b>>[1] = a /\ <<a, b>>[2] = b /\ DOMAIN <<a, b>> = {1, 2}
      OBVIOUS
    <3> QED
      BY <3>1 DEF Range
  <2> QED
    BY <2>1, <2>2 DEF a, b
<1> QED
  BY <1>2, <1>4, <1>5, <1>6 DEF x, y

(* A boot that begins with steps before those does what they say.          *)
LEMMA SeedingStarts ==
  ASSUME IInv, NEW p \in Pid, NEW t \in Seq(Step), Start("boot", t \o Rest(p)),
         ClientsIdle, NoneSet, UNCHANGED <<settings, identities>>,
         settings.profile = p \/ SetOf(p) \in Range(t),
         \A x \in Range(t) : x.op \notin Ending /\ (x.op = "setProfile" => x.profile = p),
         HasIdentity(p) \/ \E x \in Range(t) :
           x.op = "identity" /\ x.profile = p /\ x.path = MasterPath
  PROVE  Seeding(p)' /\ Loads(p)'
<1>1. /\ Rest(p) \in Seq(Step) /\ Range(Rest(p)) = {LoadAll(p), SeedOf(p)}
      /\ Ends(Rest(p), p, OfProfile(p)')
  BY RangeOfPrograms
<1>2. Range(t \o Rest(p)) = Range(t) \cup {LoadAll(p), SeedOf(p)}
  BY <1>1, RangeOfBoth
<1>3. Ends(t \o Rest(p), p, OfProfile(p)')
  BY <1>1, EndsAfter
<1>4. work'["boot"] = t \o Rest(p) /\ \A c \in Clients : work'[c] = work[c]
  BY MarketsAssumption DEF Start, IInv, Programs, Actor
<1>5. ClientsIdle' /\ NoneSet'
  BY <1>4 DEF ClientsIdle, NoneSet
<1>6. \A x \in Range(work'["boot"]) : x.op = "setProfile" => x.profile = p
  BY <1>2, <1>4 DEF LoadAll, SeedOf
<1>7. HasIdentity(p) => HasIdentity(p)'
  BY DEF HasIdentity
<1> QED
  BY <1>2, <1>3, <1>4, <1>5, <1>6, <1>7 DEF Seeding, Loads

(* A boot that is owed has begun with what it needs.                       *)
LEMMA OwedBegins ==
  ASSUME IInv, SInv, OneClient, Owing, BeginBoot, boot' = "booting", owed'
  PROVE  \E p \in Pid : Loads(p)' /\ (Seeding(p)' \/ Keeping(p)')
<1>h. PICK q : q = settings.profile
  OBVIOUS
<1> DEFINE first == Min(DOMAIN profiles \cup {last.profile + 1})
<1>0. /\ boot = "polling" /\ UNCHANGED <<database, core, mishaps>> /\ (owed \/ Seeded)
      /\ \/ IsUpgrading /\ Start("boot", Upgrade(q) \o Rest(q))
         \/ /\ ~ IsUpgrading /\ q = None /\ first <= MaxProfiles
            /\ Start("boot", SeedProfile(first) \o Rest(first))
         \/ ~ IsUpgrading /\ q \in DOMAIN profiles /\ Start("boot", Rest(q))
  BY <1>h DEF BeginBoot
<1>1. None \notin DOMAIN profiles /\ (q \in DOMAIN profiles => q \in Pid /\ profiles[q] \in ProfileName)
  BY DataHolds
<1>2. CASE Seeded
  <2>1. q \in DOMAIN profiles /\ HasIdentity(q) /\ Start("boot", Rest(q))
    BY <1>h, <1>0, <1>1, <1>2 DEF Seeded, IsUpgrading
  <2>2. q \in Pid /\ work["boot"] = <<>>
    BY <1>1, <2>1 DEF Start, Idle
  <2>3. Range(Rest(q)) = {LoadAll(q), SeedOf(q)}
    BY <2>2, RangeOfPrograms
  <2>4. work'["boot"] = Rest(q)
    BY <2>1 DEF Start, IInv, Programs, Actor
  <2>5. Seeded'
    <3>1. SetsNone
      BY <2>2 DEF SetsNone
    <3>2. ~ Overriding
      BY <1>0, NotOverridden
    <3> QED
      BY <1>0, <1>2, <3>1, <3>2, SeededStays DEF Next, database
  <2>6. Keeping(q)'
    BY <1>h, <1>0, <2>3, <2>4, <2>5 DEF Keeping, database
  <2>7. Loads(q)'
    BY <2>3, <2>4 DEF Loads
  <2> QED
    BY <2>2, <2>6, <2>7
<1>3. CASE ~ Seeded
  <2>1. ClientsIdle /\ NoneSet /\ (q = None \/ IsUpgrading) /\ UNCHANGED <<settings, identities>>
    BY <1>h, <1>0, <1>3 DEF Owing, Fresh, database
  <2>2. CASE IsUpgrading
    <3> DEFINE w == ProfileWallet(profiles[q])
               a == [op |-> "wallet", wallet |-> w, profile |-> q]
               b == Insert(w, q, MasterPath)
               r == [op |-> "rename", profile |-> q]
               s == ProfileIdentity(q, profiles[q])
    <3>1. q \in Pid /\ profiles[q] \in ProfileName /\ Start("boot", Upgrade(q) \o Rest(q)) /\ q # None
      BY <1>h, <1>0, <1>1, <2>2 DEF IsUpgrading
    <3>2. s \in Seq(Step) /\ Range(s) = {a, b} /\ r \in Step
      BY <3>1, RangeOfPrograms, StepKinds
    <3>3. /\ a.op \notin Ending /\ a.op # "setProfile" /\ r.op \notin Ending /\ r.op # "setProfile"
          /\ b.op = "identity" /\ b.profile = q /\ b.path = MasterPath
      BY DEF Ending, Insert
    <3>4. Upgrade(q) = Append(s, r)
      BY DEF Upgrade
    <3> HIDE DEF a, b, r, s
    <3>5. Append(s, r) = s \o <<r>> /\ <<r>> \in Seq(Step) /\ Range(<<r>>) = {r}
      <4>1. Range(<<r>>) = {r}
        BY DEF Range
      <4> QED
        BY <3>2, <4>1, AppendIsConcat
    <3>6. Range(s \o <<r>>) = {a, b, r} /\ s \o <<r>> \in Seq(Step)
      <4>1. Range(s \o <<r>>) = Range(s) \cup {r}
        BY <3>2, <3>5, RangeOfBoth
      <4>2. s \o <<r>> \in Seq(Step)
        BY <3>2, <3>5, ConcatProperties
      <4> QED
        BY <3>2, <4>1, <4>2
    <3>7. /\ \A x \in {a, b, r} : x.op \notin Ending /\ x.op # "setProfile"
          /\ \E x \in {a, b, r} : x.op = "identity" /\ x.profile = q /\ x.path = MasterPath
      BY <3>3 DEF Ending
    <3>8. Seeding(q)' /\ Loads(q)'
      <4>1. PICK t \in Seq(Step) : t = s \o <<r>> /\ Range(t) = {a, b, r} /\ Start("boot", t \o Rest(q))
        BY <3>1, <3>4, <3>5, <3>6
      <4> QED
        BY <1>h, <2>1, <3>1, <3>7, <4>1, SeedingStarts
    <3> QED
      BY <3>1, <3>8
  <2>3. CASE ~ IsUpgrading
    <3>1. q = None /\ first <= MaxProfiles /\ Start("boot", SeedProfile(first) \o Rest(first))
      BY <1>0, <1>1, <2>1, <2>3
    <3>4. PICK p \in Pid : p = first /\ (p \in DOMAIN profiles => profiles[p] \in ProfileName)
      BY <3>1, FirstProfile
    <3>5. "DEFAULT" \in ProfileName
      BY MarketsAssumption
    <3> DEFINE add == [op |-> "addProfile", profile |-> p, name |-> "DEFAULT"]
               made == ProfileIdentity(p, "DEFAULT")
               s == IF HasIdentity(p) THEN <<>> ELSE ProfileIdentity(p, profiles[p])
               h == IF p \notin DOMAIN profiles THEN <<add>> \o made ELSE s
               set == SetOf(p)
               Good(u) == \A x \in Range(u) : x.op \notin Ending /\ x.op # "setProfile"
               Makes(u) == \E x \in Range(u) :
                             x.op = "identity" /\ x.profile = p /\ x.path = MasterPath
    <3>6. add \in Step /\ set \in Step /\ add.op \notin Ending /\ add.op # "setProfile"
          /\ set.op \notin Ending /\ set.profile = p
      BY <3>4, <3>5, StepKinds DEF SetOf, Ending
    <3>7. ASSUME NEW name \in ProfileName
          PROVE  /\ ProfileIdentity(p, name) \in Seq(Step)
                 /\ Good(ProfileIdentity(p, name)) /\ Makes(ProfileIdentity(p, name))
      <4> DEFINE a == [op |-> "wallet", wallet |-> ProfileWallet(name), profile |-> p]
                 b == Insert(ProfileWallet(name), p, MasterPath)
                 u == ProfileIdentity(p, name)
      <4>1. u \in Seq(Step) /\ Range(u) = {a, b}
        BY RangeOfPrograms
      <4>2. /\ a.op \notin Ending /\ a.op # "setProfile" /\ b.op \notin Ending /\ b.op # "setProfile"
            /\ b.op = "identity" /\ b.profile = p /\ b.path = MasterPath
        BY DEF Insert, Ending
      <4> HIDE DEF a, b, u
      <4> QED
        BY <4>1, <4>2 DEF u
    <3>8. SeedProfile(p) = h \o <<set>>
      BY DEF SeedProfile, SetOf
    <3>9. <<>> \in Seq(Step) /\ Good(<<>>)
      BY DEF Range
    <3> HIDE DEF add, set
    <3>10. <<add>> \in Seq(Step) /\ Range(<<add>>) = {add} /\ <<set>> \in Seq(Step) /\ Range(<<set>>) = {set}
      <4>1. Range(<<add>>) = {add} /\ Range(<<set>>) = {set}
        BY RangeOfOne
      <4> QED
        BY <3>6, <4>1
    <3>11. h \in Seq(Step) /\ Good(h) /\ (HasIdentity(p) \/ Makes(h))
      <4>1. CASE p \notin DOMAIN profiles
        <5>1. made \in Seq(Step) /\ Good(made) /\ Makes(made)
          BY <3>5, <3>7
        <5> HIDE DEF made
        <5>2. <<add>> \o made \in Seq(Step) /\ Range(<<add>> \o made) = {add} \cup Range(made)
          BY <3>10, <5>1, RangeOfBoth, ConcatProperties
        <5> QED
          BY <3>6, <4>1, <5>1, <5>2
      <4>2. CASE p \in DOMAIN profiles
        BY <3>4, <3>7, <3>9, <4>2
      <4> QED
        BY <4>1, <4>2
    <3> HIDE DEF h
    <3>12. h \o <<set>> \in Seq(Step) /\ Range(h \o <<set>>) = Range(h) \cup {set}
      BY <3>10, <3>11, RangeOfBoth, ConcatProperties
    <3>13. Seeding(p)' /\ Loads(p)'
      <4>1. PICK t \in Seq(Step) : /\ t = h \o <<set>> /\ Range(t) = Range(h) \cup {set}
                                   /\ Start("boot", t \o Rest(p))
        BY <3>1, <3>4, <3>8, <3>12
      <4>2. /\ SetOf(p) \in Range(t)
            /\ \A x \in Range(t) : x.op \notin Ending /\ (x.op = "setProfile" => x.profile = p)
            /\ HasIdentity(p) \/ Makes(t)
        BY <3>6, <3>11, <4>1 DEF set
      <4> QED
        BY <2>1, <4>1, <4>2, SeedingStarts
    <3> QED
      BY <3>13
  <2> QED
    BY <2>2, <2>3
<1> QED
  BY <1>2, <1>3

(* A boot that nothing may keep from succeeding had been one before.       *)
LEMMA OwedBefore ==
  ASSUME IInv, Next, boot = "booting", boot' = "booting", owed'
  PROVE  owed /\ \A c \in Clients : Commands(c) => Seeded
<1>1. ASSUME NEW c \in Clients, Commands(c) PROVE owed /\ Seeded
  <2>1. \E t : Commanding(c, t)
    BY <1>1, CommandPrograms
  <2> QED
    BY <2>1 DEF Commanding
<1> QED
  BY <1>1 DEF Next, Commands, BeginBoot, FinishBoot, Crash, Proceed, Fault, ProfileDefault,
       ProfileRemove, ReceiveMarketAdd, ExpireMarket, SettingSet, SettingRemove, VotedOut

(* Owing is inductive: as long as the boot is owed, it has to do all that  *)
(* is missing.                                                             *)
LEMMA OwingKept ==
  ASSUME IInv, SInv, OneClient, Owing, [Next]_vars
  PROVE  Owing'
<1>1. CASE UNCHANGED vars
  BY <1>1 DEF vars, database, core, Owing, Fresh, Loads, Seeding, Keeping, ClientsIdle, NoneSet,
       IsUpgrading, HasIdentity, OfProfile, Seeded, Removing, Misled
<1>2. CASE Next /\ boot = "booting" /\ boot' = "booting"
  <2>1. owed' => owed
    BY <1>2, OwedBefore
  <2>2. ASSUME owed' PROVE \E p \in Pid : Loads(p)' /\ (Seeding(p)' \/ Keeping(p)')
    <3>1. PICK p \in Pid : Loads(p) /\ (Seeding(p) \/ Keeping(p))
      BY <1>2, <2>1, <2>2 DEF Owing
    <3>2. ~ Overriding
      BY <1>2, <2>2, NotOverridden
    <3> QED
      BY <1>2, <2>2, <3>1, <3>2, LoadsKept, SeedingKept, KeepingKept
  <2> QED
    BY <1>2, <2>2 DEF Owing
<1>3. CASE BeginBoot
  <2>1. boot' \in {"booting", "failed"}
    BY <1>3 DEF BeginBoot
  <2> QED
    BY <1>3, <2>1, OwedBegins DEF Owing
<1>4. CASE FinishBoot \/ Crash
  <2>1. ASSUME Crash, boot = "polling", owed PROVE Fresh'
    <3>1. UNCHANGED <<settings, profiles, identities, wallets>> /\ work' = [a \in Actor |-> <<>>]
      BY <2>1 DEF Crash, database
    <3> QED
      BY <2>1, <3>1 DEF Owing, Fresh, ClientsIdle, NoneSet, IsUpgrading, HasIdentity, Actor
  <2> QED
    BY <1>4, <2>1 DEF FinishBoot, Crash, Owing
<1>5. CASE \E a \in Actor : Proceed(a) \/ Fault(a)
  <2>1. PICK a \in Actor : Proceed(a) \/ Fault(a)
    BY <1>5
  <2>2. (boot' = boot \/ boot' = "failed") /\ (owed' => owed)
    <3>1. CASE Fault(a)
      BY <3>1 DEF Fault, Threw
    <3>2. CASE Proceed(a)
      <4>1. ASSUME InsertMarket(a) PROVE Threw(a) \/ \E t \in Seq(Step) : Replace(a, t)
        BY <4>1, InsertedMarket
      <4>2. Threw(a) \/ \E t : Replace(a, t)
        BY <3>2, <4>1, CalmProceed
      <4> QED
        BY <3>2, <4>2 DEF Proceed, Threw, Replace
    <3> QED
      BY <2>1, <3>1, <3>2
  <2>3. ASSUME boot = "polling", owed PROVE FALSE
    <3>1. work[a] # <<>>
      BY <2>1, CalmProceed DEF Fault, Running
    <3>2. work["boot"] = <<>>
      BY <2>3 DEF IInv, Booting
    <3> QED
      BY <2>3, <3>1, <3>2 DEF Owing, Fresh, ClientsIdle, Actor
  <2> QED
    BY <1>2, <1>5, <2>2, <2>3 DEF Owing, Next
<1>6. ASSUME NEW c \in Clients, Commands(c) PROVE Owing'
  <2>1. PICK t : Commanding(c, t)
    BY <1>6, CommandPrograms
  <2>2. boot' = boot /\ (owed' => owed /\ Seeded)
    BY <2>1 DEF Commanding
  <2>3. ASSUME boot = "polling", owed, Seeded PROVE FALSE
    BY <2>3, SeededIsSet DEF Owing, Fresh
  <2>4. boot = "booting" => Owing'
    BY <1>2, <1>6, <2>2 DEF Next, Commands
  <2> QED
    BY <2>2, <2>3, <2>4 DEF Owing
<1>7. CASE \/ \E c \in Clients, p \in DOMAIN profiles : ProfileDefault(c, p) \/ ProfileRemove(c, p)
           \/ \E n \in MarketName, address \in Address : ReceiveMarketAdd(n, address)
           \/ \E m \in DOMAIN markets : ExpireMarket(m)
  <2>1. UNCHANGED <<boot, owed, work, wallets>>
    BY <1>7 DEF ProfileDefault, ProfileRemove, ReceiveMarketAdd, ExpireMarket, core
  <2>2. boot # "started" => UNCHANGED <<profiles, settings, identities>>
    BY <1>7 DEF ProfileDefault, ProfileRemove, ReceiveMarketAdd, ExpireMarket
  <2>3. boot = "polling" /\ owed => Fresh'
    BY <2>1, <2>2 DEF Owing, Fresh, ClientsIdle, NoneSet, IsUpgrading, HasIdentity
  <2>4. boot = "booting" => Owing'
    BY <1>2, <1>7, <2>1 DEF Next
  <2> QED
    BY <2>1, <2>3, <2>4 DEF Owing
<1>8. CASE Overriding
  <2>1. boot' = boot /\ (owed' => owed)
    BY <1>8 DEF Overriding, SettingSet, SettingRemove, VotedOut
  <2>2. CASE boot = "started"
    BY <2>1, <2>2 DEF Owing
  <2>3. CASE boot # "started"
    <3>1. ~ owed'
      BY <1>8, <2>3, NotOverridden
    <3> QED
      BY <3>1 DEF Owing
  <2> QED
    BY <2>2, <2>3
<1> QED
  BY <1>1, <1>3, <1>4, <1>5, <1>6, <1>7, <1>8 DEF Next, Commands, Overriding

-----------------------------------------------------------------------------
(* While nothing has gone wrong, every market that a profile has joined is *)
(* listened to, or someone is about to; and so is every default market, if *)
(* it is there, and every market that is to be one.                        *)
Heard(m) == m \in DOMAIN markets => markets[m].address \in listening
Joins(a, m) == work[a] # <<>> /\ Head(work[a]) = [op |-> "join", market |-> m]

JoinedHeard ==
  \A m \in DOMAIN markets :
    markets[m].profile # None => Heard(m) \/ \E a \in Actor : Joins(a, m)
ToBeHeard(a) ==
  \A x \in Range(work[a]) : x.op = "setMarket" =>
    x.market <= last.market /\ (Heard(x.market) \/ Joins(a, x.market))
DefaultsHeard ==
  \A p \in Pid : settings.market[p] <= last.market /\ Heard(settings.market[p])

Listened == JoinedHeard /\ (\A a \in Actor : ToBeHeard(a)) /\ DefaultsHeard

Listening ==
  mishaps = 0 /\ (boot = "polling" \/ (boot = "booting" /\ owed)) => Listened

(* The markets that there were are the same after a step, if they are      *)
(* there; one that is new is of nobody, or about to be joined.             *)
SameMarkets ==
  /\ listening \subseteq listening' /\ last.market <= last'.market
  /\ \A m \in DOMAIN markets' : m <= last.market =>
       /\ m \in DOMAIN markets
       /\ markets'[m].address = markets[m].address /\ markets'[m].profile = markets[m].profile

(* Every step leaves the markets so.                                       *)
LEMMA MarketsSame ==
  ASSUME IInv, Next
  PROVE  SameMarkets
<1>0. /\ last \in [profile : 0 .. MaxProfiles, market : 0 .. MaxMarkets] /\ last.market \in Nat
      /\ DOMAIN markets \subseteq 1 .. last.market
      /\ \A m \in DOMAIN markets : markets[m] \in Market
  BY MarketsAssumption DEF IInv, TypeOK
<1>1. ASSUME NEW a \in Actor, RenameMarket(a) PROVE SameMarkets
  <2>1. /\ markets' = markets \/ \E k : markets' = [markets EXCEPT ![k].old = TRUE]
        /\ UNCHANGED <<listening, last>>
    BY <1>1 DEF RenameMarket, core
  <2> QED
    BY <1>0, <2>1 DEF Market, SameMarkets
<1>2. ASSUME NEW a \in Actor, InsertMarket(a) PROVE SameMarkets
  <2>1. \/ UNCHANGED <<markets, last, listening>>
        \/ /\ markets' = [k \in DOMAIN markets \cup {last.market + 1} |->
                            IF k = last.market + 1 THEN Head(work[a]).row ELSE markets[k]]
           /\ last' = [last EXCEPT !.market = last.market + 1] /\ listening' = listening
    BY <1>2 DEF InsertMarket, core
  <2> QED
    BY <1>0, <2>1 DEF SameMarkets
<1>3. ASSUME \/ \E a \in Actor : DestroyMarket(a)
             \/ \E m \in DOMAIN markets : ExpireMarket(m) \/ VotedOut(m)
      PROVE  SameMarkets
  <2>1. UNCHANGED <<listening, last>> /\ (markets' = markets \/ \E m : markets' = Destroyed(m))
    BY <1>3 DEF DestroyMarket, ExpireMarket, VotedOut, core
  <2>2. \A m \in DOMAIN markets' : m \in DOMAIN markets /\ markets'[m] = markets[m]
    BY <2>1 DEF Destroyed
  <2> QED
    BY <1>0, <2>1, <2>2 DEF SameMarkets
<1>4. ASSUME NEW n, NEW address, ReceiveMarketAdd(n, address) PROVE SameMarkets
  <2>1. /\ last'.market = last.market + 1 /\ listening' = listening
        /\ \A m \in DOMAIN markets' :
             m = last'.market \/ (m \in DOMAIN markets /\ markets'[m] = markets[m])
    BY <1>0, <1>4 DEF ReceiveMarketAdd, core
  <2> QED
    BY <1>0, <2>1 DEF SameMarkets
<1>5. ASSUME NEW a \in Actor, JoinMarket(a) PROVE SameMarkets
  BY <1>0, <1>5 DEF JoinMarket, database, SameMarkets
<1>6. ASSUME NEW a \in Actor, AddProfile(a) PROVE SameMarkets
  <2>1. last' = last \/ last' = [last EXCEPT !.profile = Head(work[a]).profile]
    BY <1>6 DEF AddProfile
  <2>2. last'.market = last.market /\ UNCHANGED <<markets, listening>>
    BY <1>0, <1>6, <2>1 DEF AddProfile, core
  <2> QED
    BY <1>0, <2>2 DEF SameMarkets
<1>7. ASSUME NEW a \in Actor, Proceed(a), ~ RenameMarket(a), ~ InsertMarket(a), ~ DestroyMarket(a),
             ~ JoinMarket(a), ~ AddProfile(a)
      PROVE  UNCHANGED <<markets, listening, last>>
  BY <1>7 DEF Proceed, SetProfile, LoadWallets, SeedMarket, OpenWallet,
         CreateWallet, extKeyGenesisImport, extKeyImport, DeriveAccount, InsertIdentity,
         LookForUnjoined, SetMarket, database, core
<1>8. ASSUME NEW c \in Clients, Commands(c) PROVE UNCHANGED <<markets, listening, last>>
  <2>1. \E t : Commanding(c, t)
    BY <1>8, CommandPrograms
  <2> QED
    BY <2>1 DEF Commanding, database, core
<1>9. ASSUME \/ BeginBoot \/ FinishBoot \/ Crash \/ \E a \in Actor : Fault(a)
             \/ \E c \in Clients, p \in DOMAIN profiles :
                  ProfileDefault(c, p) \/ ProfileRemove(c, p) \/ SettingSet(c, p)
             \/ SettingRemove
      PROVE  UNCHANGED <<markets, listening, last>>
  BY <1>9 DEF BeginBoot, FinishBoot, Crash, Fault, ProfileDefault, ProfileRemove, SettingSet,
       SettingRemove, database, core
<1>10. UNCHANGED <<markets, listening, last>> => SameMarkets
  BY <1>0 DEF SameMarkets
<1> QED
  BY <1>1, <1>2, <1>3, <1>4, <1>5, <1>6, <1>7, <1>8, <1>9, <1>10 DEF Next, Commands

(* What is listened to stays so.                                           *)
LEMMA HeardKept ==
  ASSUME IInv, Next
  PROVE  \A m \in Nat : m <= last.market /\ Heard(m) => m <= last'.market /\ Heard(m)'
<1>1. last.market \in Nat /\ last'.market \in Nat
  BY Preserved, MarketsAssumption DEF IInv, TypeOK
<1>2. SameMarkets
  BY MarketsSame
<1> QED
  BY <1>1, <1>2 DEF SameMarkets, Heard

(* What a step of the node leaves an actor to do.                          *)
LEMMA WorkOfStep ==
  ASSUME IInv, Next, mishaps' = mishaps, NEW a \in Actor
  PROVE  \/ work'[a] = work[a] \/ Proceed(a)
         \/ work[a] = <<>> /\ a = "boot" /\ work'[a] \in Seq(BootStep)
         \/ work[a] = <<>> /\ a \in Clients /\ Commands(a)
<1>0. work \in [Actor -> Seq(Step)] /\ mishaps \in Nat /\ "boot" \in Actor /\ Clients \subseteq Actor
  BY MarketsAssumption DEF IInv, Programs, TypeOK, Actor
<1>1. ASSUME NEW b \in Actor \ {a}, Proceed(b) PROVE work'[a] = work[a]
  <2>1. ASSUME InsertMarket(b) PROVE Threw(b) \/ \E t \in Seq(Step) : Replace(b, t)
    BY <2>1, InsertedMarket
  <2>2. Threw(b) \/ \E t : Replace(b, t)
    BY <1>1, <2>1, CalmProceed
  <2> QED
    BY <1>0, <2>2 DEF Threw, Replace
<1>2. ~ Crash /\ ~ Overriding /\ \A b \in Actor : ~ Fault(b)
  BY NoMishap
<1>3. ASSUME NEW c \in Clients, Commands(c)
      PROVE  work'[a] = work[a] \/ (a = c /\ work[a] = <<>>)
  <2>1. \E t : Commanding(c, t)
    BY <1>3, CommandPrograms
  <2> QED
    BY <1>0, <2>1 DEF Commanding, Start, Idle
<1>4. CASE BeginBoot
  <2>1. work' = work \/ \E t \in Seq(BootStep) : work' = [work EXCEPT !["boot"] = t]
    BY <1>4, CalmBoot
  <2>2. work["boot"] = <<>>
    BY <1>4 DEF BeginBoot, IInv, Booting
  <2> QED
    BY <1>0, <2>1, <2>2
<1>5. CASE \/ FinishBoot
           \/ \E c \in Clients, p \in DOMAIN profiles : ProfileDefault(c, p) \/ ProfileRemove(c, p)
           \/ \E n \in MarketName, address \in Address : ReceiveMarketAdd(n, address)
           \/ \E m \in DOMAIN markets : ExpireMarket(m)
  BY <1>5 DEF FinishBoot, ProfileDefault, ProfileRemove, ReceiveMarketAdd, ExpireMarket
<1> QED
  BY <1>1, <1>2, <1>3, <1>4, <1>5 DEF Next, Commands, Overriding

(* A join that was at hand is still, or has been made.                     *)
LEMMA JoinMade ==
  ASSUME IInv, Next, mishaps' = mishaps, NEW a \in Actor, NEW m, Joins(a, m)
  PROVE  Joins(a, m)' \/ Heard(m)'
<1>1. CASE work'[a] = work[a]
  BY <1>1 DEF Joins
<1>2. CASE Proceed(a)
  <2>1. Head(work[a]).op = "join" /\ Head(work[a]).market = m
    BY DEF Joins
  <2>2. JoinMarket(a)
    BY <1>2, <2>1 DEF Proceed, AddProfile, SetProfile, RenameMarket, LoadWallets, SeedMarket, OpenWallet,
         CreateWallet, extKeyGenesisImport, extKeyImport, DeriveAccount, InsertIdentity,
         LookForUnjoined, InsertMarket, SetMarket, DestroyMarket, Running
  <2>3. markets' = markets /\ (m \in DOMAIN markets => markets[m].address \in listening')
    BY <2>1, <2>2 DEF JoinMarket, database
  <2> QED
    BY <2>3 DEF Heard
<1> QED
  BY <1>1, <1>2, WorkOfStep DEF Joins

(* A market that is inserted for a profile is joined next.                 *)
LEMMA InsertedJoins ==
  ASSUME IInv, NEW a \in Actor, InsertMarket(a), NEW m, m = last.market + 1, last'.market = m
  PROVE  /\ (markets'[m].profile # None => Joins(a, m)')
         /\ \A x \in Range(work'[a]) : x.op = "setMarket" =>
              x \in Range(work[a]) \/ (x.market = m /\ Joins(a, m)')
<1>h. PICK s : s = Head(work[a])
  OBVIOUS
<1> DEFINE p == s.row.profile
           x == [op |-> "join", market |-> m]
           y == [op |-> "setMarket", profile |-> p, market |-> m]
           j == IF p = None THEN <<>> ELSE <<x>>
           e == IF s.seeds THEN <<y>> ELSE <<>>
           r == Tail(work[a])
<1>0. /\ work[a] # <<>> /\ work[a] \in Seq(Step) /\ s.op = "market" /\ last.market < MaxMarkets
      /\ Replace(a, j \o e) /\ last.market \in 0 .. MaxMarkets
      /\ markets' = [k \in DOMAIN markets \cup {m} |-> IF k = m THEN s.row ELSE markets[k]]
  <2>1. last.market \in 0 .. MaxMarkets /\ last' # last
    BY MarketsAssumption DEF IInv, TypeOK
  <2> QED
    BY <1>h, <2>1 DEF InsertMarket, Running, IInv, Programs
<1>1. s \in Step
  BY <1>0, <1>h, FirstStep
<1>2. s.row \in Market /\ (s.seeds => p # None) /\ p \in Pid \cup {None} /\ s.seeds \in BOOLEAN
  BY <1>0, <1>1, StepFields DEF Market
<1>3. m \in Mid /\ markets'[m].profile = p
  BY <1>0, MarketsAssumption DEF Mid
<1>4. x \in Step /\ (p # None => y \in Step)
  BY <1>2, <1>3, StepKinds
<1>5. work'[a] = (j \o e) \o r /\ r \in Seq(Step) /\ Range(r) \subseteq Range(work[a])
  <2>1. r \in Seq(Step) /\ Range(work[a]) = {Head(work[a])} \cup Range(r)
    BY <1>0, RangeOfRest
  <2> QED
    BY <1>0, <2>1 DEF Replace, IInv, Programs
<1>6. x.op = "join" /\ y.op = "setMarket" /\ y.market = m /\ x = [op |-> "join", market |-> m]
  OBVIOUS
<1> HIDE DEF x, y, r
<1>7. /\ j \in Seq(Step) /\ e \in Seq(Step) /\ Range(j) \subseteq {x}
      /\ Range(e) \subseteq {y} /\ (Range(e) # {} => p # None)
  <2>1. Range(<<>>) = {}
    BY DEF Range
  <2>2. <<x>> \in Seq(Step) /\ Range(<<x>>) = {x} /\ <<>> \in Seq(Step)
    BY <1>4, RangeOfOne
  <2>3. p # None => <<y>> \in Seq(Step) /\ Range(<<y>>) = {y}
    BY <1>4, RangeOfOne
  <2>4. (j = <<>> \/ j = <<x>>) /\ (e = <<>> \/ (e = <<y>> /\ p # None))
    BY <1>2
  <2> HIDE DEF j, e
  <2> QED
    BY <2>1, <2>2, <2>3, <2>4
<1>8. p # None => work'[a] # <<>> /\ Head(work'[a]) = x
  <2>1. ASSUME p # None, NEW b \in Seq(Step)
        PROVE  (<<x>> \o b) # <<>> /\ Head(<<x>> \o b) = x
    BY <1>4, <2>1
  <2>2. p # None => j = <<x>>
    OBVIOUS
  <2> HIDE DEF j, e
  <2>3. (j \o e) \o r = j \o (e \o r) /\ e \o r \in Seq(Step)
    BY <1>5, <1>7, ConcatAssociative, ConcatProperties
  <2> QED
    BY <1>5, <2>1, <2>2, <2>3
<1> HIDE DEF j, e
<1>9. Range(work'[a]) = Range(j) \cup Range(e) \cup Range(r)
  <2>1. j \o e \in Seq(Step) /\ Range(j \o e) = Range(j) \cup Range(e)
    BY <1>7, RangeOfBoth, ConcatProperties
  <2> QED
    BY <1>5, <2>1, RangeOfBoth
<1>10. p # None => Joins(a, m)'
  BY <1>6, <1>8 DEF Joins
<1> QED
  BY <1>3, <1>5, <1>6, <1>7, <1>9, <1>10, <1>h

(* A market that is new is of nobody, or about to be joined.               *)
LEMMA NewJoins ==
  ASSUME IInv, Next, NEW m \in DOMAIN markets', ~ (m <= last.market), markets'[m].profile # None
  PROVE  \E a \in Actor : Joins(a, m)'
<1>0. /\ last \in [profile : 0 .. MaxProfiles, market : 0 .. MaxMarkets] /\ last.market \in Nat
      /\ DOMAIN markets \subseteq 1 .. last.market
  BY MarketsAssumption DEF IInv, TypeOK
<1>1. m \notin DOMAIN markets
  BY <1>0
<1>2. ASSUME NEW a \in Actor, InsertMarket(a) PROVE Joins(a, m)'
  <2>0. markets' # markets
    BY <1>1
  <2>1. /\ DOMAIN markets' = DOMAIN markets \cup {last.market + 1}
        /\ last' = [last EXCEPT !.market = last.market + 1]
    BY <1>2, <2>0 DEF InsertMarket
  <2>2. last.market + 1 = m /\ last'.market = m
    BY <1>0, <1>1, <2>1
  <2> QED
    BY <1>2, <2>2, InsertedJoins
<1>3. ASSUME NEW a \in Actor, Proceed(a), ~ InsertMarket(a) PROVE FALSE
  <2>1. DOMAIN markets' \subseteq DOMAIN markets
    BY <1>3 DEF Proceed, AddProfile, SetProfile, RenameMarket, LoadWallets, SeedMarket, OpenWallet,
         CreateWallet, extKeyGenesisImport, extKeyImport, DeriveAccount, InsertIdentity,
         LookForUnjoined, JoinMarket, SetMarket, DestroyMarket, database, Destroyed
  <2> QED
    BY <1>1, <2>1
<1>4. ASSUME NEW n, NEW address, ReceiveMarketAdd(n, address) PROVE FALSE
  <2>1. m = last'.market /\ markets'[m].profile = None
    BY <1>0, <1>1, <1>4 DEF ReceiveMarketAdd
  <2> QED
    BY <2>1
<1>5. ASSUME NEW c \in Clients, Commands(c) PROVE FALSE
  <2>1. \E t : Commanding(c, t)
    BY <1>5, CommandPrograms
  <2> QED
    BY <1>1, <2>1 DEF Commanding, database
<1>6. ASSUME NEW k \in DOMAIN markets, ExpireMarket(k) \/ VotedOut(k) PROVE FALSE
  BY <1>1, <1>6 DEF ExpireMarket, VotedOut, Destroyed
<1>7. ~ (BeginBoot \/ FinishBoot \/ Crash \/ SettingRemove \/ (\E a \in Actor : Fault(a))
         \/ \E c \in Clients, p \in DOMAIN profiles :
              ProfileDefault(c, p) \/ ProfileRemove(c, p) \/ SettingSet(c, p))
  BY <1>1 DEF BeginBoot, FinishBoot, Crash, Fault, ProfileDefault, ProfileRemove, SettingSet,
       SettingRemove, database
<1> QED
  BY <1>2, <1>3, <1>4, <1>5, <1>6, <1>7 DEF Next, Commands

(* The joined markets are listened to after a step, or are to be.          *)
LEMMA JoinedKept ==
  ASSUME IInv, Next, mishaps' = mishaps, JoinedHeard
  PROVE  JoinedHeard'
<1> SUFFICES ASSUME NEW m \in DOMAIN markets', markets'[m].profile # None
             PROVE  Heard(m)' \/ \E a \in Actor : Joins(a, m)'
  BY DEF JoinedHeard
<1>1. CASE ~ (m <= last.market)
  BY <1>1, NewJoins
<1>2. CASE m <= last.market
  <2>1. m \in DOMAIN markets /\ markets[m].profile # None /\ m \in Nat
    <3>1. m \in DOMAIN markets /\ markets[m].profile # None
      BY <1>2, MarketsSame DEF SameMarkets
    <3>2. DOMAIN markets \subseteq 1 .. last.market
      BY DEF IInv, TypeOK
    <3> QED
      BY <3>1, <3>2
  <2>2. Heard(m) \/ \E a \in Actor : Joins(a, m)
    BY <2>1 DEF JoinedHeard
  <2> QED
    BY <1>2, <2>1, <2>2, HeardKept, JoinMade
<1> QED
  BY <1>1, <1>2

(* The markets that are to be default ones are, too; a client takes one    *)
(* that is joined while nobody joins any.                                  *)
LEMMA ToBeHeardKept ==
  ASSUME IInv, OneClient, Next, mishaps' = mishaps, JoinedHeard, NEW a \in Actor, ToBeHeard(a),
         (\E c \in Clients : Commands(c)) => \A m : ~ Joins("boot", m)
  PROVE  ToBeHeard(a)'
<1>0. /\ work \in [Actor -> Seq(Step)] /\ work[a] \in Seq(Step) /\ last.market \in Nat
      /\ DOMAIN markets \subseteq 1 .. last.market
  BY MarketsAssumption DEF IInv, Programs, TypeOK
<1> SUFFICES ASSUME NEW x \in Range(work'[a]), x.op = "setMarket"
             PROVE  x.market <= last'.market /\ (Heard(x.market)' \/ Joins(a, x.market)')
  BY DEF ToBeHeard
<1>1. x \in Step /\ x.market \in Nat
  <2>1. work'[a] \in Seq(Step)
    BY Preserved DEF IInv, Programs
  <2>2. x \in Step
    <3>1. \A k \in DOMAIN work'[a] : work'[a][k] \in Step
      BY <2>1, ElementOfSeq, LenProperties
    <3> QED
      BY <3>1 DEF Range
  <2> QED
    BY <2>2, StepFields, DataHolds
<1>2. CASE x \in Range(work[a])
  <2>1. x.market <= last.market /\ (Heard(x.market) \/ Joins(a, x.market))
    BY <1>2 DEF ToBeHeard
  <2>2. x.market <= last'.market
    <3>1. last'.market \in Nat /\ last.market <= last'.market
      BY Preserved, MarketsSame, MarketsAssumption DEF IInv, TypeOK, SameMarkets
    <3> QED
      BY <1>0, <1>1, <2>1, <3>1
  <2> QED
    BY <1>1, <2>1, <2>2, HeardKept, JoinMade
<1>3. CASE Proceed(a)
  <2>1. CASE Threw(a)
    <3>1. work'[a] = <<>>
      BY <1>0, <2>1 DEF Threw
    <3> QED
      BY <3>1 DEF Range
  <2>2. CASE \E t \in Seq(CalmStep) : Replace(a, t)
    <3>1. PICK t \in Seq(CalmStep) : Replace(a, t)
      BY <2>2
    <3>2. work'[a] = t \o Tail(work[a]) /\ work[a] # <<>>
      BY <1>0, <1>3, <3>1, CalmProceed DEF Replace
    <3>3. t \in Seq(Step) /\ \A z \in Range(t) : z.op # "setMarket"
      BY CalmSequences DEF Range, Unsettling
    <3>4. Tail(work[a]) \in Seq(Step) /\ Range(Tail(work[a])) \subseteq Range(work[a])
      BY <1>0, <3>2, RangeOfRest
    <3>5. x \in Range(Tail(work[a]))
      BY <3>2, <3>3, <3>4, RangeOfBoth
    <3> QED
      BY <1>2, <3>4, <3>5
  <2>3. CASE InsertMarket(a) /\ ~ Threw(a)
    <3>1. PICK m : m = last.market + 1
      OBVIOUS
    <3>2. last'.market = m
      <4>1. last \in [profile : 0 .. MaxProfiles, market : 0 .. MaxMarkets]
        BY DEF IInv, TypeOK
      <4> QED
        BY <2>3, <3>1, <4>1 DEF InsertMarket
    <3>3. CASE x \notin Range(work[a])
      <4>1. x.market = m /\ Joins(a, m)'
        BY <2>3, <3>1, <3>2, <3>3, InsertedJoins
      <4> QED
        BY <1>1, <3>2, <4>1
    <3> QED
      BY <1>2, <3>3
  <2> QED
    BY <1>3, <2>1, <2>2, <2>3, CalmProceed
<1>4. CASE work'[a] \in Seq(BootStep)
  <2>1. \A k \in DOMAIN work'[a] : work'[a][k] \in BootStep
    BY <1>4, ElementOfSeq, LenProperties
  <2> QED
    BY <2>1 DEF BootStep, Range
<1>5. CASE a \in Clients /\ Commands(a) /\ work[a] = <<>>
  <2>1. PICK t : /\ Commanding(a, t)
                 /\ t \in Seq(CalmStep) \/ \E y \in Step : t = <<y>> /\ Unsettled(y)
    BY <1>5, CommandPrograms
  <2>2. work'[a] = t /\ UNCHANGED <<markets, listening, last>>
    BY <1>0, <2>1 DEF Commanding, Start, database, core
  <2>3. t \notin Seq(CalmStep)
    <3>1. t \in Seq(CalmStep) => \A z \in Range(t) : z.op # "setMarket"
      BY CalmSequences DEF Range, Unsettling
    <3> QED
      BY <2>2, <3>1
  <2>4. PICK y \in Step : t = <<y>> /\ Unsettled(y)
    BY <2>1, <2>3
  <2>5. x = y
    BY <2>2, <2>4, RangeOfOne
  <2>6. x.market \in DOMAIN markets /\ markets[x.market].profile # None
    <3>1. ItsOwn(x) /\ x.profile \in Pid
      BY <1>1, <2>4, <2>5, StepFields DEF Unsettled
    <3> QED
      BY <3>1, DataHolds DEF ItsOwn, OfProfile
  <2>7. Heard(x.market)
    <3>1. \A b \in Actor : ~ Joins(b, x.market)
      BY <1>5 DEF Joins, Actor, OneClient
    <3> QED
      BY <2>6, <3>1 DEF JoinedHeard
  <2> QED
    BY <1>0, <2>2, <2>6, <2>7 DEF Heard
<1> QED
  BY <1>2, <1>3, <1>4, <1>5, WorkOfStep

(* The default markets are, too, while profiles are not served.            *)
LEMMA DefaultsKept ==
  ASSUME IInv, Next, ~ Overriding, boot # "started", DefaultsHeard, \A a \in Actor : ToBeHeard(a)
  PROVE  DefaultsHeard'
<1>0. /\ settings \in [profile : Pid \cup {None}, market : [Pid -> Mid \cup {None}]]
      /\ Mid \cup {None} \subseteq Nat
  BY DataHolds DEF IInv, TypeOK, None
<1>1. settings'.market = settings.market \/ \E a \in Actor : Proceed(a) /\ SetMarket(a)
  <2>1. ASSUME NEW a \in Actor, Proceed(a), ~ SetMarket(a) PROVE settings'.market = settings.market
    <3>1. CASE SetProfile(a)
      BY <1>0, <3>1 DEF SetProfile
    <3>2. CASE ~ SetProfile(a)
      BY <2>1, <3>2 DEF Proceed, AddProfile, RenameMarket, LoadWallets, SeedMarket, OpenWallet,
           CreateWallet, extKeyGenesisImport, extKeyImport, DeriveAccount, InsertIdentity,
           LookForUnjoined, InsertMarket, JoinMarket, DestroyMarket, database
    <3> QED
      BY <3>1, <3>2
  <2>2. ASSUME NEW c \in Clients, Commands(c) PROVE settings' = settings
    <3>1. \E t : Commanding(c, t)
      BY <2>2, CommandPrograms
    <3> QED
      BY <3>1 DEF Commanding, database
  <2>3. ASSUME \/ BeginBoot \/ FinishBoot \/ Crash \/ \E a \in Actor : Fault(a)
               \/ \E n \in MarketName, address \in Address : ReceiveMarketAdd(n, address)
               \/ \E m \in DOMAIN markets : ExpireMarket(m)
        PROVE  settings' = settings
    BY <2>3 DEF BeginBoot, FinishBoot, Crash, Fault, ReceiveMarketAdd, ExpireMarket, database
  <2>4. \A c \in Clients, p \in DOMAIN profiles : ~ ProfileDefault(c, p) /\ ~ ProfileRemove(c, p)
    BY DEF ProfileDefault, ProfileRemove
  <2> QED
    BY <2>1, <2>2, <2>3, <2>4 DEF Next, Commands, Overriding
<1>2. \A p \in Pid : settings'.market[p] \in Nat
                    /\ settings'.market[p] <= last.market /\ Heard(settings'.market[p])
  <2>1. CASE settings'.market = settings.market
    BY <1>0, <2>1 DEF DefaultsHeard
  <2>2. ASSUME NEW a \in Actor, Proceed(a), SetMarket(a)
        PROVE  \A p \in Pid : settings'.market[p] \in Nat
                    /\ settings'.market[p] <= last.market /\ Heard(settings'.market[p])
    <3>1. PICK s : s = Head(work[a])
      OBVIOUS
    <3>2. /\ work[a] # <<>> /\ s.op = "setMarket"
          /\ settings' = settings \/ settings' = [settings EXCEPT !.market[s.profile] = s.market]
      BY <2>2, <3>1 DEF SetMarket, Running
    <3>3. s \in Step /\ s \in Range(work[a])
      BY <3>1, <3>2, FirstStep DEF Range
    <3>4. s.market \in Nat /\ s.market <= last.market /\ Heard(s.market)
      <4>1. ~ Joins(a, s.market)
        <5>1. [op |-> "join", market |-> s.market].op = "join"
          OBVIOUS
        <5> QED
          BY <3>1, <3>2, <5>1 DEF Joins
      <4> QED
        BY <3>2, <3>3, <4>1, StepFields, DataHolds DEF ToBeHeard
    <3>5. \A p \in Pid : settings'.market[p] \in {settings.market[p], s.market}
      BY <1>0, <3>2
    <3> QED
      BY <1>0, <3>4, <3>5 DEF DefaultsHeard
  <2> QED
    BY <1>1, <2>1, <2>2
<1> QED
  BY <1>2, HeardKept DEF DefaultsHeard

(* Listening is inductive: the boot that is owed and the client do not     *)
(* come between the insertion of a market and its join.                    *)
LEMMA ListeningKept ==
  ASSUME IInv, OneClient, Owing, Listening, [Next]_vars
  PROVE  Listening'
<1>1. CASE UNCHANGED vars
  BY <1>1 DEF vars, database, core, Listening, Listened, JoinedHeard, ToBeHeard, DefaultsHeard,
       Heard, Joins
<1>2. CASE Next
  <2> SUFFICES ASSUME mishaps' = 0, boot' = "polling" \/ (boot' = "booting" /\ owed')
               PROVE  Listened'
    BY DEF Listening
  <2>1. mishaps \in Nat /\ mishaps' \in Nat
    BY Preserved, MarketsAssumption DEF IInv, TypeOK
  <2>2. ASSUME NEW c \in Clients, Commands(c) PROVE boot' = boot /\ mishaps' = mishaps
    <3>1. \E t : Commanding(c, t)
      BY <2>2, CommandPrograms
    <3> QED
      BY <3>1 DEF Commanding
  <2>3. ~ Crash /\ ~ Overriding /\ \A a \in Actor : ~ Fault(a)
    BY NoMishap
  <2>4. mishaps' = mishaps
    BY <1>2, <2>2, <2>3 DEF Next, Commands, Overriding, BeginBoot, FinishBoot, Proceed,
         ProfileDefault, ProfileRemove, ReceiveMarketAdd, ExpireMarket
  <2>5. boot' = boot \/ BeginBoot
    <3>1. ASSUME NEW a \in Actor, Proceed(a) PROVE boot' = boot
      <4>1. ASSUME InsertMarket(a) PROVE Threw(a) \/ \E t \in Seq(Step) : Replace(a, t)
        BY <4>1, InsertedMarket
      <4>2. Threw(a) \/ \E t : Replace(a, t)
        BY <3>1, <4>1, CalmProceed
      <4> QED
        BY <4>2 DEF Threw, Replace
    <3> QED
      BY <1>2, <2>2, <2>3, <3>1 DEF Next, Commands, Overriding, FinishBoot, ProfileDefault,
           ProfileRemove, ReceiveMarketAdd, ExpireMarket
  <2>6. boot = "polling" \/ (boot = "booting" /\ owed)
    BY <1>2, <2>5, OwedBefore DEF BeginBoot
  <2>7. Listened
    BY <2>4, <2>6 DEF Listening
  <2>8. ASSUME NEW c \in Clients, Commands(c), NEW m PROVE ~ Joins("boot", m)
    <3>1. boot' = boot
      BY <2>2, <2>8
    <3>2. CASE boot = "polling"
      BY <3>2 DEF IInv, Booting, Joins
    <3>3. CASE boot = "booting"
      <4>1. Seeded
        BY <1>2, <2>8, <3>1, <3>3, OwedBefore
      <4>2. PICK p \in Pid : Keeping(p)
        BY <2>6, <3>3, <4>1, SeededIsSet DEF Owing, Seeding
      <4>3. work["boot"] # <<>> => Head(work["boot"]) \in Range(work["boot"])
        <5>1. work["boot"] \in Seq(Step)
          BY DEF IInv, Programs, Actor
        <5> QED
          BY <5>1, RangeOfRest
      <4>4. work["boot"] # <<>> => Head(work["boot"]).op \in {"loadAll", "seedMarket"}
        BY <4>2, <4>3 DEF Keeping, LoadAll, SeedOf
      <4> QED
        BY <4>4 DEF Joins
    <3> QED
      BY <2>6, <3>2, <3>3
  <2>9. JoinedHeard'
    BY <1>2, <2>4, <2>7, JoinedKept DEF Listened
  <2>10. \A a \in Actor : ToBeHeard(a)'
    BY <1>2, <2>4, <2>7, <2>8, ToBeHeardKept DEF Listened
  <2>11. DefaultsHeard'
    BY <1>2, <2>3, <2>6, <2>7, DefaultsKept DEF Listened
  <2> QED
    BY <2>9, <2>10, <2>11 DEF Listened, Actor
<1> QED
  BY <1>1, <1>2

(* How a node starts: the boot is owed, and the default market of an old   *)
(* installation has been listened to.                                      *)
LEMMA StartsOwed ==
  ASSUME Init
  PROVE  Owing /\ Listening
<1>0. boot = "polling" /\ work = [a \in Actor |-> <<>>]
  BY DEF Init
<1>1. NoneSet /\ (settings.profile = None \/ IsUpgrading)
  <2>1. CASE New
    BY <2>1 DEF New, NoneSet
  <2>2. CASE Old
    <3>1. OldWallet \in DOMAIN wallets /\ settings.profile = 1 /\ 1 \in DOMAIN profiles
      BY <2>2 DEF Old
    <3>2. ~ HasIdentity(1)
      <4>1. MasterPath # 0
        BY MarketsAssumption DEF MasterPath
      <4> QED
        BY <2>2, <4>1 DEF Old, HasIdentity
    <3> QED
      BY <2>2, <3>1, <3>2 DEF Old, NoneSet, IsUpgrading
  <2> QED
    BY <2>1, <2>2 DEF Init
<1>2. Owing
  BY <1>0, <1>1 DEF Owing, Fresh, ClientsIdle, Actor
<1>3. JoinedHeard /\ DefaultsHeard
  <2>1. CASE New
    BY <2>1 DEF New, JoinedHeard, DefaultsHeard, Heard, None
  <2>2. CASE Old
    <3>1. DOMAIN markets = {1} /\ markets[1].address = "default" /\ listening = {"default"}
          /\ last.market = 1 /\ NoneSet
      BY <1>1, <2>2 DEF Old
    <3> QED
      BY <3>1 DEF JoinedHeard, DefaultsHeard, Heard, None, NoneSet
  <2> QED
    BY <2>1, <2>2 DEF Init
<1>4. \A a \in Actor : ToBeHeard(a)
  BY <1>0 DEF ToBeHeard, Range
<1> QED
  BY <1>2, <1>3, <1>4 DEF Listening, Listened

(* With one client: a boot that nothing has disturbed has yet to make what *)
(* is missing, and as long as nothing has gone wrong every market that a   *)
(* profile has joined is listened to, or about to be.                      *)
THEOREM BootInvariance == OneClient => (Spec => [](Owing /\ Listening))
<1> SUFFICES ASSUME OneClient PROVE Spec => [](Owing /\ Listening)
  OBVIOUS
<1>1. Init => Owing /\ Listening
  BY StartsOwed
<1>2. IInv /\ SInv /\ (Owing /\ Listening) /\ [Next]_vars => (Owing /\ Listening)'
  BY OwingKept, ListeningKept
<1> QED
  BY <1>1, <1>2, Invariance, SeededInvariance, PTL DEF Spec

(* With one client, a boot that succeeds undisturbed leaves the default    *)
(* profile ready for work: its wallets are loaded, it has its identity and *)
(* a default market of its own, and that market is listened to if nothing  *)
(* has gone wrong since the node was installed.                            *)
THEOREM BootReadyForOneClient == OneClient => (Spec => BootReady)
<1> SUFFICES ASSUME OneClient PROVE Spec => BootReady
  OBVIOUS
<1> DEFINE Starts == boot' = "started" /\ boot # "started" /\ owed
           Ready == /\ Seeded'
                    /\ \A i \in identities : i.profile = settings.profile => i.wallet \in loaded
                    /\ mishaps = 0 =>
                         markets[settings.market[settings.profile]].address \in listening
<1>1. ASSUME IInv, Owing, Listening, [Next]_vars, Starts PROVE Ready
  <2>1. FinishBoot
    <3>1. ASSUME NEW a \in Actor, Proceed(a) PROVE FALSE
      <4>1. ASSUME InsertMarket(a) PROVE Threw(a) \/ \E t \in Seq(Step) : Replace(a, t)
        BY <1>1, <4>1, InsertedMarket
      <4>2. Threw(a) \/ \E t : Replace(a, t)
        BY <1>1, <3>1, <4>1, CalmProceed
      <4> QED
        BY <1>1, <4>2 DEF Threw, Replace
    <3>2. ASSUME NEW c \in Clients, Commands(c) PROVE FALSE
      <4>1. \E t : Commanding(c, t)
        BY <1>1, <3>2, CommandPrograms
      <4> QED
        BY <1>1, <4>1 DEF Commanding
    <3>3. ~ BeginBoot /\ ~ Crash /\ \A a \in Actor : ~ Fault(a)
      BY <1>1 DEF BeginBoot, Crash, Fault, Threw
    <3> QED
      BY <1>1, <3>1, <3>2, <3>3 DEF Next, Commands, vars, ProfileDefault, ProfileRemove,
           ReceiveMarketAdd, ExpireMarket, SettingSet, SettingRemove, VotedOut
  <2>2. /\ boot = "booting" /\ owed /\ work["boot"] = <<>>
        /\ UNCHANGED <<profiles, identities, markets, settings, work>>
    BY <1>1, <2>1 DEF FinishBoot, Idle, database
  <2>3. PICK p \in Pid : Loads(p) /\ Keeping(p)
    BY <1>1, <2>2 DEF Owing, Seeding, Ends
  <2>4. Seeded /\ settings.profile = p /\ \A i \in identities : i.profile = p => i.wallet \in loaded
    <3>1. Range(<<>>) = {}
      BY DEF Range
    <3> QED
      BY <2>2, <2>3, <3>1 DEF Keeping, Loads
  <2>5. Seeded'
    BY <2>2, <2>4 DEF Seeded, HasIdentity, OfProfile, Removing, Misled
  <2>6. ASSUME mishaps = 0 PROVE markets[settings.market[p]].address \in listening
    <3>1. Heard(settings.market[p])
      BY <1>1, <2>2, <2>6 DEF Listening, Listened, DefaultsHeard
    <3>2. settings.market[p] \in DOMAIN markets
      BY <2>4 DEF Seeded, OfProfile
    <3> QED
      BY <3>1, <3>2 DEF Heard
  <2> QED
    BY <2>4, <2>5, <2>6
<1>2. IInv /\ (Owing /\ Listening) /\ [Next]_vars => [Starts => Ready]_vars
  BY <1>1
<1> QED
  BY <1>2, Invariance, BootInvariance, PTL DEF Spec, BootReady
=============================================================================
