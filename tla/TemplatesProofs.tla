---------------------------- MODULE TemplatesProofs ----------------------------
(***************************************************************************)
(* Type correctness and the two safety invariants of Templates, proved for *)
(* any markets, clients and bounds.  Both invariants speak of rows, but    *)
(* what the next step writes was decided by steps before it: so the        *)
(* inductive invariant says which programs there are, that no two clients  *)
(* are at a template that is not overlapped, and that what a program       *)
(* carries along still agrees with the template.                           *)
(***************************************************************************)
EXTENDS Templates, FiniteSetTheorems, FunctionTheorems, SequenceTheorems, WellFoundedInduction, TLAPS

First(a) == Head(work[a].steps)
Offspring == {row \in Template : \E p \in Id \cup {None}, m \in Market \cup {Base} : row = New(p, m)}
Complete == {row \in Template : row.address # None}

EditStep(t) == [op |-> "edit", id |-> t]
UnpriceStep(t) == [op |-> "unprice", id |-> t]
PriceStep(t) == [op |-> "price", id |-> t]
AddressStep(t, estimate) == [op |-> "address", id |-> t, estimate |-> estimate]
HashStep(t, row) == [op |-> "hash", id |-> t, row |-> row]
LookStep(t) == [op |-> "look", id |-> t]
DeleteStep(t) == [op |-> "delete", id |-> t]
FindStep(n) == [op |-> "find", listing |-> n]
RelateStep(n, t) == [op |-> "relate", listing |-> n, template |-> t]

(* The programs that are left when a client has one or two steps to take:  *)
(* those that make a template, and those at one.                           *)
Making(s) ==
  \E t \in Id, row \in Offspring, f, g \in BOOLEAN :
    s \in {<<Add(t, row)>>, <<Add(t, row), Fill(t, f, g)>>, <<Fill(t, f, g)>>}
AtTemplate(t, s) ==
  \/ s \in {<<EditStep(t)>>, <<UnpriceStep(t), PriceStep(t)>>, <<PriceStep(t)>>,
            <<LookStep(t), DeleteStep(t)>>, <<DeleteStep(t)>>}
  \/ \E e \in BOOLEAN : s = <<AddressStep(t, e)>>
  \/ \E row \in Complete, e \in BOOLEAN : s = <<Send(t, row, e)>>
  \/ \E row \in Complete : s = <<HashStep(t, row)>>
Relating(s) == \E n \in arrived : s = <<FindStep(n)>> \/ \E t \in Id : s = <<RelateStep(n, t)>>

Programs ==
  /\ DOMAIN work = Actor
  /\ \A a \in Actor :
       \/ work[a] = Nothing
       \/ a \in Clients /\ \E t \in Id : \E s : /\ Making(s) \/ AtTemplate(t, s)
                                              /\ work[a] = [at |-> t, steps |-> s]
       \/ a = "inbox" /\ \E s : Relating(s) /\ work[a] = [at |-> None, steps |-> s]

(* Only one client is at a template that is not overlapped.                *)
Exclusive ==
  \A a \in Clients : \A b \in Clients \ {a} :
    ~ Idle(a) /\ ~ Idle(b) /\ work[a].at = work[b].at => work[a].at \in overlapped

(* The templates that the first step of a program refers to, other than    *)
(* the one it makes.                                                       *)
Refers(a, t) ==
  \/ /\ ~ Idle(a) /\ First(a).op \in {"edit", "unprice", "price", "address", "send", "hash", "look", "delete"}
     /\ First(a).id = t
  \/ Running(a, "relate") /\ First(a).template = t
  \/ Running(a, "add") /\ First(a).row.parent = t

(* Ids are given once: a template that is about to be made is nobody's.    *)
Fresh ==
  \A a \in Actor :
    /\ \A t \in Id : Refers(a, t) => t <= last
    /\ Running(a, "add") =>
         /\ First(a).id <= last /\ First(a).id \notin DOMAIN templates
         /\ First(a).row.parent < First(a).id
         /\ \A b \in Actor : ~ Refers(b, First(a).id)
         /\ \A b \in Actor \ {a} : Running(b, "add") => First(b).id # First(a).id

(* A version belongs below a market template of its market, which is below *)
(* a base; a template that is about to be made will, too.                  *)
Below(parent, m) ==
  /\ (m = Base) = (parent = None)
  /\ parent \in DOMAIN templates /\ templates[parent].market # Base =>
       /\ templates[parent].market = m
       /\ templates[templates[parent].parent].market = Base
Family ==
  /\ \A t \in DOMAIN templates : Below(templates[t].parent, templates[t].market)
  /\ \A a \in Actor : Running(a, "add") => Below(First(a).row.parent, First(a).row.market)

(* A base has one market template per market, and where one is being made  *)
(* there is none yet.                                                      *)
OneEach ==
  /\ \A t \in DOMAIN templates \ overlapped : templates[t].parent = None =>
       \A m \in Market : \A u, v \in MarketTemplates(t, m) : u = v
  /\ \A a \in Actor : Running(a, "add") =>
       LET p == First(a).row.parent
       IN p \in DOMAIN templates \ overlapped /\ templates[p].parent = None =>
            work[a].at = p /\ MarketTemplates(p, First(a).row.market) = {}

(* What was posted is as it was posted, what is being edited or without an *)
(* address was not posted, and what is being posted is as it was loaded.   *)
Agrees(a, t) ==
  /\ First(a).op \in {"edit", "unprice", "price", "address"} /\ First(a).id = t =>
       templates[t].hash = NoHash
  /\ First(a).op \in {"send", "hash"} /\ First(a).id = t =>
       HashOf(t, First(a).row) = HashOf(t, templates[t])
  /\ First(a).op = "relate" /\ First(a).template = t =>
       templates[t].hash = sent[First(a).listing]
FrozenAt(t) ==
  /\ templates[t].hash # NoHash => templates[t].hash = HashOf(t, templates[t])
  /\ \A a \in Actor : ~ Idle(a) => Agrees(a, t)
  /\ \A n \in DOMAIN listings : listings[n] = t => templates[t].hash = sent[n]
Frozen == \A t \in DOMAIN templates \ overlapped : FrozenAt(t)

IInv == TypeOK /\ sent \in Seq(Hash) /\ Programs /\ Exclusive /\ Fresh /\ Family /\ OneEach /\ Frozen

-----------------------------------------------------------------------------
(* Programs of one and of two steps, taken apart and put together.         *)
LEMMA Tuples ==
  ASSUME NEW x, NEW y
  PROVE  /\ <<x>> # <<>> /\ Head(<<x>>) = x /\ Tail(<<x>>) = <<>>
         /\ <<x, y>> # <<>> /\ Head(<<x, y>>) = x /\ Tail(<<x, y>>) = <<y>>
         /\ <<>> \o <<>> = <<>> /\ <<>> \o <<y>> = <<y>> /\ <<x>> \o <<>> = <<x>>
OBVIOUS
(* Two one-element sequences make a pair: a clone's program is put         *)
(* together so.                                                            *)
LEMMA Pair ==
  ASSUME NEW x, NEW y
  PROVE  <<x>> \o <<y>> = <<x, y>>
<1> DEFINE S == {x, y}
           p == <<x>>
           q == <<y>>
           r == <<x, y>>
<1>1. p \in Seq(S) /\ q \in Seq(S) /\ Len(p) = 1 /\ Len(q) = 1 /\ p[1] = x /\ q[1] = y
  OBVIOUS
<1>2. r \in Seq(S) /\ Len(r) = 2 /\ r[1] = x /\ r[2] = y
  OBVIOUS
<1> HIDE DEF p, q, r, S
<1>3. /\ p \o q \in Seq(S) /\ Len(p \o q) = Len(p) + Len(q)
      /\ \A i \in 1 .. Len(p) + Len(q) : (p \o q)[i] = IF i <= Len(p) THEN p[i] ELSE q[i - Len(p)]
  BY <1>1, ConcatProperties
<1>4. Len(p \o q) = 2 /\ (p \o q)[1] = x /\ (p \o q)[2] = y
  BY <1>1, <1>3
<1>5. \A i \in 1 .. 2 : (p \o q)[i] = r[i]
  <2>1. \A i \in 1 .. 2 : i = 1 \/ i = 2
    OBVIOUS
  <2> QED
    BY <1>2, <1>4, <2>1
<1>6. p \o q = r
  BY <1>2, <1>3, <1>4, <1>5, SeqEqual
<1> QED
  BY <1>6 DEF p, q, r

(* What program an actor is at, by its first step.                         *)
KnownProgram(a) ==
  LET s == First(a)
      t == work[a].at
      rest == Tail(work[a].steps)
  IN /\ s.op \notin {"find", "relate"} =>
          a \in Clients /\ t \in Id /\ work[a] = [at |-> t, steps |-> work[a].steps]
     /\ s.op = "add" => \E id \in Id, row \in Offspring :
          /\ s = Add(id, row)
          /\ rest = <<>> \/ \E f, g \in BOOLEAN : rest = <<Fill(id, f, g)>>
     /\ s.op = "fill" => rest = <<>> /\ \E id \in Id, f, g \in BOOLEAN : s = Fill(id, f, g)
     /\ s.op = "edit" => s = EditStep(t) /\ rest = <<>>
     /\ s.op = "unprice" => s = UnpriceStep(t) /\ rest = <<PriceStep(t)>>
     /\ s.op = "price" => s = PriceStep(t) /\ rest = <<>>
     /\ s.op = "address" => rest = <<>> /\ \E e \in BOOLEAN : s = AddressStep(t, e)
     /\ s.op = "send" => rest = <<>> /\ \E row \in Complete, e \in BOOLEAN : s = Send(t, row, e)
     /\ s.op = "hash" => rest = <<>> /\ \E row \in Complete : s = HashStep(t, row)
     /\ s.op = "look" => s = LookStep(t) /\ rest = <<DeleteStep(t)>>
     /\ s.op = "delete" => s = DeleteStep(t) /\ rest = <<>>
     /\ s.op \in {"find", "relate"} =>
          a = "inbox" /\ t = None /\ work[a] = [at |-> None, steps |-> work[a].steps]
     /\ s.op = "find" => rest = <<>> /\ \E n \in arrived : s = FindStep(n)
     /\ s.op = "relate" => rest = <<>> /\ \E n \in arrived, u \in Id : s = RelateStep(n, u)
     /\ s.op \in Operation
(* The program of an actor that is not idle is one of those.               *)
LEMMA AtStep ==
  ASSUME Programs, NEW a \in Actor, ~ Idle(a)
  PROVE  KnownProgram(a)
<1> DEFINE s == First(a)
           rest == Tail(work[a].steps)
<1>0. \A x, y : /\ Head(<<x>>) = x /\ Tail(<<x>>) = <<>>
                /\ Head(<<x, y>>) = x /\ Tail(<<x, y>>) = <<y>>
  BY Tuples
<1>1. work[a] # Nothing
  BY DEF Idle, Nothing
<1>2. ASSUME a \in Clients, NEW t \in Id, NEW p, Making(p), work[a] = [at |-> t, steps |-> p]
      PROVE  KnownProgram(a)
  <2>1. work[a].at = t /\ work[a].steps = p /\ s = Head(p) /\ rest = Tail(p)
    BY <1>2 DEF First
  <2>2. PICK id \in Id, row \in Offspring, f, g \in BOOLEAN :
          p \in {<<Add(id, row)>>, <<Add(id, row), Fill(id, f, g)>>, <<Fill(id, f, g)>>}
    BY <1>2 DEF Making
  <2> DEFINE x == Add(id, row)
             y == Fill(id, f, g)
  <2>3. x.op = "add" /\ y.op = "fill"
    BY DEF Add, Fill
  <2>4. \/ s = x /\ (rest = <<>> \/ rest = <<y>>)
        \/ s = y /\ rest = <<>>
    <3>1. p = <<x>> \/ p = <<x, y>> \/ p = <<y>>
      BY <2>2
    <3> HIDE DEF x, y, s, rest
    <3> QED
      BY <1>0, <2>1, <3>1
  <2> HIDE DEF s, rest
  <2> QED
    BY <1>2, <2>1, <2>3, <2>4 DEF KnownProgram, Operation, s, rest
<1>3. ASSUME a \in Clients, NEW t \in Id, NEW p, AtTemplate(t, p), work[a] = [at |-> t, steps |-> p]
      PROVE  KnownProgram(a)
  <2>1. work[a].at = t /\ work[a].steps = p /\ s = Head(p) /\ rest = Tail(p)
    BY <1>3 DEF First
  <2> HIDE DEF s, rest
  <2>2. \/ s = EditStep(t) /\ rest = <<>>
        \/ s = UnpriceStep(t) /\ rest = <<PriceStep(t)>>
        \/ s = PriceStep(t) /\ rest = <<>>
        \/ s = LookStep(t) /\ rest = <<DeleteStep(t)>>
        \/ s = DeleteStep(t) /\ rest = <<>>
        \/ \E e \in BOOLEAN : s = AddressStep(t, e) /\ rest = <<>>
        \/ \E row \in Complete, e \in BOOLEAN : s = Send(t, row, e) /\ rest = <<>>
        \/ \E row \in Complete : s = HashStep(t, row) /\ rest = <<>>
    <3>1. ASSUME NEW x, p = <<x>>
          PROVE  s = x /\ rest = <<>>
      BY <1>0, <2>1, <3>1
    <3>2. ASSUME NEW x, NEW y, p = <<x, y>>
          PROVE  s = x /\ rest = <<y>>
      BY <1>0, <2>1, <3>2
    <3>3. CASE p \in {<<EditStep(t)>>, <<UnpriceStep(t), PriceStep(t)>>, <<PriceStep(t)>>,
                     <<LookStep(t), DeleteStep(t)>>, <<DeleteStep(t)>>}
      <4>1. \/ p = <<EditStep(t)>> \/ p = <<UnpriceStep(t), PriceStep(t)>> \/ p = <<PriceStep(t)>>
            \/ p = <<LookStep(t), DeleteStep(t)>> \/ p = <<DeleteStep(t)>>
        BY <3>3
      <4> QED
        BY <3>1, <3>2, <4>1
    <3>4. CASE \E e \in BOOLEAN : p = <<AddressStep(t, e)>>
      BY <3>1, <3>4
    <3>5. CASE \E row \in Complete, e \in BOOLEAN : p = <<Send(t, row, e)>>
      BY <3>1, <3>5
    <3>6. CASE \E row \in Complete : p = <<HashStep(t, row)>>
      BY <3>1, <3>6
    <3> QED
      BY <1>3, <3>3, <3>4, <3>5, <3>6 DEF AtTemplate
  <2> QED
    BY <1>3, <2>1, <2>2 DEF EditStep, UnpriceStep, PriceStep, LookStep, DeleteStep, AddressStep,
                            Send, HashStep, KnownProgram, Operation, s, rest
<1>4. ASSUME a = "inbox", NEW p, Relating(p), work[a] = [at |-> None, steps |-> p]
      PROVE  KnownProgram(a)
  <2>1. work[a].at = None /\ work[a].steps = p /\ s = Head(p) /\ rest = Tail(p)
    BY <1>4 DEF First
  <2> HIDE DEF s, rest
  <2>2. \E n \in arrived : /\ s = FindStep(n) \/ \E u \in Id : s = RelateStep(n, u)
                           /\ rest = <<>>
    BY <1>0, <1>4, <2>1 DEF Relating
  <2> QED
    BY <1>4, <2>1, <2>2 DEF FindStep, RelateStep, KnownProgram, Operation, s, rest
<1> QED
  BY <1>1, <1>2, <1>3, <1>4 DEF Programs

(* What the first step of an actor carries along.                          *)
StepData(a) ==
  LET s == First(a)
      t == work[a].at
  IN /\ s.op \in Operation
     /\ s.op \in {"add", "fill"} => s.id \in Id /\ a \in Clients /\ t \in Id
     /\ s.op = "add" => s.row \in Offspring
     /\ s.op = "fill" => s.category \in BOOLEAN /\ s.price \in BOOLEAN
     /\ s.op \in {"edit", "unprice", "price", "address", "send", "hash", "look", "delete"} =>
          s.id = t /\ t \in Id /\ a \in Clients
     /\ s.op = "address" => s.estimate \in BOOLEAN
     /\ s.op = "send" => s.estimate \in BOOLEAN
     /\ s.op \in {"send", "hash"} => s.row \in Complete
     /\ s.op \in {"find", "relate"} => a = "inbox" /\ t = None /\ s.listing \in arrived
     /\ s.op = "relate" => s.template \in Id
(* What the shapes of the programs say of the first step's fields.         *)
LEMMA AtData ==
  ASSUME Programs, NEW a \in Actor, ~ Idle(a)
  PROVE  StepData(a)
<1> DEFINE s == First(a)
           t == work[a].at
           rest == Tail(work[a].steps)
<1>0. KnownProgram(a)
  BY AtStep
<1> HIDE DEF s, t, rest
<1>1. CASE s.op = "add"
  BY <1>0, <1>1 DEF KnownProgram, StepData, Add, Operation, s, t, rest
<1>2. CASE s.op = "fill"
  BY <1>0, <1>2 DEF KnownProgram, StepData, Fill, Operation, s, t, rest
<1>3. CASE s.op \in {"edit", "unprice", "price", "look", "delete"}
  BY <1>0, <1>3 DEF KnownProgram, StepData, EditStep, UnpriceStep, PriceStep, LookStep, DeleteStep,
                    Operation, s, t, rest
<1>4. CASE s.op = "address"
  BY <1>0, <1>4 DEF KnownProgram, StepData, AddressStep, Operation, s, t, rest
<1>5. CASE s.op = "send"
  BY <1>0, <1>5 DEF KnownProgram, StepData, Send, Operation, s, t, rest
<1>6. CASE s.op = "hash"
  BY <1>0, <1>6 DEF KnownProgram, StepData, HashStep, Operation, s, t, rest
<1>7. CASE s.op = "find"
  BY <1>0, <1>7 DEF KnownProgram, StepData, FindStep, Operation, s, t, rest
<1>8. CASE s.op = "relate"
  BY <1>0, <1>8 DEF KnownProgram, StepData, RelateStep, Operation, s, t, rest
<1>9. s.op \in Operation
  BY <1>0 DEF KnownProgram, s
<1> QED
  BY <1>1, <1>2, <1>3, <1>4, <1>5, <1>6, <1>7, <1>8, <1>9 DEF Operation

(* The program after a step: nothing, or one more step.                    *)
LEMMA Going ==
  ASSUME Programs, NEW a \in Actor, ~ Idle(a), NEW steps, Go(a, steps)
  PROVE  /\ DOMAIN work' = Actor
         /\ \A b \in Actor \ {a} : work'[b] = work[b]
         /\ steps = <<>> => work'[a] = Nothing
         /\ steps # <<>> => work'[a] = [at |-> work[a].at, steps |-> steps]
<1>1. work' = [work EXCEPT ![a] = IF steps = <<>> THEN Nothing ELSE [work[a] EXCEPT !.steps = steps]]
  BY DEF Go
<1>2. DOMAIN work = Actor
  BY DEF Programs
<1>3. work[a] = [at |-> work[a].at, steps |-> work[a].steps]
  <2>1. KnownProgram(a)
    BY AtStep
  <2> QED
    BY <2>1 DEF KnownProgram, Operation
<1>4. [work[a] EXCEPT !.steps = steps] = [at |-> work[a].at, steps |-> steps]
  BY <1>3
<1>5. work'[a] = IF steps = <<>> THEN Nothing ELSE [work[a] EXCEPT !.steps = steps]
  BY <1>1, <1>2
<1> QED
  BY <1>1, <1>2, <1>4, <1>5

(* Every set of numbers that is not empty has a least one.                 *)
LEMMA MinIsThere ==
  ASSUME NEW S, S \subseteq Nat, S # {}
  PROVE  Min(S) \in S
<1> DEFINE Up == {1 .. n : n \in S}
           R == StrictSubsetOrdering(Nat)
<1>1. Up \subseteq FiniteSubsetsOf(Nat) /\ Up # {}
  <2>1. \A n \in S : n \in Int /\ 1 .. n \subseteq Nat
    OBVIOUS
  <2>2. \A n \in S : IsFiniteSet(1 .. n)
    BY <2>1, FS_Interval
  <2> QED
    BY <2>1, <2>2 DEF FiniteSubsetsOf
<1>2. PICK x \in Up : \A y \in Up : <<y, x>> \notin R
  <2> HIDE DEF Up, R
  <2>1. IsWellFoundedOn(R, FiniteSubsetsOf(Nat))
    BY FS_StrictSubsetOrderingWellFounded DEF R
  <2> QED
    BY <1>1, <2>1, WFMin
<1>3. PICK n \in S : x = 1 .. n
  OBVIOUS
<1>4. ASSUME NEW k \in S, k < n
      PROVE  FALSE
  <2>1. 1 .. k \subseteq 1 .. n /\ 1 .. k # 1 .. n
    <3>1. n \in 1 .. n /\ n \notin 1 .. k
      BY <1>4
    <3> QED
      BY <1>4, <3>1
  <2>2. <<1 .. k, x>> \in R
    BY <1>3, <2>1 DEF StrictSubsetOrdering
  <2> QED
    BY <1>2, <2>2
<1>5. \A k \in S : n <= k
  BY <1>4
<1> QED
  BY <1>5 DEF Min

(* The values of a function with a finite domain are finitely many.        *)
LEMMA FiniteImage ==
  ASSUME NEW S, IsFiniteSet(S), NEW f, DOMAIN f = S, f = [x \in S |-> f[x]]
  PROVE  IsFiniteSet({f[x] : x \in S})
<1> DEFINE T == {f[x] : x \in S}
<1>1. f \in [S -> T] /\ \A y \in T : \E x \in S : f[x] = y
  OBVIOUS
<1>2. f \in Surjection(S, T)
  BY <1>1, Fun_IsSurj
<1> QED
  BY <1>2, FS_Surjection

(* The addresses that a template has or had are finitely many.             *)
LEMMA UsedFinite ==
  ASSUME TypeOK, sent \in Seq(Hash), Programs, NEW t
  PROVE  IsFiniteSet(Used(t))
<1> DEFINE Mine(a) == {j \in DOMAIN work[a].steps : /\ work[a].steps[j].op \in {"send", "hash"}
                                                   /\ work[a].steps[j].id = t}
           Copied(a) == {work[a].steps[k].row.address : k \in Mine(a)}
           Sendings == {k \in DOMAIN sent : sent[k].of = t}
<1>1. IsFiniteSet(Actor)
  BY FS_Singleton, FS_Union, TemplatesAssumption DEF Actor
<1>2. ASSUME NEW a \in Actor
      PROVE  IsFiniteSet(Copied(a))
  <2>1. DOMAIN work[a].steps \subseteq 1 .. 2
    <3>1. work[a] = Nothing \/ \E u, s : (Making(s) \/ AtTemplate(u, s) \/ Relating(s)) /\ work[a].steps = s
      BY DEF Programs
    <3>2. CASE work[a] = Nothing
      BY <3>2 DEF Nothing
    <3>3. ASSUME NEW s, Making(s)
          PROVE  DOMAIN s \subseteq 1 .. 2
      BY <3>3 DEF Making
    <3>4. ASSUME NEW u, NEW s, AtTemplate(u, s)
          PROVE  DOMAIN s \subseteq 1 .. 2
      BY <3>4 DEF AtTemplate
    <3>5. ASSUME NEW s, Relating(s)
          PROVE  DOMAIN s \subseteq 1 .. 2
      BY <3>5 DEF Relating
    <3> QED
      BY <3>1, <3>2, <3>3, <3>4, <3>5
  <2>2. IsFiniteSet(Mine(a))
    <3>1. Mine(a) \in SUBSET (1 .. 2)
      BY <2>1
    <3>2. IsFiniteSet(1 .. 2)
      <4>1. IsFiniteSet({1}) /\ IsFiniteSet({2})
        BY FS_Singleton
      <4>2. IsFiniteSet({1} \cup {2})
        BY <4>1, FS_Union
      <4>3. 1 .. 2 = {1} \cup {2}
        OBVIOUS
      <4> QED
        BY <4>2, <4>3
    <3> HIDE DEF Mine
    <3> QED
      BY <3>1, <3>2, FS_Subset
  <2> DEFINE f == [k \in Mine(a) |-> work[a].steps[k].row.address]
  <2>3. IsFiniteSet({f[k] : k \in Mine(a)})
    <3> HIDE DEF Mine
    <3>1. DOMAIN f = Mine(a) /\ f = [k \in Mine(a) |-> f[k]]
      OBVIOUS
    <3> HIDE DEF f
    <3> QED
      BY <2>2, <3>1, FiniteImage
  <2> HIDE DEF Mine
  <2>4. {f[k] : k \in Mine(a)} = Copied(a)
    OBVIOUS
  <2> QED
    BY <2>3, <2>4
<1> HIDE DEF Copied
<1>3. IsFiniteSet({Copied(a) : a \in Actor})
  <2> DEFINE f == [a \in Actor |-> Copied(a)]
  <2>1. IsFiniteSet({f[a] : a \in Actor})
    <3>1. DOMAIN f = Actor /\ f = [a \in Actor |-> f[a]]
      OBVIOUS
    <3> HIDE DEF f
    <3> QED
      BY <1>1, <3>1, FiniteImage
  <2>2. {f[a] : a \in Actor} = {Copied(a) : a \in Actor}
    OBVIOUS
  <2> QED
    BY <2>1, <2>2
<1>4. IsFiniteSet(Copies(t))
  <2>1. IsFiniteSet(UNION {Copied(a) : a \in Actor})
    BY <1>2, <1>3, FS_UNION
  <2> QED
    BY <2>1 DEF Copies, Copied
<1>5. IsFiniteSet({sent[n].address : n \in Sendings})
  <2> DEFINE f == [n \in Sendings |-> sent[n].address]
  <2>1. Sendings \in SUBSET (1 .. Len(sent)) /\ Len(sent) \in Nat
    OBVIOUS
  <2>2. IsFiniteSet(Sendings)
    BY <2>1, FS_Interval, FS_Subset
  <2> HIDE DEF Sendings
  <2>3. IsFiniteSet({f[n] : n \in Sendings})
    <3>1. DOMAIN f = Sendings /\ f = [n \in Sendings |-> f[n]]
      OBVIOUS
    <3> HIDE DEF f
    <3> QED
      BY <2>2, <3>1, FiniteImage
  <2>4. {f[n] : n \in Sendings} = {sent[n].address : n \in Sendings}
    OBVIOUS
  <2> QED
    BY <2>3, <2>4
<1>6. IsFiniteSet({templates[t].address} \cup Copies(t))
  BY <1>4, FS_Singleton, FS_Union
<1>7. IsFiniteSet(({templates[t].address} \cup Copies(t)) \cup {sent[n].address : n \in Sendings})
  BY <1>5, <1>6, FS_Union
<1> QED
  BY <1>7 DEF Used

(* So there is a number that none of them is.                              *)
LEMMA FreshAddress ==
  ASSUME TypeOK, sent \in Seq(Hash), Programs, NEW t
  PROVE  NewAddress(t) \in Nat \ {None}
<1> DEFINE n == Cardinality(Used(t))
           free == (1 .. n + 1) \ Used(t)
<1>1. IsFiniteSet(Used(t)) /\ n \in Nat
  BY UsedFinite, FS_CardinalityType
<1>2. free # {}
  <2>1. SUFFICES ASSUME 1 .. n + 1 \subseteq Used(t)
                 PROVE  FALSE
    OBVIOUS
  <2>2. Cardinality(1 .. n + 1) = n + 1
    BY <1>1, FS_Interval
  <2>3. Cardinality(1 .. n + 1) <= n
    BY <1>1, <2>1, FS_Subset
  <2> QED
    BY <1>1, <2>2, <2>3
<1>3. free \subseteq Nat \ {None}
  BY <1>1 DEF None
<1> QED
  BY <1>2, <1>3, MinIsThere DEF NewAddress

(* A step that adds none to the program leaves nothing or the next step.   *)
LEMMA Ends ==
  ASSUME Programs, NEW a \in Actor, ~ Idle(a), Replace(a, <<>>) \/ Threw(a)
  PROVE  /\ DOMAIN work' = Actor
         /\ \A b \in Actor \ {a} : work'[b] = work[b]
         /\ \/ work'[a] = Nothing
            \/ \E x : /\ Tail(work[a].steps) = <<x>>
                      /\ work'[a] = [at |-> work[a].at, steps |-> <<x>>]
<1> DEFINE rest == Tail(work[a].steps)
<1>1. rest = <<>> \/ \E x : rest = <<x>>
  <2>1. KnownProgram(a)
    BY AtStep
  <2> QED
    BY <2>1 DEF KnownProgram, Operation
<1>2. \A x : <<>> \o <<x>> = <<x>> /\ <<>> \o <<>> = <<>> /\ <<x>> # <<>>
  BY Tuples
<1>3. CASE Threw(a)
  BY <1>3, Going DEF Threw
<1>4. CASE Replace(a, <<>>)
  <2>1. Go(a, rest)
    <3>1. Go(a, <<>> \o rest)
      BY <1>4 DEF Replace
    <3>2. <<>> \o rest = rest
      <4> HIDE DEF rest
      <4> QED
        BY <1>1, <1>2
    <3> QED
      BY <3>1, <3>2
  <2> HIDE DEF rest
  <2>2. /\ DOMAIN work' = Actor
        /\ \A b \in Actor \ {a} : work'[b] = work[b]
        /\ rest = <<>> => work'[a] = Nothing
        /\ rest # <<>> => work'[a] = [at |-> work[a].at, steps |-> rest]
    BY <2>1, Going
  <2> QED
    BY <1>1, <1>2, <2>2 DEF rest
<1> QED
  BY <1>3, <1>4

(* A last step that is replaced by another one.                            *)
LEMMA Continues ==
  ASSUME Programs, NEW a \in Actor, ~ Idle(a), NEW x, Replace(a, <<x>>), Tail(work[a].steps) = <<>>
  PROVE  /\ DOMAIN work' = Actor
         /\ \A b \in Actor \ {a} : work'[b] = work[b]
         /\ work'[a] = [at |-> work[a].at, steps |-> <<x>>]
<1>1. Go(a, <<x>>)
  <2>1. Go(a, <<x>> \o Tail(work[a].steps))
    BY DEF Replace
  <2>2. <<x>> \o <<>> = <<x>>
    BY Tuples
  <2> QED
    BY <2>1, <2>2
<1> QED
  BY <1>1, Going

(* The step x that may follow the first step of actor a.                   *)
Follows(a, x) ==
  LET s == First(a)
      t == work[a].at
  IN \/ s.op = "add" /\ \E id \in Id, f, g \in BOOLEAN : x = Fill(id, f, g)
     \/ s.op = "unprice" /\ x = PriceStep(t)
     \/ /\ s.op = "address" /\ t \in DOMAIN templates
        /\ \E row \in Complete, e \in BOOLEAN : x = Send(t, row, e) /\ templates' = With(t, row)
     \/ s.op = "send" /\ x = HashStep(t, s.row)
     \/ s.op = "look" /\ x = DeleteStep(t)
     \/ s.op = "find" /\ \E u \in DOMAIN templates :
          x = RelateStep(s.listing, u) /\ templates[u].hash = sent[s.listing]
Moved(a) ==
  /\ DOMAIN work' = Actor
  /\ \A b \in Actor \ {a} : work'[b] = work[b]
  /\ \/ work'[a] = Nothing
     \/ \E x : Follows(a, x) /\ work'[a] = [at |-> work[a].at, steps |-> <<x>>]

(* A step that only ends, or leaves the next step of its program.          *)
LEMMA EndsWell ==
  ASSUME Programs, NEW a \in Actor, ~ Idle(a), Replace(a, <<>>) \/ Threw(a)
  PROVE  Moved(a)
<1> DEFINE s == First(a)
           t == work[a].at
           rest == Tail(work[a].steps)
<1>1. KnownProgram(a)
  BY AtStep
<1>2. /\ DOMAIN work' = Actor
      /\ \A b \in Actor \ {a} : work'[b] = work[b]
      /\ work'[a] = Nothing \/ \E x : rest = <<x>> /\ work'[a] = [at |-> t, steps |-> <<x>>]
  BY Ends
<1>3. ASSUME NEW x, rest = <<x>>
      PROVE  Follows(a, x)
  <2>0. \A y, z : <<y>> # <<>> /\ (<<y>> = <<z>> => y = z)
    OBVIOUS
  <2> HIDE DEF s, t, rest
  <2>1. \/ s.op = "add" /\ \E f, g \in BOOLEAN, id \in Id : rest = <<Fill(id, f, g)>>
        \/ s.op = "unprice" /\ rest = <<PriceStep(t)>>
        \/ s.op = "look" /\ rest = <<DeleteStep(t)>>
    <3>1. rest # <<>>
      BY <1>3, <2>0
    <3>2. CASE s.op = "add"
      <4>1. PICK id \in Id, row \in Offspring :
              s = Add(id, row) /\ (rest = <<>> \/ \E f, g \in BOOLEAN : rest = <<Fill(id, f, g)>>)
        BY <1>1, <3>2 DEF KnownProgram, s, rest
      <4> QED
        BY <3>1, <3>2, <4>1
    <3> QED
      BY <1>1, <3>1, <3>2 DEF KnownProgram, Operation, s, t, rest
  <2> QED
    BY <1>3, <2>0, <2>1 DEF Follows, s, t
<1> QED
  BY <1>2, <1>3 DEF Moved

(* How the program of an actor that takes a step goes on.                  *)
LEMMA Moves ==
  ASSUME TypeOK, sent \in Seq(Hash), Programs, NEW a \in Actor, Proceed(a)
  PROVE  ~ Idle(a) /\ Moved(a)
<1> DEFINE s == First(a)
           t == work[a].at
           rest == Tail(work[a].steps)
<1>0. ~ Idle(a)
  BY DEF Proceed, AddRow, FillRow, EditRow, DropPrice, CreatePrice, UpdatePaymentAddress,
         SendListing, UpdateHash, LookForListings, DeleteRow, FindTemplate, RelateListing, Running
<1>1. KnownProgram(a) /\ StepData(a)
  BY <1>0, AtStep, AtData
<1>2. CASE \/ AddRow(a) \/ FillRow(a) \/ EditRow(a) \/ DropPrice(a) \/ CreatePrice(a) \/ UpdateHash(a)
           \/ LookForListings(a) \/ DeleteRow(a) \/ RelateListing(a)
  <2>1. Replace(a, <<>>) \/ Threw(a)
    BY <1>2 DEF AddRow, FillRow, EditRow, DropPrice, CreatePrice, UpdateHash, LookForListings,
                DeleteRow, RelateListing, Change, Finds
  <2> QED
    BY <1>0, <2>1, EndsWell
<1>3. CASE UpdatePaymentAddress(a)
  <2> DEFINE there == s.id \in DOMAIN templates /\ templates[s.id].price
             new == NewAddress(s.id)
             row == [templates[s.id] EXCEPT !.address = new]
  <2>1. CASE ~ there
    <3>1. Threw(a)
      BY <1>3, <2>1 DEF UpdatePaymentAddress, First
    <3> QED
      BY <1>0, <3>1, EndsWell
  <2>2. CASE there
    <3>1. s.op = "address"
      BY <1>3 DEF UpdatePaymentAddress, Running, First
    <3>2. s.id = t /\ s.estimate \in BOOLEAN /\ rest = <<>>
      BY <1>1, <3>1 DEF StepData, KnownProgram
    <3>3. Replace(a, <<Send(s.id, row, s.estimate)>>) /\ templates' = With(s.id, row)
      BY <1>3, <2>2 DEF UpdatePaymentAddress, First
    <3>4. row \in Complete
      <4>1. new \in Nat \ {None}
        BY FreshAddress
      <4>2. templates[s.id] \in Template
        BY <2>2 DEF TypeOK
      <4> HIDE DEF new
      <4> QED
        BY <4>1, <4>2 DEF Complete, Template
    <3> HIDE DEF s, row, there
    <3>5. Follows(a, Send(t, row, s.estimate))
      BY <2>2, <3>1, <3>2, <3>3, <3>4 DEF Follows, s, there
    <3> QED
      BY <1>0, <3>2, <3>3, <3>5, Continues DEF Moved
  <2> QED
    BY <2>1, <2>2
<1>4. CASE SendListing(a)
  <2>1. s.op = "send" /\ s.id = t /\ rest = <<>>
    BY <1>1, <1>4 DEF SendListing, Running, First, StepData, KnownProgram
  <2>2. CASE Replace(a, <<>>)
    BY <1>0, <2>2, EndsWell
  <2>3. CASE Replace(a, <<HashStep(s.id, s.row)>>)
    <3>1. Follows(a, HashStep(t, s.row))
      BY <2>1 DEF Follows
    <3> QED
      BY <1>0, <2>1, <2>3, <3>1, Continues DEF Moved
  <2> QED
    BY <1>4, <2>2, <2>3 DEF SendListing, First, HashStep
<1>5. CASE FindTemplate(a)
  <2>1. s.op = "find" /\ rest = <<>>
    BY <1>1, <1>5 DEF FindTemplate, Running, First, KnownProgram
  <2>2. CASE Replace(a, <<>>)
    BY <1>0, <2>2, EndsWell
  <2>3. ASSUME NEW u \in DOMAIN templates, templates[u].hash = sent[s.listing],
               Replace(a, <<RelateStep(s.listing, u)>>)
        PROVE  Moved(a)
    <3>1. Follows(a, RelateStep(s.listing, u))
      BY <2>1, <2>3 DEF Follows
    <3> QED
      BY <1>0, <2>1, <2>3, <3>1, Continues DEF Moved
  <2>4. \/ Replace(a, <<>>)
        \/ \E u \in DOMAIN templates : /\ templates[u].hash = sent[s.listing]
                                      /\ Replace(a, <<RelateStep(s.listing, u)>>)
    BY <1>5 DEF FindTemplate, First, RelateStep
  <2> HIDE DEF s, rest
  <2> QED
    BY <1>0, <2>2, <2>3, <2>4
<1> QED
  BY <1>0, <1>2, <1>3, <1>4, <1>5 DEF Proceed

(* What the others do stays, and what the actor does next follows.         *)
LEMMA MovedNext ==
  ASSUME Programs, NEW a \in Actor, ~ Idle(a), Moved(a)
  PROVE  /\ \A b \in Actor \ {a} : /\ work'[b] = work[b]
                                   /\ Idle(b)' = Idle(b) /\ First(b)' = First(b)
         /\ (~ Idle(a))' => Follows(a, First(a)') /\ work'[a].at = work[a].at
         /\ \A b \in Actor : (~ Idle(b))' => ~ Idle(b) /\ work'[b].at = work[b].at
         /\ \A b \in Actor : Running(b, "add")' => b # a /\ Running(b, "add")
<1>0. StepData(a)
  BY AtData
<1>1. \A b \in Actor \ {a} : /\ work'[b] = work[b]
                             /\ Idle(b)' = Idle(b) /\ First(b)' = First(b)
  BY DEF Moved, Idle, First
<1>2. ASSUME (~ Idle(a))'
      PROVE  Follows(a, First(a)') /\ work'[a].at = work[a].at
  <2>1. work'[a] # Nothing
    BY <1>2 DEF Idle, Nothing
  <2>2. PICK x : Follows(a, x) /\ work'[a] = [at |-> work[a].at, steps |-> <<x>>]
    BY <2>1 DEF Moved
  <2>3. Head(<<x>>) = x
    BY Tuples
  <2>4. First(a)' = x /\ work'[a].at = work[a].at
    BY <2>2, <2>3 DEF First
  <2> QED
    BY <2>2, <2>4
<1>3. ASSUME NEW x, Follows(a, x)
      PROVE  x.op # "add"
  BY <1>3 DEF Follows, Fill, PriceStep, Send, HashStep, DeleteStep, RelateStep
<1>4. \A b \in Actor : Running(b, "add")' => b # a /\ Running(b, "add")
  <2>1. ASSUME NEW b \in Actor, Running(b, "add")'
        PROVE  b # a /\ Running(b, "add")
    <3>1. (~ Idle(b))' /\ First(b)'.op = "add"
      BY <2>1 DEF Running, First
    <3>2. b # a
      BY <1>2, <1>3, <3>1
    <3> QED
      BY <1>1, <3>1, <3>2 DEF Running, First
  <2> QED
    BY <2>1
<1> QED
  BY <1>1, <1>2, <1>4

(* No step refers to a template that its program did not refer to before,  *)
(* except to one that is there.                                            *)
LEMMA MovedRefers ==
  ASSUME Programs, NEW a \in Actor, ~ Idle(a), Moved(a), NEW b \in Actor, NEW u, Refers(b, u)'
  PROVE  Refers(b, u) \/ u \in DOMAIN templates
<1>0. StepData(a)
  BY AtData
<1>1. CASE b # a
  <2>1. Idle(b)' = Idle(b) /\ First(b)' = First(b)
    BY <1>1, MovedNext
  <2> QED
    BY <2>1 DEF Refers, Running, First
<1>2. CASE b = a
  <2> DEFINE x == First(a)'
  <2>1. (~ Idle(a))'
    BY <1>2 DEF Refers, Running
  <2>2. Follows(a, x)
    BY <2>1, MovedNext
  <2>3. ~ Running(a, "add")'
    BY MovedNext
  <2>4. \/ /\ x.op \in {"edit", "unprice", "price", "address", "send", "hash", "look", "delete"}
           /\ x.id = u
        \/ x.op = "relate" /\ x.template = u
    BY <1>2, <2>3 DEF Refers, Running, First
  <2> DEFINE s == First(a)
             t == work[a].at
  <2>5. \/ s.op \in {"unprice", "address", "send", "look"} /\ x.id = t /\ x.op # "relate"
        \/ x.op = "fill"
        \/ x.op = "relate" /\ x.template \in DOMAIN templates
    <3> HIDE DEF x
    <3> QED
      BY <2>2 DEF Follows, Fill, PriceStep, Send, HashStep, DeleteStep, RelateStep
  <2>6. CASE s.op \in {"unprice", "address", "send", "look"} /\ x.id = t /\ x.op # "relate"
    <3>1. s.id = t /\ u = t
      BY <1>0, <2>4, <2>6 DEF StepData
    <3> QED
      BY <1>2, <2>6, <3>1 DEF Refers
  <2> HIDE DEF x
  <2> QED
    BY <2>4, <2>5, <2>6
<1> QED
  BY <1>1, <1>2

(* The ids of the templates that are there are ids.                        *)
LEMMA IdsThere ==
  ASSUME TypeOK
  PROVE  /\ DOMAIN templates \subseteq Id /\ None \notin DOMAIN templates
         /\ \A t \in DOMAIN templates : templates[t] \in Template /\ t \in Nat
<1>1. DOMAIN templates \subseteq 1 .. last /\ last \in 0 .. MaxTemplates
  BY DEF TypeOK
<1>2. 1 .. last \subseteq 1 .. MaxTemplates
  BY <1>1, TemplatesAssumption
<1> QED
  BY <1>1, <1>2 DEF TypeOK, Id, None

(* So the programs stay such programs,                                     *)
LEMMA MovedPrograms ==
  ASSUME TypeOK, Programs, NEW a \in Actor, ~ Idle(a), Moved(a), arrived' = arrived
  PROVE  Programs'
<1> DEFINE s == First(a)
           t == work[a].at
<1>0. StepData(a)
  BY AtData
<1>1. DOMAIN work' = Actor
  BY DEF Moved
<1>2. ASSUME NEW p
      PROVE  Relating(p)' = Relating(p)
  BY DEF Relating
<1>3. ASSUME NEW b \in Actor, b # a
      PROVE  \/ work'[b] = Nothing
             \/ b \in Clients /\ \E u \in Id : \E p : /\ Making(p) \/ AtTemplate(u, p)
                                                    /\ work'[b] = [at |-> u, steps |-> p]
             \/ b = "inbox" /\ \E p : Relating(p) /\ work'[b] = [at |-> None, steps |-> p]
  <2>1. work'[b] = work[b]
    BY <1>3, MovedNext
  <2> QED
    BY <2>1 DEF Programs
<1>4. ASSUME NEW x, Follows(a, x), work'[a] = [at |-> t, steps |-> <<x>>]
      PROVE  \/ a \in Clients /\ \E u \in Id : \E p : /\ Making(p) \/ AtTemplate(u, p)
                                                    /\ work'[a] = [at |-> u, steps |-> p]
             \/ a = "inbox" /\ \E p : Relating(p) /\ work'[a] = [at |-> None, steps |-> p]
  <2> HIDE DEF s, t
  <2>1. CASE s.op = "add" /\ \E id \in Id, f, g \in BOOLEAN : x = Fill(id, f, g)
    <3>1. PICK id \in Id, f \in BOOLEAN, g \in BOOLEAN : x = Fill(id, f, g)
      BY <2>1
    <3>2. \E row : row \in Offspring
      BY <1>0, <2>1 DEF StepData, s
    <3>3. Making(<<x>>)
      BY <3>1, <3>2 DEF Making
    <3>4. a \in Clients /\ t \in Id
      BY <1>0, <2>1 DEF StepData, s, t
    <3> QED
      BY <1>4, <3>3, <3>4
  <2>2. CASE \/ s.op = "unprice" /\ x = PriceStep(t)
             \/ s.op = "address" /\ \E row \in Complete, e \in BOOLEAN : x = Send(t, row, e)
             \/ s.op = "send" /\ x = HashStep(t, s.row)
             \/ s.op = "look" /\ x = DeleteStep(t)
    <3>1. a \in Clients /\ t \in Id
      BY <1>0, <2>2 DEF StepData, s, t
    <3>2. s.op = "send" => s.row \in Complete
      BY <1>0 DEF StepData, s
    <3>3. AtTemplate(t, <<x>>)
      BY <2>2, <3>2 DEF AtTemplate
    <3> QED
      BY <1>4, <3>1, <3>3
  <2>3. CASE s.op = "find" /\ \E u \in DOMAIN templates : x = RelateStep(s.listing, u)
    <3>1. a = "inbox" /\ t = None /\ s.listing \in arrived
      BY <1>0, <2>3 DEF StepData, s, t
    <3>2. DOMAIN templates \subseteq Id
      BY IdsThere
    <3>3. Relating(<<x>>)
      BY <2>3, <3>1, <3>2 DEF Relating
    <3> QED
      BY <1>4, <3>1, <3>3
  <2> QED
    BY <1>4, <2>1, <2>2, <2>3 DEF Follows, s, t
<1>5. ASSUME NEW b \in Actor
      PROVE  \/ work'[b] = Nothing
             \/ b \in Clients /\ \E u \in Id : \E p : /\ Making(p) \/ AtTemplate(u, p)
                                                    /\ work'[b] = [at |-> u, steps |-> p]
             \/ b = "inbox" /\ \E p : Relating(p) /\ work'[b] = [at |-> None, steps |-> p]
  <2>1. CASE b # a
    BY <1>3, <2>1
  <2>2. CASE b = a
    BY <1>4, <2>2 DEF Moved
  <2> QED
    BY <2>1, <2>2
<1> QED
  BY <1>1, <1>2, <1>5 DEF Programs

(* no more clients are at a template than before,                          *)
LEMMA MovedExclusive ==
  ASSUME Programs, Exclusive, NEW a \in Actor, ~ Idle(a), Moved(a), overlapped' = overlapped
  PROVE  Exclusive'
<1>1. \A b \in Actor : (~ Idle(b))' => ~ Idle(b) /\ work'[b].at = work[b].at
  BY MovedNext
<1>2. \A b \in Clients : b \in Actor
  BY DEF Actor
<1> QED
  BY <1>1, <1>2 DEF Exclusive

(* and a template that is about to be made is still nobody's.              *)
LEMMA MovedFresh ==
  ASSUME TypeOK, Programs, Fresh, NEW a \in Actor, ~ Idle(a), Moved(a), last' = last,
         \A u \in DOMAIN templates' : u \in DOMAIN templates \/ (Running(a, "add") /\ u = First(a).id)
  PROVE  Fresh'
<1>1. ASSUME NEW b \in Actor, NEW t \in Id, Refers(b, t)'
      PROVE  t <= last
  <2>1. Refers(b, t) \/ t \in DOMAIN templates
    BY <1>1, MovedRefers
  <2>2. DOMAIN templates \subseteq 1 .. last /\ last \in Nat
    BY DEF TypeOK
  <2> QED
    BY <2>1, <2>2 DEF Fresh
<1>2. ASSUME NEW b \in Actor, Running(b, "add")'
      PROVE  /\ First(b)'.id <= last /\ First(b)'.id \notin DOMAIN templates'
             /\ First(b)'.row.parent < First(b)'.id
             /\ \A d \in Actor : ~ Refers(d, First(b).id)'
             /\ \A d \in Actor \ {b} : Running(d, "add")' => First(d)'.id # First(b)'.id
  <2> DEFINE id == First(b).id
  <2>1. b # a /\ Running(b, "add") /\ First(b)' = First(b)
    BY <1>2, MovedNext
  <2>2. /\ id <= last /\ id \notin DOMAIN templates
        /\ First(b).row.parent < id
        /\ \A d \in Actor : ~ Refers(d, id)
        /\ \A d \in Actor \ {b} : Running(d, "add") => First(d).id # id
    BY <2>1 DEF Fresh
  <2>3. id \notin DOMAIN templates'
    BY <2>1, <2>2
  <2>4. ASSUME NEW d \in Actor, Refers(d, First(b).id)'
        PROVE  FALSE
    <3>1. First(b).id' = id
      BY <2>1
    <3>2. \A u : Refers(d, u)' => Refers(d, u) \/ u \in DOMAIN templates
      BY MovedRefers
    <3>3. Refers(d, id) \/ id \in DOMAIN templates
      BY <2>1, <2>4, <3>2 DEF Refers
    <3> QED
      BY <2>2, <3>3
  <2>5. ASSUME NEW d \in Actor \ {b}, Running(d, "add")'
        PROVE  First(d)'.id # id
    <3>1. d # a /\ Running(d, "add") /\ First(d)' = First(d)
      BY <2>5, MovedNext
    <3> QED
      BY <2>2, <3>1
  <2> QED
    BY <2>1, <2>2, <2>3, <2>4, <2>5
<1> QED
  BY <1>1, <1>2 DEF Fresh

(* The type invariant is one of the programs and one of everything else.   *)
RowsTyped ==
  /\ DOMAIN templates \subseteq 1 .. last /\ last \in 0 .. MaxTemplates
  /\ \A t \in DOMAIN templates :
       /\ templates[t] \in Template
       /\ templates[t].parent \in (DOMAIN templates \cap 1 .. t - 1) \cup {None}
  /\ arrived \subseteq DOMAIN sent
  /\ DOMAIN listings \subseteq arrived
  /\ \A n \in DOMAIN listings : listings[n] \in DOMAIN templates \cup {None}
SentTyped == sent \in Seq(Hash) /\ Len(sent) <= MaxPosts
(* Programs have typed steps; with typed rows the type invariant holds     *)
(* after a step.                                                           *)
LEMMA Typed ==
  ASSUME Programs', RowsTyped', SentTyped', (overlapped \subseteq Id)', (mishaps \in 0 .. MaxMishaps)'
  PROVE  TypeOK' /\ (sent \in Seq(Hash))'
<1>1. ASSUME NEW a \in Actor
      PROVE  /\ work'[a].at \in Id \cup {None}
             /\ \A k \in DOMAIN work'[a].steps : work'[a].steps[k].op \in Operation
  <2>1. CASE work'[a] = Nothing
    BY <2>1 DEF Nothing
  <2>2. ASSUME NEW t \in Id, NEW s, Making(s), work'[a] = [at |-> t, steps |-> s]
        PROVE  work'[a].at \in Id /\ \A k \in DOMAIN work'[a].steps : work'[a].steps[k].op \in Operation
    <3>1. \A k \in DOMAIN s : s[k].op \in Operation
      BY <2>2 DEF Making, Add, Fill, Operation
    <3> QED
      BY <2>2, <3>1
  <2>3. ASSUME NEW t \in Id, NEW s, AtTemplate(t, s), work'[a] = [at |-> t, steps |-> s]
        PROVE  work'[a].at \in Id /\ \A k \in DOMAIN work'[a].steps : work'[a].steps[k].op \in Operation
    <3>1. \A k \in DOMAIN s : s[k].op \in Operation
      BY <2>3 DEF AtTemplate, EditStep, UnpriceStep, PriceStep, LookStep, DeleteStep, AddressStep,
                  Send, HashStep, Operation
    <3> QED
      BY <2>3, <3>1
  <2>4. ASSUME NEW s, Relating(s)', work'[a] = [at |-> None, steps |-> s]
        PROVE  work'[a].at = None /\ \A k \in DOMAIN work'[a].steps : work'[a].steps[k].op \in Operation
    <3>1. \A k \in DOMAIN s : s[k].op \in Operation
      BY <2>4 DEF Relating, FindStep, RelateStep, Operation
    <3> QED
      BY <2>4, <3>1
  <2> QED
    BY <2>1, <2>2, <2>3, <2>4 DEF Programs
<1>2. \A n \in DOMAIN sent' : sent'[n] \in Hash
  BY DEF SentTyped
<1> QED
  BY <1>1, <1>2 DEF TypeOK, RowsTyped, SentTyped, Programs
(* The type invariant says that the rows are typed.                        *)
LEMMA Untyped ==
  ASSUME TypeOK, sent \in Seq(Hash)
  PROVE  RowsTyped /\ SentTyped
BY DEF TypeOK, RowsTyped, SentTyped

(* Steps that keep parents and markets keep the family tree.               *)
LEMMA KinKept ==
  ASSUME RowsTyped, Programs, Family, OneEach, NEW a \in Actor, ~ Idle(a), Moved(a),
         DOMAIN templates' = DOMAIN templates, overlapped' = overlapped,
         \A t \in DOMAIN templates : /\ templates'[t].parent = templates[t].parent
                                     /\ templates'[t].market = templates[t].market
  PROVE  Family' /\ OneEach'
<1>1. \A b \in Actor : Running(b, "add")' => /\ Running(b, "add") /\ First(b)' = First(b)
                                             /\ work'[b].at = work[b].at
  BY MovedNext
<1>2. \A t \in DOMAIN templates : templates[t].parent \in DOMAIN templates \cup {None}
  BY DEF RowsTyped
<1>3. ASSUME NEW p, NEW m, Below(p, m)
      PROVE  Below(p, m)'
  <2>1. CASE p \in DOMAIN templates /\ templates[p].market # Base
    <3>1. templates[p].market = m /\ templates[templates[p].parent].market = Base
      BY <1>3, <2>1 DEF Below
    <3>2. CASE templates[p].parent \in DOMAIN templates
      BY <1>3, <2>1, <3>1, <3>2 DEF Below
    <3>3. CASE templates[p].parent = None
      BY <1>3, <2>1, <3>1, <3>3, <1>2 DEF Below, Family
    <3> QED
      BY <1>2, <2>1, <3>2, <3>3
  <2>2. CASE ~ (p \in DOMAIN templates /\ templates[p].market # Base)
    BY <1>3, <2>2 DEF Below
  <2> QED
    BY <2>1, <2>2
<1>4. \A p, m : Below(p, m) => Below(p, m)'
  BY <1>3
<1>5. Family'
  <2>1. ASSUME NEW t \in DOMAIN templates'
        PROVE  Below(templates[t].parent, templates[t].market)'
    <3>1. Below(templates[t].parent, templates[t].market)
      BY <2>1 DEF Family
    <3>2. \E p, m : p = templates[t].parent /\ m = templates[t].market /\ Below(p, m)'
      BY <1>4, <3>1
    <3> QED
      BY <2>1, <3>2 DEF Below
  <2>2. ASSUME NEW b \in Actor, Running(b, "add")'
        PROVE  Below(First(b).row.parent, First(b).row.market)'
    <3>1. Below(First(b).row.parent, First(b).row.market) /\ First(b)' = First(b)
      BY <1>1, <2>2 DEF Family
    <3>2. \E p, m : p = First(b).row.parent /\ m = First(b).row.market /\ Below(p, m)'
      BY <1>4, <3>1
    <3> QED
      BY <3>1, <3>2 DEF Below
  <2> QED
    BY <2>1, <2>2 DEF Family
<1>6. \A t, m : MarketTemplates(t, m)' = MarketTemplates(t, m)
  BY DEF MarketTemplates, Children
<1>7. OneEach'
  <2>1. ASSUME NEW t \in DOMAIN templates' \ overlapped', templates'[t].parent = None,
               NEW m \in Market, NEW u \in MarketTemplates(t, m)', NEW v \in MarketTemplates(t, m)'
        PROVE  u = v
    BY <1>6, <2>1 DEF OneEach
  <2>2. ASSUME NEW b \in Actor, Running(b, "add")',
               First(b)'.row.parent \in DOMAIN templates' \ overlapped',
               templates'[First(b)'.row.parent].parent = None
        PROVE  /\ work'[b].at = First(b)'.row.parent
               /\ MarketTemplates(First(b).row.parent, First(b).row.market)' = {}
    <3>1. /\ Running(b, "add") /\ First(b)' = First(b) /\ work'[b].at = work[b].at
      BY <1>1, <2>2
    <3>2. work[b].at = First(b).row.parent /\ MarketTemplates(First(b).row.parent, First(b).row.market) = {}
      BY <2>2, <3>1 DEF OneEach
    <3>3. \E p, m : p = First(b).row.parent /\ m = First(b).row.market /\ MarketTemplates(p, m)' = {}
      BY <1>6, <3>2
    <3> QED
      BY <3>1, <3>2, <3>3 DEF MarketTemplates, Children
  <2> QED
    BY <2>1, <2>2 DEF OneEach
<1> QED
  BY <1>5, <1>7

(* A template that nobody changes stays as it was posted, or is posted as  *)
(* it was loaded.                                                          *)
LEMMA FrozenKept ==
  ASSUME TypeOK, sent \in Seq(Hash), Programs, NEW a \in Actor, ~ Idle(a), Moved(a),
         NEW t \in DOMAIN templates, FrozenAt(t),
         templates'[t].hash = templates[t].hash,
         HashOf(t, templates'[t]) = HashOf(t, templates[t]),
         arrived' = arrived,
         \A n \in DOMAIN sent : sent'[n] = sent[n],
         \A n \in DOMAIN listings' : n \in DOMAIN listings /\
            (listings'[n] = listings[n] \/ (listings'[n] = t => templates[t].hash = sent[n]))
  PROVE  FrozenAt(t)'
<1>0. StepData(a) /\ (\A b \in Actor : ~ Idle(b) => StepData(b))
  BY AtData
<1>1. arrived \subseteq DOMAIN sent /\ DOMAIN listings \subseteq arrived
  BY DEF TypeOK
<1>2. ASSUME NEW b \in Actor, (~ Idle(b))'
      PROVE  Agrees(b, t)'
  <2>1. CASE b # a
    <3>1. Idle(b)' = Idle(b) /\ First(b)' = First(b)
      BY <2>1, MovedNext
    <3>2. Agrees(b, t) /\ StepData(b)
      BY <1>0, <1>2, <3>1 DEF FrozenAt
    <3>3. First(b).op = "relate" => sent'[First(b).listing] = sent[First(b).listing]
      BY <1>1, <3>2 DEF StepData
    <3>4. \A row : HashOf(t, row)' = HashOf(t, row)
      BY DEF HashOf
    <3> QED
      BY <3>1, <3>2, <3>3, <3>4 DEF Agrees, HashOf
  <2>2. CASE b = a
    <3> DEFINE x == First(a)'
               s == First(a)
               u == work[a].at
    <3>1. Follows(a, x)
      BY <1>2, <2>2, MovedNext
    <3>2. Agrees(a, t)
      BY DEF FrozenAt
    <3>3. CASE s.op = "add" /\ \E id \in Id, f, g \in BOOLEAN : x = Fill(id, f, g)
      BY <2>2, <3>3 DEF Agrees, Fill
    <3>4. CASE s.op = "unprice" /\ x = PriceStep(u)
      <4>1. s.id = u
        BY <1>0, <3>4 DEF StepData
      <4> QED
        BY <2>2, <3>2, <3>4, <4>1 DEF Agrees, PriceStep
    <3>5. CASE /\ s.op = "address" /\ u \in DOMAIN templates
               /\ \E row \in Complete, e \in BOOLEAN : x = Send(u, row, e) /\ templates' = With(u, row)
      <4>1. PICK row \in Complete, e \in BOOLEAN : x = Send(u, row, e) /\ templates' = With(u, row)
        BY <3>5
      <4>2. templates'[u] = row
        BY <3>5, <4>1 DEF With
      <4>3. x.op = "send" /\ x.id = u /\ x.row = row
        BY <4>1 DEF Send
      <4> HIDE DEF x
      <4>4. Agrees(a, t)' = (u = t => HashOf(t, row) = HashOf(t, templates'[t]))
        BY <4>3 DEF Agrees, HashOf, x
      <4> QED
        BY <2>2, <4>2, <4>4
    <3>6. CASE s.op = "send" /\ x = HashStep(u, s.row)
      <4>1. s.id = u
        BY <1>0, <3>6 DEF StepData
      <4>2. x.op = "hash" /\ x.id = u /\ x.row = s.row
        BY <3>6 DEF HashStep
      <4>3. u = t => HashOf(t, s.row) = HashOf(t, templates[t])
        BY <3>2, <3>6, <4>1 DEF Agrees
      <4> HIDE DEF x, s
      <4>4. Agrees(a, t)' = (u = t => HashOf(t, s.row) = HashOf(t, templates'[t]))
        BY <4>2 DEF Agrees, HashOf, x
      <4> QED
        BY <2>2, <4>3, <4>4
    <3>7. CASE s.op = "look" /\ x = DeleteStep(u)
      BY <2>2, <3>7 DEF Agrees, DeleteStep
    <3>8. CASE s.op = "find" /\ \E v \in DOMAIN templates :
                 x = RelateStep(s.listing, v) /\ templates[v].hash = sent[s.listing]
      <4>1. PICK v \in DOMAIN templates : x = RelateStep(s.listing, v) /\ templates[v].hash = sent[s.listing]
        BY <3>8
      <4>2. x.op = "relate" /\ x.template = v /\ x.listing = s.listing
        BY <4>1 DEF RelateStep
      <4>3. sent'[s.listing] = sent[s.listing]
        BY <1>0, <1>1, <3>8 DEF StepData
      <4> HIDE DEF x, s
      <4>4. Agrees(a, t)' = (v = t => templates'[t].hash = sent'[s.listing])
        BY <4>2 DEF Agrees, x
      <4> QED
        BY <2>2, <4>1, <4>3, <4>4
    <3> QED
      BY <3>1, <3>3, <3>4, <3>5, <3>6, <3>7, <3>8 DEF Follows
  <2> QED
    BY <2>1, <2>2
<1>3. ASSUME NEW n \in DOMAIN listings', listings'[n] = t
      PROVE  templates'[t].hash = sent'[n]
  BY <1>1, <1>3 DEF FrozenAt
<1>4. templates'[t].hash # NoHash => templates'[t].hash = HashOf(t, templates'[t])
  BY DEF FrozenAt
<1> QED
  BY <1>2, <1>3, <1>4 DEF FrozenAt, HashOf

(* Nobody else is at the template that a client is at, or it is overlapped. *)
LEMMA Alone ==
  ASSUME Programs, Exclusive, NEW a \in Actor, ~ Idle(a), NEW b \in Actor \ {a}, ~ Idle(b),
         work[a].at \in Id \ overlapped, work[b].at = work[a].at
  PROVE  FALSE
<1>1. a \in Clients /\ b \in Clients
  BY DEF Programs, Idle, Nothing, Id, None
<1> QED
  BY <1>1 DEF Exclusive

(* A template that is edited or gets an address has not been posted.       *)
LEMMA FrozenEdited ==
  ASSUME TypeOK, sent \in Seq(Hash), Programs, Exclusive, NEW a \in Actor, ~ Idle(a), Moved(a),
         NEW t \in DOMAIN templates \ overlapped, FrozenAt(t),
         First(a).op \in {"edit", "unprice", "price", "address"}, First(a).id = t,
         templates'[t].hash = templates[t].hash,
         arrived' = arrived, sent' = sent, listings' = listings
  PROVE  FrozenAt(t)'
<1>0. StepData(a) /\ (\A b \in Actor : ~ Idle(b) => StepData(b))
  BY AtData
<1>1. templates'[t].hash = NoHash /\ work[a].at = t /\ t \in Id
  BY <1>0 DEF FrozenAt, Agrees, StepData
<1>2. ASSUME NEW b \in Actor, (~ Idle(b))'
      PROVE  Agrees(b, t)'
  <2>1. CASE b # a
    <3>1. Idle(b)' = Idle(b) /\ First(b)' = First(b) /\ ~ Idle(b)
      BY <1>2, <2>1, MovedNext
    <3>2. Agrees(b, t) /\ StepData(b)
      BY <1>0, <3>1 DEF FrozenAt
    <3>3. First(b).op \in {"edit", "unprice", "price", "address", "send", "hash"} => First(b).id # t
      BY <1>1, <2>1, <3>1, <3>2, Alone DEF StepData
    <3> QED
      BY <3>1, <3>2, <3>3 DEF Agrees
  <2>2. CASE b = a
    <3> DEFINE x == First(a)'
               s == First(a)
    <3>1. Follows(a, x)
      BY <1>2, <2>2, MovedNext
    <3>2. CASE s.op = "unprice" /\ x = PriceStep(t)
      BY <1>1, <2>2, <3>2 DEF Agrees, PriceStep
    <3>3. CASE /\ s.op = "address"
               /\ \E row \in Complete, e \in BOOLEAN : x = Send(t, row, e) /\ templates' = With(t, row)
      <4>1. PICK row \in Complete, e \in BOOLEAN : x = Send(t, row, e) /\ templates' = With(t, row)
        BY <3>3
      <4>2. templates'[t] = row
        BY <4>1 DEF With
      <4>3. x.op = "send" /\ x.id = t /\ x.row = row
        BY <4>1 DEF Send
      <4> HIDE DEF x
      <4>4. Agrees(a, t)' = (HashOf(t, row) = HashOf(t, templates'[t]))
        BY <4>3 DEF Agrees, HashOf, x
      <4> QED
        BY <2>2, <4>2, <4>4
    <3> QED
      BY <1>1, <3>1, <3>2, <3>3 DEF Follows
  <2> QED
    BY <2>1, <2>2
<1>3. ASSUME NEW n \in DOMAIN listings', listings'[n] = t
      PROVE  templates'[t].hash = sent'[n]
  BY <1>3 DEF FrozenAt
<1> QED
  BY <1>1, <1>2, <1>3 DEF FrozenAt

(* A template that gets its hash has the hash of what it is now.           *)
LEMMA FrozenHashed ==
  ASSUME TypeOK, sent \in Seq(Hash), Programs, Exclusive, NEW a \in Actor, ~ Idle(a), Moved(a),
         NEW t \in DOMAIN templates \ overlapped, FrozenAt(t),
         First(a).op = "hash", First(a).id = t,
         templates'[t].hash = HashOf(t, First(a).row),
         HashOf(t, templates'[t]) = HashOf(t, templates[t]),
         arrived' = arrived, sent' = sent, listings' = listings
  PROVE  FrozenAt(t)'
<1>0. StepData(a) /\ (\A b \in Actor : ~ Idle(b) => StepData(b))
  BY AtData
<1>1. work[a].at = t /\ t \in Id
  BY <1>0 DEF StepData
<1>2. templates'[t].hash = HashOf(t, templates[t])
  BY DEF FrozenAt, Agrees
<1>3. \A n \in DOMAIN sent : templates[t].hash = sent[n] => templates'[t].hash = sent[n]
  <2>1. NoHash \notin Hash
    BY DEF NoHash, Hash, None
  <2>2. \A n \in DOMAIN sent : sent[n] \in Hash
    OBVIOUS
  <2> QED
    BY <1>2, <2>1, <2>2 DEF FrozenAt
<1>4. arrived \subseteq DOMAIN sent /\ DOMAIN listings \subseteq arrived
  BY DEF TypeOK
<1>5. ASSUME NEW b \in Actor, (~ Idle(b))'
      PROVE  Agrees(b, t)'
  <2>1. CASE b # a
    <3>1. Idle(b)' = Idle(b) /\ First(b)' = First(b) /\ ~ Idle(b)
      BY <1>5, <2>1, MovedNext
    <3>2. Agrees(b, t) /\ StepData(b)
      BY <1>0, <3>1 DEF FrozenAt
    <3>3. First(b).op \in {"edit", "unprice", "price", "address", "send", "hash"} => First(b).id # t
      BY <1>1, <2>1, <3>1, <3>2, Alone DEF StepData
    <3>4. First(b).op = "relate" => First(b).listing \in DOMAIN sent
      BY <1>4, <3>2 DEF StepData
    <3> QED
      BY <1>3, <3>1, <3>2, <3>3, <3>4 DEF Agrees
  <2>2. CASE b = a
    <3>1. Follows(a, First(a)')
      BY <1>5, <2>2, MovedNext
    <3> QED
      BY <3>1 DEF Follows
  <2> QED
    BY <2>1, <2>2
<1>6. ASSUME NEW n \in DOMAIN listings', listings'[n] = t
      PROVE  templates'[t].hash = sent'[n]
  BY <1>3, <1>4, <1>6 DEF FrozenAt
<1> QED
  BY <1>2, <1>5, <1>6 DEF FrozenAt, HashOf

(* A step that changes no row.                                             *)
LEMMA QuietKeeps ==
  ASSUME IInv, NEW a \in Actor, ~ Idle(a), Moved(a),
         UNCHANGED <<templates, listings, last, arrived, overlapped>>,
         mishaps' \in 0 .. MaxMishaps, SentTyped', DOMAIN sent \subseteq DOMAIN sent',
         \A n \in DOMAIN sent : sent'[n] = sent[n]
  PROVE  IInv'
<1>0. TypeOK /\ sent \in Seq(Hash) /\ Programs /\ Exclusive /\ Fresh /\ Family /\ OneEach /\ Frozen
      /\ RowsTyped
  BY Untyped DEF IInv
<1>1. Programs' /\ Exclusive'
  BY <1>0, MovedPrograms, MovedExclusive
<1>2. TypeOK' /\ (sent \in Seq(Hash))'
  <2>1. RowsTyped'
    BY <1>0 DEF RowsTyped
  <2>2. (overlapped \subseteq Id)'
    BY <1>0 DEF TypeOK
  <2> QED
    BY <1>1, <2>1, <2>2, Typed
<1>3. Fresh'
  <2>1. \A u \in DOMAIN templates' : u \in DOMAIN templates \/ (Running(a, "add") /\ u = First(a).id)
    OBVIOUS
  <2> QED
    BY <1>0, <2>1, MovedFresh
<1>4. Family' /\ OneEach'
  BY <1>0, KinKept
<1>5. Frozen'
  <2>1. ASSUME NEW t \in DOMAIN templates \ overlapped
        PROVE  FrozenAt(t)'
    <3>1. FrozenAt(t)
      BY <1>0, <2>1 DEF Frozen
    <3> QED
      BY <1>0, <3>1, FrozenKept
  <2> QED
    BY <2>1 DEF Frozen
<1> QED
  BY <1>1, <1>2, <1>3, <1>4, <1>5 DEF IInv

(* A step that changes a row, but neither parent nor market.               *)
LEMMA ChangeKeeps ==
  ASSUME IInv, NEW a \in Actor, ~ Idle(a), Moved(a),
         NEW t \in DOMAIN templates, NEW row \in Template, templates' = With(t, row),
         row.parent = templates[t].parent, row.market = templates[t].market,
         UNCHANGED <<listings, sent, last, arrived, overlapped, mishaps>>,
         t \notin overlapped => FrozenAt(t)'
  PROVE  IInv'
<1>0. TypeOK /\ sent \in Seq(Hash) /\ Programs /\ Exclusive /\ Fresh /\ Family /\ OneEach /\ Frozen
      /\ RowsTyped /\ SentTyped
  BY Untyped DEF IInv
<1>1. Programs' /\ Exclusive'
  BY <1>0, MovedPrograms, MovedExclusive
<1>2. /\ DOMAIN templates' = DOMAIN templates
      /\ templates'[t] = row
      /\ \A u \in DOMAIN templates \ {t} : templates'[u] = templates[u]
  BY DEF With
<1>3. TypeOK' /\ (sent \in Seq(Hash))'
  <2>1. RowsTyped'
    BY <1>0, <1>2 DEF RowsTyped
  <2>2. SentTyped'
    BY <1>0 DEF SentTyped
  <2>3. (overlapped \subseteq Id)' /\ (mishaps \in 0 .. MaxMishaps)'
    BY <1>0 DEF TypeOK
  <2> QED
    BY <1>1, <2>1, <2>2, <2>3, Typed
<1>4. Fresh'
  <2>1. \A u \in DOMAIN templates' : u \in DOMAIN templates \/ (Running(a, "add") /\ u = First(a).id)
    BY <1>2
  <2> QED
    BY <1>0, <2>1, MovedFresh
<1>5. Family' /\ OneEach'
  <2>1. \A u \in DOMAIN templates : /\ templates'[u].parent = templates[u].parent
                                    /\ templates'[u].market = templates[u].market
    BY <1>2
  <2> QED
    BY <1>0, <1>2, <2>1, KinKept
<1>6. Frozen'
  <2>1. ASSUME NEW u \in DOMAIN templates \ overlapped, u # t
        PROVE  FrozenAt(u)'
    <3>1. FrozenAt(u)
      BY <1>0, <2>1 DEF Frozen
    <3>2. templates'[u].hash = templates[u].hash /\ HashOf(u, templates'[u]) = HashOf(u, templates[u])
      BY <1>2, <2>1
    <3> QED
      BY <1>0, <2>1, <3>1, <3>2, FrozenKept
  <2> QED
    BY <1>2, <2>1 DEF Frozen
<1> QED
  BY <1>1, <1>3, <1>4, <1>5, <1>6 DEF IInv

(* The listing is related to the template that has its hash.               *)
LEMMA RelateKeeps ==
  ASSUME IInv, NEW a \in Actor, ~ Idle(a), Moved(a), First(a).op = "relate",
         First(a).template \in DOMAIN templates, First(a).listing \in DOMAIN listings,
         listings' = [listings EXCEPT ![First(a).listing] = First(a).template],
         UNCHANGED <<templates, sent, last, arrived, overlapped, mishaps>>
  PROVE  IInv'
<1> DEFINE k == First(a).listing
           v == First(a).template
<1>0. TypeOK /\ sent \in Seq(Hash) /\ Programs /\ Exclusive /\ Fresh /\ Family /\ OneEach /\ Frozen
      /\ RowsTyped /\ SentTyped
  BY Untyped DEF IInv
<1>1. Programs' /\ Exclusive'
  BY <1>0, MovedPrograms, MovedExclusive
<1>2. /\ DOMAIN listings' = DOMAIN listings
      /\ \A n \in DOMAIN listings : listings'[n] = IF n = k THEN v ELSE listings[n]
  OBVIOUS
<1>3. TypeOK' /\ (sent \in Seq(Hash))'
  <2>1. RowsTyped'
    <3> HIDE DEF k, v
    <3>1. v \in DOMAIN templates
      BY DEF v
    <3> QED
      BY <1>0, <1>2, <3>1 DEF RowsTyped
  <2>2. SentTyped'
    BY <1>0 DEF SentTyped
  <2>3. (overlapped \subseteq Id)' /\ (mishaps \in 0 .. MaxMishaps)'
    BY <1>0 DEF TypeOK
  <2> QED
    BY <1>1, <2>1, <2>2, <2>3, Typed
<1>4. Fresh'
  <2>1. \A u \in DOMAIN templates' : u \in DOMAIN templates \/ (Running(a, "add") /\ u = First(a).id)
    OBVIOUS
  <2> QED
    BY <1>0, <2>1, MovedFresh
<1>5. Family' /\ OneEach'
  BY <1>0, KinKept
<1>6. Frozen'
  <2>1. ASSUME NEW t \in DOMAIN templates \ overlapped
        PROVE  FrozenAt(t)'
    <3>1. FrozenAt(t) /\ Agrees(a, t)
      BY <1>0, <2>1 DEF Frozen, FrozenAt
    <3>2. v = t => templates[t].hash = sent[k]
      BY <3>1 DEF Agrees
    <3>3. \A n \in DOMAIN listings' : /\ n \in DOMAIN listings
                                      /\ listings'[n] = listings[n] \/ (listings'[n] = t => templates[t].hash = sent[n])
      <4> HIDE DEF k, v
      <4> QED
        BY <1>2, <3>2
    <3> QED
      BY <1>0, <2>1, <3>1, <3>3, FrozenKept
  <2> QED
    BY <2>1 DEF Frozen
<1> QED
  BY <1>1, <1>3, <1>4, <1>5, <1>6 DEF IInv

(* A template that goes takes its whole line along: nobody's parent goes.  *)
LEMMA DeleteKeeps ==
  ASSUME IInv, NEW a \in Actor, ~ Idle(a), Moved(a), First(a).op # "add",
         NEW t \in Id, Unlisted(Line(t)),
         templates' = [u \in DOMAIN templates \ Line(t) |-> templates[u]],
         UNCHANGED <<listings, sent, last, arrived, overlapped, mishaps>>
  PROVE  IInv'
<1>0. TypeOK /\ sent \in Seq(Hash) /\ Programs /\ Exclusive /\ Fresh /\ Family /\ OneEach /\ Frozen
      /\ RowsTyped /\ SentTyped
  BY Untyped DEF IInv
<1>1. Programs' /\ Exclusive'
  BY <1>0, MovedPrograms, MovedExclusive
<1>2. /\ DOMAIN templates' = DOMAIN templates \ Line(t)
      /\ \A u \in DOMAIN templates' : u \in DOMAIN templates /\ templates'[u] = templates[u]
  OBVIOUS
<1>3. ASSUME NEW u \in DOMAIN templates'
      PROVE  templates[u].parent \in DOMAIN templates' \cup {None}
  <2> DEFINE p == templates[u].parent
             q == templates[p].parent
  <2>1. u \in DOMAIN templates /\ u \notin Line(t)
    BY <1>2
  <2>2. p \in DOMAIN templates \cup {None} /\ Below(p, templates[u].market)
    BY <1>0, <2>1 DEF RowsTyped, Family
  <2>3. SUFFICES ASSUME p \in DOMAIN templates, p \in Line(t)
                 PROVE  FALSE
    BY <1>2, <2>2
  <2>4. t # None /\ None \notin DOMAIN templates
    BY <1>0, IdsThere DEF Id, None
  <2>5. u \in Children(p)
    BY <2>1 DEF Children
  <2>6. CASE p = t
    BY <2>1, <2>5, <2>6 DEF Line
  <2>7. CASE p \in Children(t)
    BY <2>1, <2>5, <2>7 DEF Line
  <2>8. CASE \E v \in Children(t) : p \in Children(v)
    <3>1. PICK v \in DOMAIN templates : templates[v].parent = t /\ q = v
      BY <2>8 DEF Children
    <3>2. Below(q, templates[p].market) /\ Below(t, templates[v].market)
      BY <1>0, <2>3, <3>1 DEF Family
    <3>3. templates[p].market # Base /\ templates[q].market # Base
      BY <2>4, <3>1, <3>2 DEF Below
    <3> QED
      BY <2>2, <2>3, <3>3 DEF Below
  <2> QED
    BY <2>3, <2>6, <2>7, <2>8 DEF Line
<1>4. TypeOK' /\ (sent \in Seq(Hash))'
  <2>1. RowsTyped'
    <3>1. \A n \in DOMAIN listings : listings[n] \notin Line(t)
      BY DEF Unlisted
    <3>2. \A n \in DOMAIN listings : listings[n] \in DOMAIN templates' \cup {None}
      BY <1>0, <1>2, <3>1 DEF RowsTyped
    <3> QED
      BY <1>0, <1>2, <1>3, <3>2 DEF RowsTyped
  <2>2. SentTyped'
    BY <1>0 DEF SentTyped
  <2>3. (overlapped \subseteq Id)' /\ (mishaps \in 0 .. MaxMishaps)'
    BY <1>0 DEF TypeOK
  <2> QED
    BY <1>1, <2>1, <2>2, <2>3, Typed
<1>5. Fresh'
  <2>1. \A u \in DOMAIN templates' : u \in DOMAIN templates \/ (Running(a, "add") /\ u = First(a).id)
    BY <1>2
  <2> QED
    BY <1>0, <2>1, MovedFresh
<1>6. \A b \in Actor : Running(b, "add")' => /\ Running(b, "add") /\ First(b)' = First(b)
                                             /\ work'[b].at = work[b].at
  BY <1>0, MovedNext
<1>7. ASSUME NEW p, NEW m, Below(p, m)
      PROVE  Below(p, m)'
  <2>1. CASE p \in DOMAIN templates' /\ templates'[p].market # Base
    <3>1. p \in DOMAIN templates /\ templates'[p] = templates[p]
      BY <1>2, <2>1
    <3>2. templates[p].market = m /\ templates[templates[p].parent].market = Base
      BY <1>7, <2>1, <3>1 DEF Below
    <3>3. templates[p].parent # None
      BY <1>0, <2>1, <3>1 DEF Family, Below
    <3>4. templates[p].parent \in DOMAIN templates'
      BY <1>3, <2>1, <3>3
    <3>5. templates'[templates[p].parent] = templates[templates[p].parent]
      BY <1>2, <3>4
    <3> QED
      BY <1>7, <3>1, <3>2, <3>5 DEF Below
  <2>2. CASE ~ (p \in DOMAIN templates' /\ templates'[p].market # Base)
    BY <1>7, <2>2 DEF Below
  <2> QED
    BY <2>1, <2>2
<1>8. \A p, m : Below(p, m) => Below(p, m)'
  BY <1>7
<1>9. Family'
  <2>1. ASSUME NEW u \in DOMAIN templates'
        PROVE  Below(templates[u].parent, templates[u].market)'
    <3>1. Below(templates[u].parent, templates[u].market) /\ templates'[u] = templates[u]
      BY <1>0, <1>2, <2>1 DEF Family
    <3>2. \E p, m : p = templates[u].parent /\ m = templates[u].market /\ Below(p, m)'
      BY <1>8, <3>1
    <3> QED
      BY <3>1, <3>2 DEF Below
  <2>2. ASSUME NEW b \in Actor, Running(b, "add")'
        PROVE  Below(First(b).row.parent, First(b).row.market)'
    <3>1. Below(First(b).row.parent, First(b).row.market) /\ First(b)' = First(b)
      BY <1>0, <1>6, <2>2 DEF Family
    <3>2. \E p, m : p = First(b).row.parent /\ m = First(b).row.market /\ Below(p, m)'
      BY <1>8, <3>1
    <3> QED
      BY <3>1, <3>2 DEF Below
  <2> QED
    BY <2>1, <2>2 DEF Family
<1>10. \A u, m : MarketTemplates(u, m)' \subseteq MarketTemplates(u, m)
  BY <1>2 DEF MarketTemplates, Children
<1>11. OneEach'
  <2>1. ASSUME NEW u \in DOMAIN templates' \ overlapped', templates'[u].parent = None,
               NEW m \in Market, NEW v \in MarketTemplates(u, m)', NEW w \in MarketTemplates(u, m)'
        PROVE  v = w
    BY <1>0, <1>2, <1>10, <2>1 DEF OneEach
  <2>2. ASSUME NEW b \in Actor, Running(b, "add")',
               First(b)'.row.parent \in DOMAIN templates' \ overlapped',
               templates'[First(b)'.row.parent].parent = None
        PROVE  /\ work'[b].at = First(b)'.row.parent
               /\ MarketTemplates(First(b).row.parent, First(b).row.market)' = {}
    <3>1. /\ Running(b, "add") /\ First(b)' = First(b) /\ work'[b].at = work[b].at
      BY <1>6, <2>2
    <3>2. work[b].at = First(b).row.parent /\ MarketTemplates(First(b).row.parent, First(b).row.market) = {}
      BY <1>0, <1>2, <2>2, <3>1 DEF OneEach
    <3>3. \E p, m : p = First(b).row.parent /\ m = First(b).row.market /\ MarketTemplates(p, m)' = {}
      BY <1>10, <3>2
    <3> QED
      BY <3>1, <3>2, <3>3 DEF MarketTemplates, Children
  <2> QED
    BY <2>1, <2>2 DEF OneEach
<1>12. Frozen'
  <2>1. ASSUME NEW u \in DOMAIN templates' \ overlapped
        PROVE  FrozenAt(u)'
    <3>1. u \in DOMAIN templates /\ templates'[u] = templates[u]
      BY <1>2, <2>1
    <3>2. FrozenAt(u)
      BY <1>0, <2>1, <3>1 DEF Frozen
    <3> QED
      BY <1>0, <3>1, <3>2, FrozenKept
  <2> QED
    BY <2>1 DEF Frozen
<1> QED
  BY <1>1, <1>4, <1>5, <1>9, <1>11, <1>12 DEF IInv

(* A template that comes is nobody's, and its parent is there.             *)
LEMMA AddKeeps ==
  ASSUME IInv, NEW a \in Actor, ~ Idle(a), Moved(a), First(a).op = "add",
         NEW id, id = First(a).id, NEW row, row = First(a).row,
         row.parent \in DOMAIN templates \cup {None}, templates' = With(id, row),
         UNCHANGED <<listings, sent, last, arrived, overlapped, mishaps>>
  PROVE  IInv'
<1>0. TypeOK /\ sent \in Seq(Hash) /\ Programs /\ Exclusive /\ Fresh /\ Family /\ OneEach /\ Frozen
      /\ RowsTyped /\ SentTyped
  BY Untyped DEF IInv
<1>1. Programs' /\ Exclusive'
  BY <1>0, MovedPrograms, MovedExclusive
<1>2. /\ id \in Id /\ row \in Offspring /\ a \in Clients /\ Running(a, "add")
  <2>1. StepData(a)
    BY <1>0, AtData
  <2> QED
    BY <2>1 DEF StepData, Running, First
<1>3. row \in Template /\ row.hash = NoHash
  BY <1>2 DEF Offspring, New
<1>4. /\ id <= last /\ id \notin DOMAIN templates /\ row.parent < id
      /\ \A b \in Actor : ~ Refers(b, id)
  BY <1>0, <1>2 DEF Fresh
<1>5. /\ DOMAIN templates' = DOMAIN templates \cup {id} /\ templates'[id] = row
      /\ \A u \in DOMAIN templates : templates'[u] = templates[u] /\ u # id
  BY <1>4 DEF With
<1>6. Below(row.parent, row.market)
  BY <1>0, <1>2 DEF Family
<1>7. /\ \A u \in DOMAIN templates : templates[u].parent # id /\ templates[u].parent \in DOMAIN templates \cup {None}
      /\ row.parent # id
  <2>1. id # None
    BY <1>2 DEF Id, None
  <2> QED
    BY <1>0, <1>4, <2>1 DEF RowsTyped
<1>8. TypeOK' /\ (sent \in Seq(Hash))'
  <2>1. RowsTyped'
    <3>1. DOMAIN templates \subseteq 1 .. last /\ last \in 0 .. MaxTemplates /\ last' = last
      BY <1>0 DEF RowsTyped
    <3>2. DOMAIN templates' \subseteq 1 .. last
      BY <1>2, <1>4, <1>5, <3>1, TemplatesAssumption DEF Id
    <3>3. ASSUME NEW u \in DOMAIN templates'
          PROVE  /\ templates'[u] \in Template
                 /\ templates'[u].parent \in (DOMAIN templates' \cap 1 .. u - 1) \cup {None}
      <4>1. CASE u # id
        BY <1>0, <1>5, <3>3, <4>1 DEF RowsTyped
      <4>2. CASE u = id
        <5>1. row.parent \in DOMAIN templates => row.parent \in 1 .. id - 1
          BY <1>2, <1>4, <3>1, TemplatesAssumption DEF Id
        <5> QED
          BY <1>3, <1>5, <4>2, <5>1
      <4> QED
        BY <4>1, <4>2
    <3> QED
      BY <1>0, <1>5, <3>1, <3>2, <3>3 DEF RowsTyped
  <2>2. SentTyped'
    BY <1>0 DEF SentTyped
  <2>3. (overlapped \subseteq Id)' /\ (mishaps \in 0 .. MaxMishaps)'
    BY <1>0 DEF TypeOK
  <2> QED
    BY <1>1, <2>1, <2>2, <2>3, Typed
<1>9. Fresh'
  <2>1. \A u \in DOMAIN templates' : u \in DOMAIN templates \/ (Running(a, "add") /\ u = First(a).id)
    BY <1>2, <1>5
  <2> QED
    BY <1>0, <2>1, MovedFresh
<1>10. \A b \in Actor : Running(b, "add")' => /\ Running(b, "add") /\ First(b)' = First(b) /\ b # a
                                              /\ work'[b].at = work[b].at
  BY <1>0, MovedNext
<1>11. ASSUME NEW p, NEW m, Below(p, m), p # id
       PROVE  Below(p, m)'
  <2>1. CASE p \in DOMAIN templates /\ templates[p].market # Base
    <3>1. templates[p].market = m /\ templates[templates[p].parent].market = Base
      BY <1>11, <2>1 DEF Below
    <3>2. templates[p].parent # None
      BY <1>0, <2>1 DEF Family, Below
    <3>3. templates[p].parent \in DOMAIN templates
      BY <1>7, <2>1, <3>2
    <3>4. templates'[templates[p].parent] = templates[templates[p].parent] /\ templates'[p] = templates[p]
      BY <1>5, <2>1, <3>3
    <3> QED
      BY <1>11, <3>1, <3>4 DEF Below
  <2>2. CASE ~ (p \in DOMAIN templates /\ templates[p].market # Base)
    BY <1>5, <1>11, <2>2 DEF Below
  <2> QED
    BY <2>1, <2>2
<1>12. \A p, m : Below(p, m) /\ p # id => Below(p, m)'
  BY <1>11
<1>13. Family'
  <2>1. ASSUME NEW u \in DOMAIN templates'
        PROVE  Below(templates[u].parent, templates[u].market)'
    <3>1. \E p, m : p = templates'[u].parent /\ m = templates'[u].market /\ Below(p, m) /\ p # id
      BY <1>0, <1>5, <1>6, <1>7 DEF Family
    <3>2. \E p, m : p = templates'[u].parent /\ m = templates'[u].market /\ Below(p, m)'
      BY <1>12, <3>1
    <3> QED
      BY <3>2 DEF Below
  <2>2. ASSUME NEW b \in Actor, Running(b, "add")'
        PROVE  Below(First(b).row.parent, First(b).row.market)'
    <3>1. /\ Below(First(b).row.parent, First(b).row.market) /\ First(b)' = First(b)
          /\ Running(b, "add")
      BY <1>0, <1>10, <2>2 DEF Family
    <3>2. First(b).row.parent # id
      BY <1>4, <3>1 DEF Refers
    <3>3. \E p, m : p = First(b).row.parent /\ m = First(b).row.market /\ Below(p, m)'
      BY <1>12, <3>1, <3>2
    <3> QED
      BY <3>1, <3>3 DEF Below
  <2> QED
    BY <2>1, <2>2 DEF Family
<1>14. \A u, m : MarketTemplates(u, m)' =
                   MarketTemplates(u, m) \cup {v \in {id} : row.parent = u /\ row.market = m}
  BY <1>5 DEF MarketTemplates, Children
<1>15. OneEach'
  <2>1. ASSUME NEW u \in DOMAIN templates' \ overlapped', templates'[u].parent = None,
               NEW m \in Market, NEW v \in MarketTemplates(u, m)', NEW w \in MarketTemplates(u, m)'
        PROVE  v = w
    <3>1. CASE u = id
      <4>1. MarketTemplates(u, m) = {}
        BY <1>7, <3>1 DEF MarketTemplates, Children
      <4> QED
        BY <1>14, <2>1, <4>1
    <3>2. CASE u # id
      <4>1. u \in DOMAIN templates \ overlapped /\ templates[u].parent = None
        BY <1>5, <2>1, <3>2
      <4>2. row.parent = u /\ row.market = m => MarketTemplates(u, m) = {}
        BY <1>0, <1>2, <4>1 DEF OneEach
      <4>3. \A x, y \in MarketTemplates(u, m) : x = y
        BY <1>0, <4>1 DEF OneEach
      <4> QED
        BY <1>14, <2>1, <4>2, <4>3
    <3> QED
      BY <3>1, <3>2
  <2>2. ASSUME NEW b \in Actor, Running(b, "add")',
               First(b)'.row.parent \in DOMAIN templates' \ overlapped',
               templates'[First(b)'.row.parent].parent = None
        PROVE  /\ work'[b].at = First(b)'.row.parent
               /\ MarketTemplates(First(b).row.parent, First(b).row.market)' = {}
    <3> DEFINE p == First(b).row.parent
               m == First(b).row.market
    <3>1. /\ Running(b, "add") /\ First(b)' = First(b) /\ work'[b].at = work[b].at /\ b # a
      BY <1>10, <2>2
    <3>2. p # id
      BY <1>4, <3>1 DEF Refers
    <3>3. p \in DOMAIN templates \ overlapped /\ templates[p].parent = None
      BY <1>5, <2>2, <3>1, <3>2
    <3>4. work[b].at = p /\ MarketTemplates(p, m) = {}
      BY <1>0, <3>1, <3>3 DEF OneEach
    <3>5. row.parent # p
      <4>1. SUFFICES ASSUME row.parent = p
                     PROVE  FALSE
        OBVIOUS
      <4>2. work[a].at = p
        BY <1>0, <1>2, <3>3, <4>1 DEF OneEach
      <4>3. ~ Idle(b)
        BY <3>1 DEF Running
      <4>4. p \in Id
        BY <1>0, <3>3, IdsThere
      <4> HIDE DEF p
      <4> QED
        BY <1>0, <3>1, <3>3, <3>4, <4>2, <4>3, <4>4, Alone
    <3>6. \E q, n : q = p /\ n = m /\ MarketTemplates(q, n)' = {}
      BY <1>14, <3>4, <3>5
    <3> QED
      BY <3>1, <3>4, <3>6 DEF MarketTemplates, Children
  <2> QED
    BY <2>1, <2>2 DEF OneEach
<1>16. Frozen'
  <2>1. ASSUME NEW u \in DOMAIN templates \ overlapped
        PROVE  FrozenAt(u)'
    <3>1. templates'[u] = templates[u]
      BY <1>5, <2>1
    <3>2. FrozenAt(u)
      BY <1>0, <2>1 DEF Frozen
    <3> QED
      BY <1>0, <3>1, <3>2, FrozenKept
  <2>2. FrozenAt(id)'
    <3>1. ASSUME NEW b \in Actor, (~ Idle(b))'
          PROVE  Agrees(b, id)'
      <4>1. ~ Refers(b, id)'
        <5>1. \A u : Refers(b, u)' => Refers(b, u) \/ u \in DOMAIN templates
          BY <1>0, MovedRefers
        <5>2. Refers(b, id)' => Refers(b, id) \/ id \in DOMAIN templates
          BY <5>1 DEF Refers
        <5> QED
          BY <1>4, <5>2
      <4>2. /\ First(b)'.op \in {"edit", "unprice", "price", "address", "send", "hash"} => First(b)'.id # id
            /\ First(b)'.op = "relate" => First(b)'.template # id
        BY <3>1, <4>1 DEF Refers, Running, First
      <4> QED
        BY <4>2 DEF Agrees
    <3>2. \A n \in DOMAIN listings : listings[n] # id
      BY <1>0, <1>2, <1>4 DEF RowsTyped, Id, None
    <3> QED
      BY <1>3, <1>5, <3>1, <3>2 DEF FrozenAt
  <2> QED
    BY <1>5, <2>1, <2>2 DEF Frozen
<1> QED
  BY <1>1, <1>8, <1>9, <1>13, <1>15, <1>16 DEF IInv

(* Every step that an actor takes: the row that it writes keeps parent and *)
(* market, and agrees with what was posted.                                *)
LEMMA ProceedKeeps ==
  ASSUME IInv, NEW a \in Actor, Proceed(a)
  PROVE  IInv'
<1> DEFINE s == First(a)
<1> SUFFICES ASSUME NEW t, t = s.id
             PROVE  IInv'
  OBVIOUS
<1> DEFINE old == templates[t]
<1>0. TypeOK /\ sent \in Seq(Hash) /\ Programs /\ Exclusive /\ Fresh /\ Family /\ OneEach /\ Frozen
      /\ RowsTyped /\ SentTyped
  BY Untyped DEF IInv
<1>1. ~ Idle(a) /\ Moved(a) /\ StepData(a)
  BY <1>0, Moves, AtData
<1>2. UNCHANGED <<last, arrived, overlapped, mishaps>> /\ mishaps \in 0 .. MaxMishaps
  BY <1>0 DEF Proceed, TypeOK
<1>3. CASE UNCHANGED <<templates, listings, sent>>
  <2>1. SentTyped'
    BY <1>0, <1>3 DEF SentTyped
  <2> QED
    BY <1>1, <1>2, <1>3, <2>1, QuietKeeps
<1>4. ASSUME t \in DOMAIN templates
      PROVE  old \in Template /\ (t \notin overlapped => FrozenAt(t))
  BY <1>0, <1>4 DEF TypeOK, Frozen
<1>5. ASSUME NEW row \in Template, t \in DOMAIN templates, templates' = With(t, row),
             UNCHANGED <<listings, sent>>, s.op \in {"fill", "edit", "unprice", "price", "address"},
             row.parent = old.parent, row.market = old.market, row.hash = old.hash,
             s.op \in {"edit", "unprice", "price", "address"} \/ HashOf(t, row) = HashOf(t, old)
      PROVE  IInv'
  <2>1. templates'[t] = row
    BY <1>5 DEF With
  <2>2. ASSUME t \notin overlapped
        PROVE  FrozenAt(t)'
    <3>1. CASE s.op \in {"edit", "unprice", "price", "address"}
      BY <1>0, <1>1, <1>2, <1>4, <1>5, <2>1, <2>2, <3>1, FrozenEdited
    <3>2. CASE HashOf(t, row) = HashOf(t, old)
      BY <1>0, <1>1, <1>2, <1>4, <1>5, <2>1, <2>2, <3>2, FrozenKept
    <3> QED
      BY <1>5, <3>1, <3>2
  <2> HIDE DEF s, old
  <2>3. row.parent = templates[t].parent /\ row.market = templates[t].market
    BY <1>5 DEF old
  <2> QED
    BY <1>1, <1>2, <1>5, <2>2, <2>3, ChangeKeeps
<1>6. CASE AddRow(a)
  <2>1. s.op = "add" /\ s.row \in Offspring
    BY <1>1, <1>6 DEF AddRow, Running, First, StepData
  <2>2. CASE s.row.parent \in DOMAIN templates \cup {None}
    BY <1>1, <1>2, <1>6, <2>1, <2>2, AddKeeps DEF AddRow, Change, First
  <2>3. CASE s.row.parent \notin DOMAIN templates \cup {None}
    BY <1>3, <1>6, <2>3 DEF AddRow, Change, First
  <2> QED
    BY <2>2, <2>3
<1>7. CASE FillRow(a)
  <2> DEFINE row == [old EXCEPT !.filled = TRUE, !.category = s.category, !.price = s.price]
  <2>1. s.op = "fill" /\ s.category \in BOOLEAN /\ s.price \in BOOLEAN
    BY <1>1, <1>7 DEF FillRow, Running, First, StepData
  <2>2. CASE t \in DOMAIN templates
    <3>1. old \in Template
      BY <1>4, <2>2
    <3>2. /\ row \in Template /\ row.parent = old.parent /\ row.market = old.market
          /\ row.hash = old.hash /\ HashOf(t, row) = HashOf(t, old)
      <4> HIDE DEF s, old
      <4> QED
        BY <2>1, <3>1 DEF Template, HashOf
    <3>3. templates' = With(t, row) /\ UNCHANGED <<listings, sent>>
      BY <1>7, <2>2 DEF FillRow, Change, First
    <3> QED
      BY <1>5, <2>1, <2>2, <3>2, <3>3
  <2>3. CASE t \notin DOMAIN templates
    BY <1>3, <1>7, <2>3 DEF FillRow, Change, First
  <2> QED
    BY <2>2, <2>3
<1>8. CASE EditRow(a)
  <2>1. s.op = "edit"
    BY <1>8 DEF EditRow, Running, First
  <2>2. CASE t \in DOMAIN templates
    <3> DEFINE changed == [old EXCEPT !.content = @ + 1]
               labelled == [old EXCEPT !.category = TRUE]
    <3>1. old \in Template
      BY <1>4, <2>2
    <3>2. /\ changed \in Template /\ changed.parent = old.parent /\ changed.market = old.market
          /\ changed.hash = old.hash
          /\ labelled \in Template /\ labelled.parent = old.parent /\ labelled.market = old.market
          /\ labelled.hash = old.hash
      <4> DEFINE n == old.content + 1
      <4>1. n \in Nat
        BY <3>1 DEF Template
      <4> HIDE DEF s, old, n
      <4>2. LET r == [old EXCEPT !.content = n]
            IN r \in Template /\ r.parent = old.parent /\ r.market = old.market /\ r.hash = old.hash
        BY <3>1, <4>1 DEF Template
      <4>3. LET r == [old EXCEPT !.category = TRUE]
            IN r \in Template /\ r.parent = old.parent /\ r.market = old.market /\ r.hash = old.hash
        BY <3>1 DEF Template
      <4> QED
        BY <4>2, <4>3 DEF n
    <3>3. templates' = With(t, changed) \/ templates' = With(t, labelled)
      BY <1>8, <2>2 DEF EditRow, Change, First
    <3>4. UNCHANGED <<listings, sent>>
      BY <1>8 DEF EditRow, Change
    <3> QED
      BY <1>5, <2>1, <2>2, <3>2, <3>3, <3>4
  <2>3. CASE t \notin DOMAIN templates
    BY <1>3, <1>8, <2>3 DEF EditRow, Change, First
  <2> QED
    BY <2>2, <2>3
<1>9. CASE DropPrice(a)
  <2> DEFINE row == [old EXCEPT !.price = FALSE, !.address = None]
             there == t \in DOMAIN templates /\ old.price
  <2>1. s.op = "unprice"
    BY <1>9 DEF DropPrice, Running, First
  <2>2. CASE there
    <3>1. old \in Template
      BY <1>4, <2>2
    <3>2. row \in Template /\ row.parent = old.parent /\ row.market = old.market /\ row.hash = old.hash
      <4> HIDE DEF s, old
      <4> QED
        BY <3>1 DEF Template, None
    <3>3. templates' = With(t, row) /\ UNCHANGED <<listings, sent>>
      BY <1>9, <2>2 DEF DropPrice, Change, First
    <3> QED
      BY <1>5, <2>1, <2>2, <3>2, <3>3
  <2>3. CASE ~ there
    BY <1>3, <1>9, <2>3 DEF DropPrice, Change, First
  <2> QED
    BY <2>2, <2>3
<1>10. CASE CreatePrice(a)
  <2> DEFINE new == NewAddress(t)
             plain == [old EXCEPT !.content = @ + 1, !.price = TRUE]
             named == [old EXCEPT !.content = @ + 1, !.price = TRUE, !.address = new]
  <2>1. s.op = "price"
    BY <1>10 DEF CreatePrice, Running, First
  <2>2. CASE t \in DOMAIN templates
    <3>1. old \in Template
      BY <1>4, <2>2
    <3>2. \A row \in {plain, named} : /\ row \in Template /\ row.parent = old.parent
                                      /\ row.market = old.market /\ row.hash = old.hash
      <4> DEFINE n == old.content + 1
      <4>1. n \in Nat /\ new \in Nat
        BY <1>0, <3>1, FreshAddress DEF Template
      <4> HIDE DEF s, old, n, new
      <4>2. \A r \in {[old EXCEPT !.content = n, !.price = TRUE],
                      [old EXCEPT !.content = n, !.price = TRUE, !.address = new]} :
              r \in Template /\ r.parent = old.parent /\ r.market = old.market /\ r.hash = old.hash
        BY <3>1, <4>1 DEF Template
      <4> QED
        BY <4>2 DEF n
    <3>3. UNCHANGED <<listings, sent>>
      BY <1>10, <2>2 DEF CreatePrice, Change
    <3>4. templates' = With(t, plain) \/ templates' = With(t, named)
      BY <1>10, <2>2 DEF CreatePrice, Change, First
    <3>5. PICK row \in {plain, named} : templates' = With(t, row)
      BY <3>4
    <3> HIDE DEF plain, named
    <3> QED
      BY <1>5, <2>1, <2>2, <3>2, <3>3, <3>5
  <2>3. CASE t \notin DOMAIN templates
    BY <1>3, <1>10, <2>3 DEF CreatePrice, Change, First
  <2> QED
    BY <2>2, <2>3
<1>11. CASE UpdatePaymentAddress(a)
  <2> DEFINE new == NewAddress(t)
             row == [old EXCEPT !.address = new]
             there == t \in DOMAIN templates /\ old.price
  <2>1. s.op = "address"
    BY <1>11 DEF UpdatePaymentAddress, Running, First
  <2>2. CASE there
    <3>1. old \in Template
      BY <1>4, <2>2
    <3>2. row \in Template /\ row.parent = old.parent /\ row.market = old.market /\ row.hash = old.hash
      <4>1. new \in Nat \ {None}
        BY <1>0, FreshAddress
      <4> HIDE DEF s, old, new
      <4> QED
        BY <3>1, <4>1 DEF Template
    <3>3. templates' = With(t, row) /\ UNCHANGED <<listings, sent>>
      BY <1>11, <2>2 DEF UpdatePaymentAddress, First
    <3> QED
      BY <1>5, <2>1, <2>2, <3>2, <3>3
  <2>3. CASE ~ there
    BY <1>3, <1>11, <2>3 DEF UpdatePaymentAddress, First
  <2> QED
    BY <2>2, <2>3
<1>12. CASE SendListing(a)
  <2>1. s.op = "send" /\ s.row \in Complete /\ t \in Id
    BY <1>1, <1>12 DEF SendListing, Running, First, StepData
  <2>2. CASE UNCHANGED sent
    BY <1>3, <1>12, <2>2 DEF SendListing, rows
  <2>3. CASE Len(sent) < MaxPosts /\ sent' = Append(sent, HashOf(t, s.row))
    <3>1. HashOf(t, s.row) \in Hash
      BY <2>1 DEF HashOf, Hash, Complete, Template
    <3>2. sent' \in Seq(Hash) /\ Len(sent') = Len(sent) + 1 /\ Len(sent) \in Nat
      BY <1>0, <2>3, <3>1
    <3>3. DOMAIN sent \subseteq DOMAIN sent' /\ \A n \in DOMAIN sent : sent'[n] = sent[n]
      <4> HIDE DEF s
      <4> QED
        BY <1>0, <2>3, <3>1
    <3>4. SentTyped'
      BY <2>3, <3>2, TemplatesAssumption DEF SentTyped
    <3>5. UNCHANGED <<templates, listings>>
      BY <1>12 DEF SendListing, rows
    <3> QED
      BY <1>1, <1>2, <3>3, <3>4, <3>5, QuietKeeps
  <2> QED
    BY <1>12, <2>2, <2>3 DEF SendListing, First
<1>13. CASE UpdateHash(a)
  <2> DEFINE row == [old EXCEPT !.hash = HashOf(t, s.row)]
  <2>1. s.op = "hash" /\ s.row \in Complete /\ t \in Id
    BY <1>1, <1>13 DEF UpdateHash, Running, First, StepData
  <2>2. CASE t \in DOMAIN templates
    <3>1. old \in Template
      BY <1>4, <2>2
    <3>2. HashOf(t, s.row) \in Hash
      BY <2>1 DEF HashOf, Hash, Complete, Template
    <3>3. /\ row \in Template /\ row.parent = old.parent /\ row.market = old.market
          /\ row.hash = HashOf(t, s.row) /\ HashOf(t, row) = HashOf(t, old)
      <4> DEFINE h == HashOf(t, s.row)
      <4>1. h \in Hash
        BY <3>2
      <4>2. \A u : HashOf(u, [old EXCEPT !.hash = h]) = HashOf(u, old)
        <5> HIDE DEF s, old, h
        <5> QED
          BY <3>1 DEF Template, HashOf
      <4>3. LET r == [old EXCEPT !.hash = h]
            IN r \in Template /\ r.parent = old.parent /\ r.market = old.market /\ r.hash = h
        <5> HIDE DEF s, old, h
        <5> QED
          BY <3>1, <4>1 DEF Template
      <4> QED
        BY <4>2, <4>3
    <3>4. templates' = With(t, row) /\ UNCHANGED <<listings, sent>>
      BY <1>13, <2>2 DEF UpdateHash, Change, First
    <3> HIDE DEF row
    <3>5. templates'[t] = row
      BY <3>4 DEF With
    <3>6. ASSUME t \notin overlapped
          PROVE  FrozenAt(t)'
      BY <1>0, <1>1, <1>2, <1>4, <2>1, <2>2, <3>3, <3>4, <3>5, <3>6, FrozenHashed
    <3> HIDE DEF s, old
    <3>7. row.parent = templates[t].parent /\ row.market = templates[t].market
      BY <3>3 DEF old
    <3> QED
      BY <1>1, <1>2, <2>2, <3>3, <3>4, <3>6, <3>7, ChangeKeeps
  <2>3. CASE t \notin DOMAIN templates
    BY <1>3, <1>13, <2>3 DEF UpdateHash, Change, First
  <2> QED
    BY <2>2, <2>3
<1>14. CASE LookForListings(a) \/ FindTemplate(a)
  BY <1>3, <1>14 DEF LookForListings, FindTemplate, rows
<1>15. CASE DeleteRow(a)
  <2>1. s.op = "delete" /\ t \in Id
    BY <1>1, <1>15 DEF DeleteRow, Running, First, StepData
  <2>2. CASE Unlisted(Line(t))
    <3>1. /\ templates' = [u \in DOMAIN templates \ Line(t) |-> templates[u]]
          /\ UNCHANGED <<listings, sent>>
      BY <1>15, <2>2 DEF DeleteRow, First
    <3>2. s.op # "add"
      BY <2>1
    <3> QED
      BY <1>1, <1>2, <2>1, <2>2, <3>1, <3>2, DeleteKeeps
  <2>3. CASE ~ Unlisted(Line(t))
    BY <1>3, <1>15, <2>3 DEF DeleteRow, First
  <2> QED
    BY <2>2, <2>3
<1>16. CASE RelateListing(a)
  <2> DEFINE there == s.template \in DOMAIN templates /\ s.listing \in DOMAIN listings
  <2>1. s.op = "relate"
    BY <1>16 DEF RelateListing, Running, First
  <2>2. CASE there
    <3>1. /\ listings' = [listings EXCEPT ![s.listing] = s.template]
          /\ UNCHANGED <<templates, sent>>
      BY <1>16, <2>2 DEF RelateListing, First
    <3> QED
      BY <1>1, <1>2, <2>1, <2>2, <3>1, RelateKeeps
  <2>3. CASE ~ there
    BY <1>3, <1>16, <2>3 DEF RelateListing, First
  <2> QED
    BY <2>2, <2>3
<1> QED
  BY <1>6, <1>7, <1>8, <1>9, <1>10, <1>11, <1>12, <1>13, <1>14, <1>15, <1>16 DEF Proceed

(* A program that is begun, and what it leaves to the others.              *)
LEMMA Begun ==
  ASSUME TypeOK, Programs, Exclusive, NEW c \in Clients, NEW t \in Id, NEW steps,
         Making(steps) \/ AtTemplate(t, steps), Begin(c, t, steps)
  PROVE  /\ Programs' /\ Exclusive' /\ overlapped \subseteq overlapped' /\ overlapped' \subseteq Id
         /\ \A b \in Actor \ {c} : /\ work'[b] = work[b] /\ Idle(b)' = Idle(b) /\ First(b)' = First(b)
         /\ work'[c] = [at |-> t, steps |-> steps] /\ First(c)' = Head(steps) /\ c \in Actor
<1>1. c \in Actor /\ DOMAIN work = Actor /\ Clients \subseteq Actor
  BY DEF Actor, Programs
<1>2. work' = [work EXCEPT ![c] = [at |-> t, steps |-> steps]] /\ UNCHANGED <<arrived, sent>>
  BY DEF Begin
<1>3. /\ DOMAIN work' = Actor /\ work'[c] = [at |-> t, steps |-> steps]
      /\ \A b \in Actor \ {c} : work'[b] = work[b]
  BY <1>1, <1>2
<1>4. \A b \in Actor \ {c} : Idle(b)' = Idle(b) /\ First(b)' = First(b)
  BY <1>3 DEF Idle, First
<1>5. First(c)' = Head(steps)
  BY <1>3 DEF First
<1>6. Programs'
  <2>1. \A p : Relating(p)' = Relating(p)
    BY <1>2 DEF Relating
  <2>2. ASSUME NEW b \in Actor \ {c}
        PROVE  \/ work'[b] = Nothing
               \/ b \in Clients /\ \E u \in Id : \E p : /\ Making(p) \/ AtTemplate(u, p)
                                                      /\ work'[b] = [at |-> u, steps |-> p]
               \/ b = "inbox" /\ \E p : Relating(p) /\ work'[b] = [at |-> None, steps |-> p]
    BY <1>3, <2>2 DEF Programs
  <2> QED
    BY <1>3, <2>1, <2>2 DEF Programs
<1>7. overlapped' = overlapped \cup {u \in {t} : \E b \in Clients \ {c} : ~ Idle(b) /\ work[b].at = u}
  BY DEF Begin
<1>8. overlapped \subseteq overlapped' /\ overlapped' \subseteq Id
  BY <1>7 DEF TypeOK
<1>9. Exclusive'
  <2>1. ASSUME NEW b \in Clients \ {c}, (~ Idle(b))', work'[b].at = t
        PROVE  t \in overlapped'
    BY <1>1, <1>3, <1>4, <1>7, <2>1
  <2>2. ASSUME NEW a \in Clients, NEW b \in Clients \ {a}, (~ Idle(a))', (~ Idle(b))', work'[a].at = work'[b].at
        PROVE  work'[a].at \in overlapped'
    <3>1. CASE a = c
      BY <1>3, <2>1, <2>2, <3>1
    <3>2. CASE b = c
      BY <1>3, <2>1, <2>2, <3>2
    <3>3. CASE a # c /\ b # c
      BY <1>1, <1>3, <1>4, <1>8, <2>2, <3>3 DEF Exclusive
    <3> QED
      BY <3>1, <3>2, <3>3
  <2> QED
    BY <2>2 DEF Exclusive
<1> QED
  BY <1>1, <1>3, <1>4, <1>5, <1>6, <1>8, <1>9

(* A program at a template that is there: a template that is to be edited  *)
(* was not posted, one that is to be sent is as it was loaded.             *)
LEMMA BeginAtKeeps ==
  ASSUME IInv, NEW c \in Clients, NEW t \in DOMAIN templates, NEW steps, AtTemplate(t, steps),
         Begin(c, t, steps), last' = last,
         Head(steps).op \notin {"add", "relate"}, Head(steps).id = t,
         /\ Head(steps).op \in {"edit", "unprice", "price", "address"} =>
              (t \notin overlapped => templates[t].hash = NoHash)
         /\ Head(steps).op \in {"send", "hash"} => Head(steps).row = templates[t]
  PROVE  IInv'
<1>0. TypeOK /\ sent \in Seq(Hash) /\ Programs /\ Exclusive /\ Fresh /\ Family /\ OneEach /\ Frozen
      /\ RowsTyped /\ SentTyped
  BY Untyped DEF IInv
<1>1. t \in Id /\ DOMAIN templates \subseteq Id
  BY <1>0, IdsThere
<1>2. /\ Programs' /\ Exclusive' /\ overlapped \subseteq overlapped' /\ overlapped' \subseteq Id
      /\ \A b \in Actor \ {c} : /\ work'[b] = work[b] /\ Idle(b)' = Idle(b) /\ First(b)' = First(b)
      /\ First(c)' = Head(steps) /\ c \in Actor
  BY <1>0, <1>1, Begun
<1>3. UNCHANGED <<templates, listings, sent, arrived, mishaps>>
  BY DEF Begin, rows
<1>4. TypeOK' /\ (sent \in Seq(Hash))'
  <2>1. RowsTyped' /\ SentTyped'
    BY <1>0, <1>3 DEF RowsTyped, SentTyped
  <2>2. (overlapped \subseteq Id)' /\ (mishaps \in 0 .. MaxMishaps)'
    BY <1>0, <1>2, <1>3 DEF TypeOK
  <2> QED
    BY <1>2, <2>1, <2>2, Typed
<1>5. \A b \in Actor : Running(b, "add")' => b # c /\ Running(b, "add") /\ First(b)' = First(b)
                                             /\ work'[b].at = work[b].at
  BY <1>2 DEF Running, First
<1>6. ASSUME NEW b \in Actor, NEW u, Refers(b, u)'
      PROVE  Refers(b, u) \/ u \in DOMAIN templates
  <2>1. CASE b = c
    BY <1>2, <1>6, <2>1 DEF Refers, Running, First
  <2>2. CASE b # c
    BY <1>2, <1>6, <2>2 DEF Refers, Running, First
  <2> QED
    BY <2>1, <2>2
<1>7. Fresh'
  <2>1. ASSUME NEW b \in Actor, NEW u \in Id, Refers(b, u)'
        PROVE  u <= last
    <3>1. Refers(b, u) \/ u \in DOMAIN templates
      BY <1>6, <2>1
    <3> QED
      BY <1>0, <3>1 DEF Fresh, RowsTyped
  <2>2. ASSUME NEW b \in Actor, Running(b, "add")'
        PROVE  /\ First(b)'.id <= last /\ First(b)'.id \notin DOMAIN templates
               /\ First(b)'.row.parent < First(b)'.id
               /\ \A d \in Actor : ~ Refers(d, First(b).id)'
               /\ \A d \in Actor \ {b} : Running(d, "add")' => First(d)'.id # First(b)'.id
    <3> DEFINE id == First(b).id
    <3>1. Running(b, "add") /\ First(b)' = First(b)
      BY <1>5, <2>2
    <3>2. /\ id <= last /\ id \notin DOMAIN templates
          /\ First(b).row.parent < id
          /\ \A d \in Actor : ~ Refers(d, id)
          /\ \A d \in Actor \ {b} : Running(d, "add") => First(d).id # id
      BY <1>0, <3>1 DEF Fresh
    <3>3. ASSUME NEW d \in Actor, Refers(d, First(b).id)'
          PROVE  FALSE
      <4>1. \A u : Refers(d, u)' => Refers(d, u) \/ u \in DOMAIN templates
        BY <1>6
      <4>2. Refers(d, id) \/ id \in DOMAIN templates
        BY <3>1, <3>3, <4>1 DEF Refers
      <4> QED
        BY <3>2, <4>2
    <3>4. ASSUME NEW d \in Actor \ {b}, Running(d, "add")'
          PROVE  First(d)'.id # id
      BY <1>5, <3>2, <3>4
    <3> QED
      BY <3>1, <3>2, <3>3, <3>4
  <2> QED
    BY <1>3, <2>1, <2>2 DEF Fresh
<1>8. \A p, m : Below(p, m)' = Below(p, m) /\ MarketTemplates(p, m)' = MarketTemplates(p, m)
  BY <1>3 DEF Below, MarketTemplates, Children
<1>9. Family'
  <2>1. ASSUME NEW b \in Actor, Running(b, "add")'
        PROVE  Below(First(b).row.parent, First(b).row.market)'
    BY <1>0, <1>3, <1>5, <2>1 DEF Family, Below
  <2> QED
    BY <1>0, <1>3, <2>1 DEF Family, Below
<1>10. OneEach'
  <2>1. ASSUME NEW b \in Actor, Running(b, "add")',
               First(b)'.row.parent \in DOMAIN templates \ overlapped',
               templates[First(b)'.row.parent].parent = None
        PROVE  /\ work'[b].at = First(b)'.row.parent
               /\ MarketTemplates(First(b).row.parent, First(b).row.market)' = {}
    BY <1>0, <1>2, <1>3, <1>5, <2>1 DEF OneEach, MarketTemplates, Children
  <2>2. ASSUME NEW u \in DOMAIN templates \ overlapped', templates[u].parent = None,
               NEW m \in Market, NEW v \in MarketTemplates(u, m)', NEW w \in MarketTemplates(u, m)'
        PROVE  v = w
    BY <1>0, <1>2, <1>8, <2>2 DEF OneEach
  <2> QED
    BY <1>3, <2>1, <2>2 DEF OneEach
<1>11. Frozen'
  <2>1. ASSUME NEW u \in DOMAIN templates \ overlapped'
        PROVE  FrozenAt(u)'
    <3>1. FrozenAt(u)
      BY <1>0, <1>2, <2>1 DEF Frozen
    <3>2. ASSUME NEW b \in Actor, (~ Idle(b))'
          PROVE  Agrees(b, u)'
      <4>1. CASE b # c
        BY <1>2, <1>3, <3>1, <3>2, <4>1 DEF FrozenAt, Agrees, HashOf
      <4>2. CASE b = c
        BY <1>2, <1>3, <2>1, <4>2 DEF Agrees, HashOf
      <4> QED
        BY <4>1, <4>2
    <3> QED
      BY <1>3, <3>1, <3>2 DEF FrozenAt, HashOf
  <2> QED
    BY <1>3, <2>1 DEF Frozen
<1> QED
  BY <1>2, <1>4, <1>7, <1>9, <1>10, <1>11 DEF IInv

(* A program that makes the next template.                                 *)
LEMMA BeginAddKeeps ==
  ASSUME IInv, NEW c \in Clients, NEW t \in Id, NEW steps, Making(steps), Begin(c, t, steps),
         NEW parent \in DOMAIN templates \cup {None}, NEW m \in Market \cup {Base},
         Head(steps) = Add(last + 1, New(parent, m)), last < MaxTemplates, last' = last + 1,
         Below(parent, m),
         parent \in DOMAIN templates /\ templates[parent].parent = None =>
           t = parent /\ MarketTemplates(parent, m) = {}
  PROVE  IInv'
<1> DEFINE id == last + 1
           row == New(parent, m)
<1>0. TypeOK /\ sent \in Seq(Hash) /\ Programs /\ Exclusive /\ Fresh /\ Family /\ OneEach /\ Frozen
      /\ RowsTyped /\ SentTyped
  BY Untyped DEF IInv
<1>1. /\ Programs' /\ Exclusive' /\ overlapped \subseteq overlapped' /\ overlapped' \subseteq Id
      /\ \A b \in Actor \ {c} : /\ work'[b] = work[b] /\ Idle(b)' = Idle(b) /\ First(b)' = First(b)
      /\ work'[c] = [at |-> t, steps |-> steps] /\ First(c)' = Add(id, row) /\ c \in Actor
  BY <1>0, Begun
<1>2. UNCHANGED <<templates, listings, sent, arrived, mishaps>>
  BY DEF Begin, rows
<1>3. /\ last \in Nat /\ DOMAIN templates \subseteq 1 .. last /\ last < id /\ id \in Id
      /\ id \notin DOMAIN templates /\ parent < id /\ parent <= last
  BY <1>0, TemplatesAssumption DEF RowsTyped, Id, None
<1>4. First(c)'.op = "add" /\ First(c)'.id = id /\ First(c)'.row.parent = parent /\ First(c)'.row.market = m
  BY <1>1 DEF Add, New
<1>5. TypeOK' /\ (sent \in Seq(Hash))'
  <2>1. RowsTyped' /\ SentTyped'
    BY <1>0, <1>2, <1>3, TemplatesAssumption DEF RowsTyped, SentTyped
  <2>2. (overlapped \subseteq Id)' /\ (mishaps \in 0 .. MaxMishaps)'
    BY <1>0, <1>1, <1>2 DEF TypeOK
  <2> QED
    BY <1>1, <2>1, <2>2, Typed
<1>6. \A b \in Actor \ {c} : Running(b, "add")' => Running(b, "add") /\ First(b)' = First(b)
                                                   /\ work'[b].at = work[b].at
  BY <1>1 DEF Running, First
<1>7. ASSUME NEW b \in Actor, NEW u, Refers(b, u)'
      PROVE  Refers(b, u) \/ u = parent
  <2>1. CASE b = c
    <3> HIDE DEF id, row
    <3> QED
      BY <1>4, <1>7, <2>1 DEF Refers, Running, First
  <2>2. CASE b # c
    BY <1>1, <1>7, <2>2 DEF Refers, Running, First
  <2> QED
    BY <2>1, <2>2
<1>8. ASSUME NEW b \in Actor, NEW u \in Id, Refers(b, u)'
      PROVE  u <= last
  BY <1>0, <1>3, <1>7, <1>8 DEF Fresh
<1>9. Fresh'
  <2>1. ASSUME NEW b \in Actor, Running(b, "add")', b # c
        PROVE  /\ First(b)'.id <= last' /\ First(b)'.id \notin DOMAIN templates
               /\ First(b)'.row.parent < First(b)'.id
               /\ \A d \in Actor : ~ Refers(d, First(b).id)'
               /\ \A d \in Actor \ {b} : Running(d, "add")' => First(d)'.id # First(b)'.id
    <3> DEFINE k == First(b).id
    <3>1. Running(b, "add") /\ First(b)' = First(b)
      BY <1>6, <2>1
    <3>2. /\ k <= last /\ k \notin DOMAIN templates
          /\ First(b).row.parent < k
          /\ \A d \in Actor : ~ Refers(d, k)
          /\ \A d \in Actor \ {b} : Running(d, "add") => First(d).id # k
      BY <1>0, <3>1 DEF Fresh
    <3>3. k \in Id
      <4>1. ~ Idle(b) /\ First(b).op = "add"
        BY <3>1 DEF Running, First
      <4>2. StepData(b)
        BY <1>0, <4>1, AtData
      <4> QED
        BY <4>1, <4>2 DEF StepData
    <3>4. k # parent
      BY <3>2, <3>3 DEF Id, None
    <3>5. ASSUME NEW d \in Actor, Refers(d, First(b).id)'
          PROVE  FALSE
      <4>1. \A u : Refers(d, u)' => Refers(d, u) \/ u = parent
        BY <1>7
      <4>2. Refers(d, k) \/ k = parent
        BY <3>1, <3>5, <4>1 DEF Refers
      <4> QED
        BY <3>2, <3>4, <4>2
    <3>6. ASSUME NEW d \in Actor \ {b}, Running(d, "add")'
          PROVE  First(d)'.id # k
      <4>1. CASE d = c
        BY <1>3, <1>4, <3>2, <3>3, <4>1 DEF Id
      <4>2. CASE d # c
        BY <1>6, <3>2, <3>6, <4>2
      <4> QED
        BY <4>1, <4>2
    <3>7. k <= last'
      BY <1>3, <3>2, <3>3 DEF Id
    <3> QED
      BY <3>1, <3>2, <3>5, <3>6, <3>7
  <2>2. ASSUME NEW d \in Actor, Refers(d, First(c).id)'
        PROVE  FALSE
    <3>1. First(c)'.id = id
      BY <1>4
    <3>2. \A u : Refers(d, u)' /\ u \in Id => u <= last
      BY <1>8
    <3>3. id <= last
      BY <1>3, <2>2, <3>1, <3>2 DEF Refers
    <3> QED
      BY <1>3, <3>3
  <2>3. ASSUME NEW d \in Actor \ {c}, Running(d, "add")'
        PROVE  First(d)'.id # id
    <3>1. First(d)' = First(d) /\ First(d).id <= last
      BY <1>0, <1>6, <2>3 DEF Fresh
    <3> QED
      BY <1>3, <3>1
  <2>4. ASSUME NEW b \in Actor, NEW u \in Id, Refers(b, u)'
        PROVE  u <= last'
    <3>1. u <= last
      BY <1>8, <2>4
    <3> QED
      BY <1>3, <3>1 DEF Id
  <2>5. /\ First(c)'.id <= last' /\ First(c)'.id \notin DOMAIN templates
        /\ First(c)'.row.parent < First(c)'.id
    BY <1>3, <1>4
  <2>6. ASSUME NEW b \in Actor, Running(b, "add")'
        PROVE  /\ First(b)'.id <= last' /\ First(b)'.id \notin DOMAIN templates'
               /\ First(b)'.row.parent < First(b)'.id
               /\ \A d \in Actor : ~ Refers(d, First(b).id)'
               /\ \A d \in Actor \ {b} : Running(d, "add")' => First(d)'.id # First(b)'.id
    <3>1. CASE b = c
      BY <1>2, <1>4, <2>2, <2>3, <2>5, <3>1
    <3>2. CASE b # c
      BY <1>2, <2>1, <2>6, <3>2
    <3> QED
      BY <3>1, <3>2
  <2> QED
    BY <2>4, <2>6 DEF Fresh
<1>10. \A p, n : Below(p, n)' = Below(p, n) /\ MarketTemplates(p, n)' = MarketTemplates(p, n)
  BY <1>2 DEF Below, MarketTemplates, Children
<1>11. Family'
  <2>1. ASSUME NEW b \in Actor, Running(b, "add")'
        PROVE  Below(First(b).row.parent, First(b).row.market)'
    <3>1. CASE b = c
      BY <1>2, <1>4, <3>1 DEF Below
    <3>2. CASE b # c
      BY <1>0, <1>2, <1>6, <2>1, <3>2 DEF Family, Below
    <3> QED
      BY <3>1, <3>2
  <2> QED
    BY <1>0, <1>2, <2>1 DEF Family, Below
<1>12. OneEach'
  <2>1. ASSUME NEW b \in Actor, Running(b, "add")',
               First(b)'.row.parent \in DOMAIN templates \ overlapped',
               templates[First(b)'.row.parent].parent = None
        PROVE  /\ work'[b].at = First(b)'.row.parent
               /\ MarketTemplates(First(b).row.parent, First(b).row.market)' = {}
    <3>1. CASE b = c
      BY <1>1, <1>2, <1>4, <2>1, <3>1 DEF MarketTemplates, Children
    <3>2. CASE b # c
      BY <1>0, <1>1, <1>2, <1>6, <2>1, <3>2 DEF OneEach, MarketTemplates, Children
    <3> QED
      BY <3>1, <3>2
  <2>2. ASSUME NEW u \in DOMAIN templates \ overlapped', templates[u].parent = None,
               NEW n \in Market, NEW v \in MarketTemplates(u, n)', NEW w \in MarketTemplates(u, n)'
        PROVE  v = w
    BY <1>0, <1>1, <1>10, <2>2 DEF OneEach
  <2> QED
    BY <1>2, <2>1, <2>2 DEF OneEach
<1>13. Frozen'
  <2>1. ASSUME NEW u \in DOMAIN templates \ overlapped'
        PROVE  FrozenAt(u)'
    <3>1. FrozenAt(u)
      BY <1>0, <1>1, <2>1 DEF Frozen
    <3>2. ASSUME NEW b \in Actor, (~ Idle(b))'
          PROVE  Agrees(b, u)'
      <4>1. CASE b # c
        BY <1>1, <1>2, <3>1, <3>2, <4>1 DEF FrozenAt, Agrees, HashOf
      <4>2. CASE b = c
        BY <1>4, <4>2 DEF Agrees
      <4> QED
        BY <4>1, <4>2
    <3> QED
      BY <1>2, <3>1, <3>2 DEF FrozenAt, HashOf
  <2> QED
    BY <1>2, <2>1 DEF Frozen
<1> QED
  BY <1>1, <1>5, <1>9, <1>11, <1>12, <1>13 DEF IInv

(* The commands.                                                           *)
LEMMA TemplateAddKeeps ==
  ASSUME IInv, NEW c \in Clients, TemplateAdd(c)
  PROVE  IInv'
<1> DEFINE id == last + 1
           row == New(None, Base)
<1>1. last \in Nat /\ last < MaxTemplates /\ last' = last + 1 /\ id \in Id
  BY TemplatesAssumption DEF IInv, TypeOK, TemplateAdd, Id
<1>2. PICK f \in BOOLEAN : Begin(c, id, <<Add(id, row), Fill(id, f, TRUE)>>)
  BY DEF TemplateAdd
<1> DEFINE steps == <<Add(id, row), Fill(id, f, TRUE)>>
<1>3. row \in Offspring
  <2>1. row \in Template
    BY DEF New, Template, NoHash, None
  <2> QED
    BY <2>1 DEF Offspring
<1>4. Making(steps) /\ Head(steps) = Add(id, row)
  <2>1. Making(steps)
    BY <1>1, <1>3 DEF Making
  <2>2. Head(steps) = Add(id, row)
    BY Tuples
  <2> QED
    BY <2>1, <2>2
<1>5. None \notin DOMAIN templates /\ Below(None, Base)
  <2>1. None \notin DOMAIN templates
    BY IdsThere DEF IInv
  <2> QED
    BY <2>1 DEF Below
<1> HIDE DEF steps
<1>6. Begin(c, id, steps)
  BY <1>2 DEF steps
<1> QED
  BY <1>1, <1>4, <1>5, <1>6, BeginAddKeeps

(* What a clone belongs below: a base, or the market template of a base.   *)
LEMMA BaseTemplate ==
  ASSUME IInv, NEW t \in DOMAIN templates
  PROVE  LET base == BaseTemplateFor(t)
         IN base \in DOMAIN templates /\ templates[base].parent = None /\ templates[base].market = Base
<1> DEFINE p == templates[t].parent
           q == templates[p].parent
<1>1. /\ \A u \in DOMAIN templates : /\ templates[u].parent \in DOMAIN templates \cup {None}
                                     /\ Below(templates[u].parent, templates[u].market)
      /\ None \notin DOMAIN templates
  BY IdsThere DEF IInv, TypeOK, Family
<1>2. CASE p = None
  BY <1>1, <1>2 DEF BaseTemplateFor, Below
<1>3. CASE p # None /\ q = None
  BY <1>1, <1>3 DEF BaseTemplateFor, Below
<1>4. CASE p # None /\ q # None
  <2>1. p \in DOMAIN templates /\ q \in DOMAIN templates
    BY <1>1, <1>4
  <2>2. templates[p].market # Base
    BY <1>1, <1>4, <2>1 DEF Below
  <2>3. templates[q].market = Base
    BY <1>1, <2>1, <2>2 DEF Below
  <2>4. templates[q].parent = None
    BY <1>1, <2>1, <2>3 DEF Below
  <2> QED
    BY <1>4, <2>1, <2>3, <2>4 DEF BaseTemplateFor
<1> QED
  BY <1>2, <1>3, <1>4

(* A clone goes below a base that has no market template of that market    *)
(* yet, or below the oldest such.                                          *)
LEMMA TemplateCloneKeeps ==
  ASSUME IInv, NEW c \in Clients, NEW t \in DOMAIN templates, NEW m \in Market \cup {Base},
         TemplateClone(c, t, m)
  PROVE  IInv'
<1> DEFINE base == BaseTemplateFor(t)
           there == MarketTemplates(base, m)
           parent == IF m = Base THEN None ELSE IF there = {} THEN base ELSE Min(there)
           fill == IF templates[t].filled THEN <<Fill(last + 1, FALSE, templates[t].price)>> ELSE <<>>
           id == last + 1
           row == New(parent, m)
           steps == <<Add(id, row)>> \o fill
<1>1. last \in Nat /\ last < MaxTemplates /\ last' = last + 1 /\ id \in Id
  BY TemplatesAssumption DEF IInv, TypeOK, TemplateClone, Id
<1>2. Begin(c, base, steps)
  BY DEF TemplateClone
<1>3. base \in DOMAIN templates /\ templates[base].parent = None /\ templates[base].market = Base
  BY BaseTemplate
<1>4. /\ DOMAIN templates \subseteq Id /\ None \notin DOMAIN templates
      /\ \A u \in DOMAIN templates : templates[u] \in Template /\ u \in Nat
  BY IdsThere DEF IInv
<1>5. there \subseteq DOMAIN templates /\ \A u \in there : templates[u].parent = base /\ templates[u].market = m
  BY DEF MarketTemplates, Children
<1>6. there # {} => Min(there) \in there
  <2> HIDE DEF there
  <2> QED
    BY <1>4, <1>5, MinIsThere
<1>7. parent \in DOMAIN templates \cup {None} /\ Below(parent, m)
  <2>1. CASE m = Base
    BY <1>4, <2>1 DEF Below
  <2>2. CASE m # Base /\ there = {}
    BY <1>3, <1>4, <2>2 DEF Below
  <2>3. CASE m # Base /\ there # {}
    <3> DEFINE u == Min(there)
    <3>1. u \in DOMAIN templates /\ templates[u].parent = base /\ templates[u].market = m
      BY <1>5, <1>6, <2>3
    <3>2. parent = u
      BY <2>3
    <3> HIDE DEF u, parent, base, there
    <3> QED
      BY <1>3, <1>4, <2>3, <3>1, <3>2 DEF Below
  <2> QED
    BY <2>1, <2>2, <2>3
<1>8. parent \in DOMAIN templates /\ templates[parent].parent = None =>
        base = parent /\ MarketTemplates(parent, m) = {}
  <2>1. CASE m = Base
    BY <1>4, <2>1
  <2>2. CASE m # Base /\ there = {}
    BY <2>2
  <2>3. CASE m # Base /\ there # {}
    <3>1. templates[parent].parent = base
      BY <1>5, <1>6, <2>3
    <3> HIDE DEF parent, base, there
    <3> QED
      BY <1>3, <1>4, <3>1
  <2> QED
    BY <2>1, <2>2, <2>3
<1>9. Making(steps) /\ Head(steps) = Add(id, row)
  <2>1. row \in Offspring
    <3>1. parent \in Id \cup {None}
      BY <1>4, <1>7
    <3> HIDE DEF parent
    <3>2. row \in Template
      BY <3>1 DEF New, Template, NoHash, None
    <3> QED
      BY <3>1, <3>2 DEF Offspring
  <2>2. templates[t].price \in BOOLEAN
    BY <1>4 DEF Template
  <2> DEFINE x == Add(id, row)
             y == Fill(id, FALSE, templates[t].price)
  <2>3. steps = <<x>> \/ steps = <<x, y>>
    <3>1. \A u, v : <<u>> \o <<>> = <<u>> /\ <<u>> \o <<v>> = <<u, v>>
      BY Tuples, Pair
    <3>2. fill = <<>> \/ fill = <<y>>
      OBVIOUS
    <3>3. steps = <<x>> \o fill
      OBVIOUS
    <3> HIDE DEF x, y, fill, steps
    <3> QED
      BY <3>1, <3>2, <3>3
  <2>4. \A u, v : Head(<<u>>) = u /\ Head(<<u, v>>) = u
    BY Tuples
  <2>5. Head(steps) = x
    <3> HIDE DEF x, y, steps
    <3> QED
      BY <2>3, <2>4
  <2>6. Making(steps)
    <3> HIDE DEF steps, row, parent
    <3> QED
      BY <1>1, <2>1, <2>2, <2>3 DEF Making
  <2> QED
    BY <2>5, <2>6
<1>10. base \in Id
  BY <1>3, <1>4
<1> HIDE DEF steps, parent, base
<1> QED
  BY <1>1, <1>2, <1>7, <1>8, <1>9, <1>10, BeginAddKeeps

(* What is updated was modifiable, so it has no hash.                      *)
LEMMA TemplateUpdateKeeps ==
  ASSUME IInv, NEW c \in Clients, NEW t \in DOMAIN templates, TemplateUpdate(c, t)
  PROVE  IInv'
<1>1. templates[t].hash = NoHash /\ last' = last
  BY DEF TemplateUpdate, Modifiable
<1>2. \/ Begin(c, t, <<EditStep(t)>>)
      \/ Begin(c, t, <<UnpriceStep(t), PriceStep(t)>>)
  BY DEF TemplateUpdate, EditStep, UnpriceStep, PriceStep
<1>3. \A x, y : Head(<<x>>) = x /\ Head(<<x, y>>) = x
  BY Tuples
<1>4. CASE Begin(c, t, <<EditStep(t)>>)
  <2> DEFINE steps == <<EditStep(t)>>
  <2>1. AtTemplate(t, steps) /\ Head(steps) = EditStep(t)
    BY <1>3 DEF AtTemplate
  <2>2. Head(steps).op = "edit" /\ Head(steps).id = t
    BY <2>1 DEF EditStep
  <2> HIDE DEF steps
  <2>3. Begin(c, t, steps)
    BY <1>4 DEF steps
  <2> QED
    BY <1>1, <2>1, <2>2, <2>3, BeginAtKeeps
<1>5. CASE Begin(c, t, <<UnpriceStep(t), PriceStep(t)>>)
  <2> DEFINE steps == <<UnpriceStep(t), PriceStep(t)>>
  <2>1. AtTemplate(t, steps) /\ Head(steps) = UnpriceStep(t)
    BY <1>3 DEF AtTemplate
  <2>2. Head(steps).op = "unprice" /\ Head(steps).id = t
    BY <2>1 DEF UnpriceStep
  <2> HIDE DEF steps
  <2>3. Begin(c, t, steps)
    BY <1>5 DEF steps
  <2> QED
    BY <1>1, <2>1, <2>2, <2>3, BeginAtKeeps
<1> QED
  BY <1>2, <1>4, <1>5

(* A template without a payment address was never posted.                  *)
LEMMA TemplatePostKeeps ==
  ASSUME IInv, NEW c \in Clients, NEW t \in DOMAIN templates, NEW estimate \in BOOLEAN,
         TemplatePost(c, t, estimate)
  PROVE  IInv'
<1> DEFINE row == templates[t]
<1>1. row \in Template /\ last' = last
  BY DEF TemplatePost, IInv, TypeOK
<1>2. \A x : Head(<<x>>) = x
  BY Tuples
<1>3. CASE row.address = None
  <2> DEFINE steps == <<AddressStep(t, estimate)>>
  <2>1. AtTemplate(t, steps) /\ Head(steps) = AddressStep(t, estimate)
    BY <1>2 DEF AtTemplate
  <2>2. Head(steps).op = "address" /\ Head(steps).id = t
    BY <2>1 DEF AddressStep
  <2>3. t \notin overlapped => row.hash = NoHash
    <3>1. t \notin overlapped => (row.hash # NoHash => row.hash = HashOf(t, row))
      BY DEF IInv, Frozen, FrozenAt
    <3>2. row.hash \in Hash => row.hash.address # None
      BY DEF Hash
    <3>3. row.hash \in Hash \cup {NoHash}
      BY <1>1 DEF Template
    <3> QED
      BY <1>3, <3>1, <3>2, <3>3 DEF HashOf
  <2>4. Begin(c, t, steps)
    BY <1>3 DEF TemplatePost, AddressStep
  <2> HIDE DEF steps
  <2> QED
    BY <1>1, <2>1, <2>2, <2>3, <2>4, BeginAtKeeps
<1>4. CASE row.address # None
  <2> DEFINE steps == <<Send(t, row, estimate)>>
  <2>1. row \in Complete
    BY <1>1, <1>4 DEF Complete
  <2>2. AtTemplate(t, steps) /\ Head(steps) = Send(t, row, estimate)
    BY <1>2, <2>1 DEF AtTemplate
  <2>3. Head(steps).op = "send" /\ Head(steps).id = t /\ Head(steps).row = row
    BY <2>2 DEF Send
  <2>4. Begin(c, t, steps)
    BY <1>4 DEF TemplatePost
  <2> HIDE DEF steps
  <2> QED
    BY <1>1, <2>2, <2>3, <2>4, BeginAtKeeps
<1> QED
  BY <1>3, <1>4

(* A removal first only looks.                                             *)
LEMMA TemplateRemoveKeeps ==
  ASSUME IInv, NEW c \in Clients, NEW t \in DOMAIN templates, TemplateRemove(c, t)
  PROVE  IInv'
<1> DEFINE steps == <<LookStep(t), DeleteStep(t)>>
<1>1. AtTemplate(t, steps) /\ Head(steps) = LookStep(t)
  BY Tuples DEF AtTemplate
<1>2. Head(steps).op = "look" /\ Head(steps).id = t
  BY <1>1 DEF LookStep
<1>3. Begin(c, t, steps) /\ last' = last
  BY DEF TemplateRemove, LookStep, DeleteStep
<1> HIDE DEF steps
<1> QED
  BY <1>1, <1>2, <1>3, BeginAtKeeps

(* What is left without an actor's step: a message comes, a listing is     *)
(* over, core does not answer, or the node stops.                          *)
LEMMA ReceiveListingKeeps ==
  ASSUME IInv, NEW n \in DOMAIN sent, ReceiveListing(n)
  PROVE  IInv'
<1>0. TypeOK /\ sent \in Seq(Hash) /\ Programs /\ Exclusive /\ Fresh /\ Family /\ OneEach /\ Frozen
      /\ RowsTyped /\ SentTyped
  BY Untyped DEF IInv
<1> DEFINE inbox == "inbox"
<1>1. inbox \in Actor /\ inbox \notin Clients /\ DOMAIN work = Actor
  BY <1>0, TemplatesAssumption DEF Actor, Programs
<1>2. work[inbox] = Nothing
  <2>1. work[inbox].steps = <<>>
    BY DEF ReceiveListing, Idle
  <2>2. \A p : Relating(p) => p # <<>>
    BY DEF Relating
  <2> QED
    BY <1>0, <1>1, <2>1, <2>2 DEF Programs
<1>3. work' = [work EXCEPT ![inbox].steps = <<FindStep(n)>>]
  BY DEF ReceiveListing, FindStep
<1>4. /\ work'[inbox] = [at |-> None, steps |-> <<FindStep(n)>>]
      /\ \A b \in Actor \ {inbox} : work'[b] = work[b]
      /\ DOMAIN work' = Actor
  <2>1. work'[inbox] = [work[inbox] EXCEPT !.steps = <<FindStep(n)>>]
    BY <1>1, <1>3
  <2>2. [Nothing EXCEPT !.steps = <<FindStep(n)>>] = [at |-> None, steps |-> <<FindStep(n)>>]
    BY DEF Nothing
  <2>3. work'[inbox] = [at |-> None, steps |-> <<FindStep(n)>>]
    BY <1>2, <2>1, <2>2
  <2>4. \A b \in Actor \ {inbox} : work'[b] = work[b]
    BY <1>1, <1>3
  <2> QED
    BY <1>1, <1>3, <2>3, <2>4
<1> HIDE DEF inbox
<1>5. /\ UNCHANGED <<templates, last, sent, overlapped, mishaps>>
      /\ arrived' = arrived \cup {n} /\ n \notin arrived
      /\ DOMAIN listings' = DOMAIN listings \cup {n}
      /\ \A k \in DOMAIN listings' : listings'[k] = IF k = n THEN None ELSE listings[k]
  BY DEF ReceiveListing
<1>6. First(inbox)'.op = "find"
  <2>1. Head(<<FindStep(n)>>) = FindStep(n)
    BY Tuples
  <2> QED
    BY <1>4, <2>1 DEF First, FindStep
<1>7. \A b \in Actor \ {inbox} : Idle(b)' = Idle(b) /\ First(b)' = First(b)
  BY <1>4 DEF Idle, First
<1>8. Programs'
  <2>1. \A p : Relating(p) => Relating(p)'
    BY <1>5 DEF Relating
  <2>2. Relating(<<FindStep(n)>>)'
    BY <1>5 DEF Relating
  <2>3. ASSUME NEW b \in Actor \ {inbox}
        PROVE  \/ work'[b] = Nothing
               \/ b \in Clients /\ \E u \in Id : \E p : /\ Making(p) \/ AtTemplate(u, p)
                                                      /\ work'[b] = [at |-> u, steps |-> p]
    <3>1. b # "inbox"
      BY <2>3 DEF inbox
    <3> QED
      BY <1>0, <1>4, <2>3, <3>1 DEF Programs
  <2>4. inbox = "inbox" /\ \E p : Relating(p)' /\ work'[inbox] = [at |-> None, steps |-> p]
    BY <1>4, <2>2 DEF inbox
  <2>5. ASSUME NEW b \in Actor
        PROVE  \/ work'[b] = Nothing
               \/ b \in Clients /\ \E u \in Id : \E p : /\ Making(p) \/ AtTemplate(u, p)
                                                      /\ work'[b] = [at |-> u, steps |-> p]
               \/ b = "inbox" /\ \E p : Relating(p)' /\ work'[b] = [at |-> None, steps |-> p]
    <3>1. CASE b = inbox
      BY <2>4, <3>1
    <3>2. CASE b # inbox
      BY <2>3, <3>2
    <3> QED
      BY <3>1, <3>2
  <2> QED
    BY <1>4, <2>5 DEF Programs
<1>9. Exclusive'
  <2>1. \A c \in Clients : c \in Actor \ {inbox}
    BY <1>1 DEF Actor
  <2> QED
    BY <1>0, <1>4, <1>5, <1>7, <2>1 DEF Exclusive
<1>10. TypeOK' /\ (sent \in Seq(Hash))'
  <2>1. RowsTyped' /\ SentTyped'
    BY <1>0, <1>5 DEF RowsTyped, SentTyped
  <2>2. (overlapped \subseteq Id)' /\ (mishaps \in 0 .. MaxMishaps)'
    BY <1>0, <1>5 DEF TypeOK
  <2> QED
    BY <1>8, <2>1, <2>2, Typed
<1>11. \A b \in Actor : Running(b, "add")' => /\ Running(b, "add") /\ First(b)' = First(b)
                                              /\ work'[b].at = work[b].at
  BY <1>4, <1>6, <1>7 DEF Running, First
<1>12. ASSUME NEW b \in Actor, NEW u, Refers(b, u)'
       PROVE  Refers(b, u)
  <2>1. b # inbox
    BY <1>6, <1>12 DEF Refers, Running, First
  <2> QED
    BY <1>7, <1>12, <2>1 DEF Refers, Running, First
<1>13. Fresh'
  <2>1. ASSUME NEW b \in Actor, Running(b, "add")'
        PROVE  /\ First(b)'.id <= last /\ First(b)'.id \notin DOMAIN templates
               /\ First(b)'.row.parent < First(b)'.id
               /\ \A d \in Actor : ~ Refers(d, First(b).id)'
               /\ \A d \in Actor \ {b} : Running(d, "add")' => First(d)'.id # First(b)'.id
    <3>1. /\ Running(b, "add") /\ First(b)' = First(b)
          /\ First(b).id <= last /\ First(b).id \notin DOMAIN templates
          /\ First(b).row.parent < First(b).id
          /\ \A d \in Actor : ~ Refers(d, First(b).id)
          /\ \A d \in Actor \ {b} : Running(d, "add") => First(d).id # First(b).id
      BY <1>0, <1>11, <2>1 DEF Fresh
    <3>2. ASSUME NEW d \in Actor, Refers(d, First(b).id)'
          PROVE  FALSE
      <4>1. \A u : Refers(d, u)' => Refers(d, u)
        BY <1>12
      <4>2. Refers(d, First(b).id)
        BY <3>1, <3>2, <4>1 DEF Refers
      <4> QED
        BY <3>1, <4>2
    <3> QED
      BY <1>11, <3>1, <3>2
  <2> QED
    BY <1>0, <1>5, <1>12, <2>1 DEF Fresh
<1>14. Family'
  <2>1. ASSUME NEW b \in Actor, Running(b, "add")'
        PROVE  Below(First(b).row.parent, First(b).row.market)'
    BY <1>0, <1>5, <1>11, <2>1 DEF Family, Below
  <2> QED
    BY <1>0, <1>5, <2>1 DEF Family, Below
<1>15. OneEach'
  <2>1. ASSUME NEW b \in Actor, Running(b, "add")',
               First(b)'.row.parent \in DOMAIN templates \ overlapped,
               templates[First(b)'.row.parent].parent = None
        PROVE  /\ work'[b].at = First(b)'.row.parent
               /\ MarketTemplates(First(b).row.parent, First(b).row.market)' = {}
    BY <1>0, <1>5, <1>11, <2>1 DEF OneEach, MarketTemplates, Children
  <2>2. \A u, m : MarketTemplates(u, m)' = MarketTemplates(u, m)
    BY <1>5 DEF MarketTemplates, Children
  <2> QED
    BY <1>0, <1>5, <2>1, <2>2 DEF OneEach
<1>16. Frozen'
  <2>1. ASSUME NEW u \in DOMAIN templates \ overlapped
        PROVE  FrozenAt(u)'
    <3>1. FrozenAt(u)
      BY <1>0, <2>1 DEF Frozen
    <3>2. ASSUME NEW b \in Actor, (~ Idle(b))'
          PROVE  Agrees(b, u)'
      <4>1. CASE b # inbox
        BY <1>5, <1>7, <3>1, <3>2, <4>1 DEF FrozenAt, Agrees, HashOf
      <4>2. CASE b = inbox
        BY <1>6, <4>2 DEF Agrees
      <4> QED
        BY <4>1, <4>2
    <3>3. u # None
      BY <1>0, <2>1, IdsThere
    <3> QED
      BY <1>5, <3>1, <3>2, <3>3 DEF FrozenAt, HashOf
  <2> QED
    BY <1>5, <2>1 DEF Frozen
<1> QED
  BY <1>8, <1>9, <1>10, <1>13, <1>14, <1>15, <1>16 DEF IInv

(* What does not speak of listings stays when only they change.            *)
LEMMA SameTemplates ==
  ASSUME Fresh, Family, OneEach, UNCHANGED <<templates, last, work, overlapped>>
  PROVE  Fresh' /\ Family' /\ OneEach'
<1>1. \A a : /\ Idle(a)' = Idle(a) /\ First(a)' = First(a) /\ Running(a, "add")' = Running(a, "add")
             /\ \A t : Refers(a, t)' = Refers(a, t)
  BY DEF Idle, First, Running, Refers
<1>2. Fresh'
  BY DEF Fresh, Running, Refers, Idle, First
<1>3. Family'
  <2>1. ASSUME NEW b \in Actor, Running(b, "add")'
        PROVE  Below(First(b).row.parent, First(b).row.market)'
    BY <1>1, <2>1 DEF Family, Below
  <2> QED
    BY <2>1 DEF Family, Below
<1>4. OneEach'
  <2>1. ASSUME NEW b \in Actor, Running(b, "add")',
               First(b)'.row.parent \in DOMAIN templates \ overlapped,
               templates[First(b)'.row.parent].parent = None
        PROVE  /\ work'[b].at = First(b)'.row.parent
               /\ MarketTemplates(First(b).row.parent, First(b).row.market)' = {}
    BY <1>1, <2>1 DEF OneEach, MarketTemplates, Children
  <2>2. \A u, m : MarketTemplates(u, m)' = MarketTemplates(u, m)
    BY DEF MarketTemplates, Children
  <2> QED
    BY <2>1, <2>2 DEF OneEach
<1> QED
  BY <1>2, <1>3, <1>4

(* A listing that is over leaves the others as they are.                   *)
LEMMA ExpireListingKeeps ==
  ASSUME IInv, NEW n \in DOMAIN listings, ExpireListing(n)
  PROVE  IInv'
<1>0. TypeOK /\ sent \in Seq(Hash) /\ Programs /\ Exclusive /\ Fresh /\ Family /\ OneEach /\ Frozen
      /\ RowsTyped /\ SentTyped
  BY Untyped DEF IInv
<1>1. /\ UNCHANGED <<templates, last, sent, arrived, work, overlapped, mishaps>>
      /\ DOMAIN listings' \subseteq DOMAIN listings
      /\ \A k \in DOMAIN listings' : listings'[k] = listings[k]
  BY DEF ExpireListing
<1>2. Programs' /\ Exclusive'
  BY <1>0, <1>1 DEF Programs, Exclusive, Relating, Idle
<1>3. TypeOK' /\ (sent \in Seq(Hash))'
  <2>1. RowsTyped' /\ SentTyped'
    BY <1>0, <1>1 DEF RowsTyped, SentTyped
  <2>2. (overlapped \subseteq Id)' /\ (mishaps \in 0 .. MaxMishaps)'
    BY <1>0, <1>1 DEF TypeOK
  <2> QED
    BY <1>2, <2>1, <2>2, Typed
<1>4. Fresh' /\ Family' /\ OneEach'
  BY <1>0, <1>1, SameTemplates
<1>5. Frozen'
  BY <1>0, <1>1 DEF Frozen, FrozenAt, Agrees, HashOf, First, Idle
<1> QED
  BY <1>2, <1>3, <1>4, <1>5 DEF IInv

(* A command that core fails ends there.                                   *)
LEMMA FaultKeeps ==
  ASSUME IInv, NEW a \in Actor, Fault(a)
  PROVE  IInv'
<1>1. ~ Idle(a) /\ Threw(a) /\ UNCHANGED <<templates, listings, last, sent, arrived, overlapped>>
  BY DEF Fault, Running, rows
<1>2. Moved(a)
  BY <1>1, EndsWell DEF IInv
<1>3. mishaps' \in 0 .. MaxMishaps
  BY TemplatesAssumption DEF Fault, IInv, TypeOK
<1>4. SentTyped'
  BY <1>1, Untyped DEF IInv, SentTyped
<1> QED
  BY <1>1, <1>2, <1>3, <1>4, QuietKeeps

(* The programs are gone after a stop, the rows are not.                   *)
LEMMA CrashKeeps ==
  ASSUME IInv, Crash
  PROVE  IInv'
<1>0. TypeOK /\ sent \in Seq(Hash) /\ Programs /\ Exclusive /\ Fresh /\ Family /\ OneEach /\ Frozen
      /\ RowsTyped /\ SentTyped
  BY Untyped DEF IInv
<1>1. /\ UNCHANGED <<templates, listings, last, sent, arrived, overlapped>>
      /\ work' = [a \in Actor |-> Nothing]
  BY DEF Crash, rows
<1>2. \A a \in Actor : work'[a] = Nothing /\ Idle(a)'
  BY <1>1 DEF Idle, Nothing
<1>3. Clients \subseteq Actor
  BY DEF Actor
<1>4. Programs' /\ Exclusive'
  BY <1>1, <1>2, <1>3 DEF Programs, Exclusive
<1>5. TypeOK' /\ (sent \in Seq(Hash))'
  <2>1. RowsTyped' /\ SentTyped'
    BY <1>0, <1>1 DEF RowsTyped, SentTyped
  <2>2. (overlapped \subseteq Id)' /\ (mishaps \in 0 .. MaxMishaps)'
    BY <1>0, <1>1, TemplatesAssumption DEF TypeOK, Crash
  <2> QED
    BY <1>4, <2>1, <2>2, Typed
<1>6. Fresh'
  BY <1>2 DEF Fresh, Refers, Running
<1>7. Family' /\ OneEach'
  BY <1>0, <1>1, <1>2 DEF Family, OneEach, Below, MarketTemplates, Children, Running
<1>8. Frozen'
  BY <1>0, <1>1, <1>2 DEF Frozen, FrozenAt, HashOf
<1> QED
  BY <1>4, <1>5, <1>6, <1>7, <1>8 DEF IInv

-----------------------------------------------------------------------------
(* The inductive invariant holds in every state.                           *)
THEOREM Invariance == Spec => []IInv
<1>1. Init => IInv
  <2> SUFFICES ASSUME Init
               PROVE  IInv
    OBVIOUS
  <2>1. /\ templates = <<>> /\ last = 0 /\ sent = <<>> /\ arrived = {} /\ listings = <<>>
        /\ work = [a \in Actor |-> Nothing] /\ overlapped = {} /\ mishaps = 0
    BY DEF Init
  <2>2. DOMAIN templates = {} /\ DOMAIN listings = {} /\ DOMAIN sent = {} /\ Len(sent) = 0
    BY <2>1
  <2>3. \A a \in Actor : work[a] = Nothing /\ Idle(a)
    BY <2>1 DEF Idle, Nothing
  <2>4. TypeOK
    <3>1. \A a \in Actor : work[a].at = None /\ DOMAIN work[a].steps = {}
      BY <2>3 DEF Nothing
    <3> QED
      BY <2>1, <2>2, <3>1, TemplatesAssumption DEF TypeOK
  <2>5. sent \in Seq(Hash)
    BY <2>1
  <2>6. Programs
    BY <2>1, <2>3 DEF Programs
  <2>7. Exclusive
    BY <2>3 DEF Exclusive, Actor
  <2>8. Fresh
    BY <2>3 DEF Fresh, Refers, Running
  <2>9. Family /\ OneEach /\ Frozen
    BY <2>2, <2>3 DEF Family, OneEach, Frozen, Running
  <2> QED
    BY <2>4, <2>5, <2>6, <2>7, <2>8, <2>9 DEF IInv
<1>2. IInv /\ [Next]_vars => IInv'
  <2> SUFFICES ASSUME IInv, [Next]_vars
               PROVE  IInv'
    OBVIOUS
  <2>1. ASSUME NEW c \in Clients, TemplateAdd(c)
        PROVE  IInv'
    BY <2>1, TemplateAddKeeps
  <2>2. ASSUME NEW c \in Clients, NEW t \in DOMAIN templates, NEW m \in Market \cup {Base}, TemplateClone(c, t, m)
        PROVE  IInv'
    BY <2>2, TemplateCloneKeeps
  <2>3. ASSUME NEW c \in Clients, NEW t \in DOMAIN templates, TemplateUpdate(c, t)
        PROVE  IInv'
    BY <2>3, TemplateUpdateKeeps
  <2>4. ASSUME NEW c \in Clients, NEW t \in DOMAIN templates, TemplateRemove(c, t)
        PROVE  IInv'
    BY <2>4, TemplateRemoveKeeps
  <2>5. ASSUME NEW c \in Clients, NEW t \in DOMAIN templates, NEW estimate \in BOOLEAN, TemplatePost(c, t, estimate)
        PROVE  IInv'
    BY <2>5, TemplatePostKeeps
  <2>6. ASSUME NEW n \in DOMAIN sent, ReceiveListing(n)
        PROVE  IInv'
    BY <2>6, ReceiveListingKeeps
  <2>7. ASSUME NEW n \in DOMAIN listings, ExpireListing(n)
        PROVE  IInv'
    BY <2>7, ExpireListingKeeps
  <2>8. ASSUME NEW a \in Actor, Proceed(a)
        PROVE  IInv'
    BY <2>8, ProceedKeeps
  <2>9. ASSUME NEW a \in Actor, Fault(a)
        PROVE  IInv'
    BY <2>9, FaultKeeps
  <2>10. CASE Crash
    BY <2>10, CrashKeeps
  <2>11. CASE UNCHANGED vars
    <3>1. UNCHANGED <<templates, listings, last, sent, arrived, work, overlapped, mishaps>>
      BY <2>11 DEF vars, rows
    <3>2. TypeOK' /\ (sent \in Seq(Hash))' /\ Programs' /\ Exclusive'
      BY <3>1 DEF IInv, TypeOK, Programs, Exclusive, Relating, Idle
    <3>3. Fresh' /\ Family' /\ OneEach'
      BY <3>1, SameTemplates DEF IInv
    <3>4. Frozen'
      BY <3>1 DEF IInv, Frozen, FrozenAt, Agrees, HashOf, First, Idle
    <3> QED
      BY <3>2, <3>3, <3>4 DEF IInv
  <2> QED
    BY <2>1, <2>2, <2>3, <2>4, <2>5, <2>6, <2>7, <2>8, <2>9, <2>10, <2>11 DEF Next
<1> QED
  BY <1>1, <1>2, PTL DEF Spec

(* Type correctness: rows, listings, hashes and programs are what they are *)
(* declared to be, a parent is older than its child and there.             *)
THEOREM TypeCorrect == Spec => []TypeOK
<1>1. IInv => TypeOK
  BY DEF IInv
<1> QED
  BY <1>1, Invariance, PTL

(* A listing that refers to a template is what the template shows: what    *)
(* updateHash() stored at the end of a post is what isModifiable() froze.  *)
THEOREM ShownAsPostedHolds == Spec => []ShownAsPosted
<1>1. IInv => ShownAsPosted
  <2> SUFFICES ASSUME IInv, NEW n \in DOMAIN listings, listings[n] # None, listings[n] \notin overlapped
               PROVE  templates[listings[n]].hash = sent[n] /\ HashOf(listings[n], templates[listings[n]]) = sent[n]
    BY DEF ShownAsPosted
  <2> DEFINE t == listings[n]
  <2>1. t \in DOMAIN templates \ overlapped
    BY DEF IInv, TypeOK
  <2>2. templates[t].hash = sent[n] /\ (templates[t].hash # NoHash => templates[t].hash = HashOf(t, templates[t]))
    BY <2>1 DEF IInv, Frozen, FrozenAt
  <2>3. sent[n] \in Hash
    BY DEF IInv, TypeOK
  <2>4. NoHash \notin Hash
    BY DEF NoHash, Hash, None
  <2> QED
    BY <2>2, <2>3, <2>4
<1> QED
  BY <1>1, Invariance, PTL

(* Versions are below market templates, market templates below bases, and  *)
(* a base has one per market, whatever is cloned and removed at once.      *)
THEOREM FamilyTreeHolds == Spec => []FamilyTree
<1>1. IInv => FamilyTree
  <2> SUFFICES ASSUME IInv, NEW t \in DOMAIN templates
               PROVE  LET parent == templates[t].parent
                      IN /\ (templates[t].market = Base) = (parent = None)
                         /\ parent # None /\ templates[parent].market # Base =>
                              /\ templates[parent].market = templates[t].market
                              /\ templates[templates[parent].parent].market = Base
                         /\ parent = None /\ t \notin overlapped =>
                              \A m \in Market : Cardinality(MarketTemplates(t, m)) <= 1
    BY DEF FamilyTree
  <2>1. Below(templates[t].parent, templates[t].market) /\ templates[t].parent \in DOMAIN templates \cup {None}
    BY DEF IInv, Family, TypeOK
  <2>2. ASSUME templates[t].parent = None, t \notin overlapped, NEW m \in Market
        PROVE  Cardinality(MarketTemplates(t, m)) <= 1
    <3> DEFINE M == MarketTemplates(t, m)
    <3>1. \A u, v \in M : u = v
      BY <2>2 DEF IInv, OneEach
    <3> HIDE DEF M
    <3>2. M = {} \/ \E u : M = {u}
      BY <3>1
    <3>3. Cardinality(M) = 0 \/ Cardinality(M) = 1
      BY <3>2, FS_EmptySet, FS_Singleton
    <3> QED
      BY <3>3 DEF M
  <2> QED
    BY <2>1, <2>2 DEF Below
<1> QED
  BY <1>1, Invariance, PTL
=============================================================================
