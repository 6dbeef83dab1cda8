--------------------------- MODULE CategoriesProofs ---------------------------
(***************************************************************************)
(* Type correctness and the two safety invariants of Categories, proved    *)
(* for any markets, names, default categories and bounds.                  *)
(***************************************************************************)
EXTENDS Categories, SequenceTheorems, WellFoundedInduction, TLAPS

Parts == Part \cup {"ROOT"}
Given == 1 .. last

(* The steps that programs are made of.                                    *)
Step ==
  [op : {"upsert"}, path : Path, market : Market \cup {NoMarket}]
    \cup [op : {"ensure"}, path : Path, market : Market]
    \cup [op : {"insert"}, path : Path, row : Category]
    \cup [op : {"update"}, id : Id, path : Path, row : Category]
    \cup [op : {"root"}, market : Market]
    \cup [op : {"edit"}, id : Id, parent : Id, path : Path]
    \cup [op : {"remove"}, id : Id]
    \cup [op : {"file"}, template : Nat, key : Named, market : Market \cup {NoMarket}]
    \cup [op : {"send"}, market : Market, path : Path, template : Nat]
    \cup [op : {"list"}, path : Path, market : Market]
    \cup [op : {"inform"}, category : Id]

(* Every category with a key of one part is a ROOT, and so is every one    *)
(* that has no parent; a market has one of each key.                       *)
Rows ==
  /\ \A c \in DOMAIN categories :
       categories[c].parent = None \/ Len(categories[c].key) = 1 => categories[c].key = RootName
  /\ \A c \in DOMAIN categories : \A d \in DOMAIN categories \ {c} :
       categories[c].market # NoMarket =>
         categories[d].key # categories[c].key \/ categories[d].market # categories[c].market

Steady(c) == c \in DOMAIN categories \ moved

(* Whatever is below a moved category is moved.                            *)
MovedBelow ==
  /\ edited \cap DOMAIN categories \subseteq moved
  /\ Misnamed(categories) \subseteq moved
  /\ Children(categories, moved) \subseteq moved

(* All the names from the top down to c, joined: w[c] for each c in cs.    *)
Joins(w, rows, cs) ==
  /\ w \in [cs -> Named]
  /\ \A c \in cs : w[c] = IF rows[c].parent = None THEN rows[c].name
                         ELSE w[rows[c].parent] \o rows[c].name
Joined(rows, cs) == CHOOSE w : Joins(w, rows, cs)
Whole == Joined(categories, DOMAIN categories \ moved)

(* s is the end of t.                                                      *)
Ends(s, t) == \E q \in Seq(Parts) : t = q \o s

(* The key of a category that was not moved is what its names and those    *)
(* above it are when joined, or the end of that, as far as they were       *)
(* loaded; and ROOT is nowhere but at the top.                             *)
Keyed ==
  /\ Joins(Whole, categories, DOMAIN categories \ moved)
  /\ \A c \in DOMAIN categories \ moved :
       /\ Ends(categories[c].key, Whole[c])
       /\ \A k \in 2 .. Len(Whole[c]) : Whole[c][k] # "ROOT"

(* A row that may be put below p.                                          *)
FitsBelow(row, p) == \E q \in Named : Ends(q, Whole[p]) /\ row.key = q \o row.name

(* found is the line of categories down to cur, whoever else has changed   *)
(* them since, as far as they are still there and were not moved.          *)
Line(cur, found, m) ==
  /\ found \in Seq(Given) /\ Len(found) = Len(cur)
  /\ \A k \in DOMAIN found : Steady(found[k]) =>
       /\ categories[found[k]].key = KeyOf(SubSeq(cur, 1, k))
       /\ m # NoMarket => categories[found[k]].market = m

(* Names that are next when those of cur have been found.                  *)
GoesOnFrom(cur, path) ==
  Len(path) <= Len(cur) + 1 /\ SubSeq(path, 1, Len(path) - 1) = SubSeq(cur, 1, Len(path) - 1)

PathOf(s) == IF s.op = "root" THEN <<>> ELSE s.path
RowOf(path, found, m) ==
  NewRow(path, m, IF Len(path) = 1 THEN None ELSE found[Len(path) - 1])

(* The steps of a program of which the names of cur have been found so     *)
(* far: the first, and any that follows one.                               *)
NextStep(cur, s, m) ==
  \/ /\ s.op = "upsert" /\ s.market = m /\ GoesOnFrom(cur, s.path) /\ s.path[1] = RootName
     /\ m # NoMarket => s.path = ROOT
  \/ s.op = "ensure" /\ s.market = m /\ GoesOnFrom(cur, s.path)
  \/ s.op \in {"list", "send"} /\ s.market = m /\ s.path = cur
FirstStep(cur, s, found, m) ==
  \/ NextStep(cur, s, m)
  \/ s.op = "root" /\ s.market = m /\ cur = <<>>
  \/ /\ s.op = "insert" /\ GoesOnFrom(cur, s.path) /\ (Len(s.path) = 1 => s.path = ROOT)
     /\ s.row = RowOf(s.path, found, m)
  \/ /\ s.op = "update" /\ GoesOnFrom(cur, s.path) /\ s.path[1] = RootName
     /\ s.row = RowOf(s.path, found, m) /\ s.id \in Given
     /\ m # NoMarket => s.path = ROOT
     /\ Steady(s.id) =>
          categories[s.id].key = KeyOf(s.path) /\ (m # NoMarket => categories[s.id].market = m)
Follows(cur, steps, m) ==
  /\ steps # <<>> => NextStep(cur, steps[1], m)
  /\ \A i \in 2 .. Len(steps) : NextStep(PathOf(steps[i - 1]), steps[i], m)
Thread(cur, steps, found, m) ==
  steps # <<>> =>
    /\ FirstStep(cur, Head(steps), found, m)
    /\ Follows(PathOf(Head(steps)), Tail(steps), m)

(* What the actors are at: the boot seeds; a client posts a template or    *)
(* takes a single step; a received listing is given its category.          *)
Seeds == {s \in Step : s.op \in {"upsert", "insert", "update"}}
Posts == {s \in Step : s.op # "list"}
Files(path) ==
  {s \in Step : /\ s.op # "send"
                /\ s.op = "ensure" => s.path[1] = path[1]
                /\ s.op = "list" => s.path = path}

Seeding(w) ==
  /\ w.steps \in Seq(Seeds)
  /\ \E cur \in Seq(Named) : Line(cur, w.found, NoMarket) /\ Thread(cur, w.steps, w.found, NoMarket)

Single(s) ==
  \/ /\ s.op = "insert" /\ s.row.parent \in Given /\ Len(s.row.key) > 1
     /\ Steady(s.row.parent) => FitsBelow(s.row, s.row.parent)
  \/ s.op = "edit" /\ s.id \in Given /\ s.parent \in Given /\ Len(s.path) > 1
  \/ s.op \in {"remove", "file"}
Commanding(w) ==
  \/ Len(w.steps) = 1 /\ Single(Head(w.steps))
  \/ /\ w.steps \in Seq(Posts)
     /\ \E cur \in Seq(Named), m \in joined : Line(cur, w.found, m) /\ Thread(cur, w.steps, w.found, m)

(* Nobody else has changed categories, and so all that was found is there. *)
At(c, path, m) == Exists(c) /\ categories[c].key = KeyOf(path) /\ categories[c].market = m
Firm(cur, steps, found, m) ==
  /\ cur # <<>> => cur[1] = RootName
  /\ \A k \in DOMAIN found : At(found[k], SubSeq(cur, 1, k), m)
  /\ steps # <<>> =>
       LET s == Head(steps)
       IN /\ s.op = "ensure" /\ cur = <<>> => \E c \in DOMAIN categories : At(c, ROOT, m)
          /\ s.op = "update" => At(s.id, s.path, m)
          /\ s.op = "insert" => \A c \in DOMAIN categories : ~ At(c, s.path, m)

(* The listings that StoredUnlessShaken speaks of.                         *)
Calm(n) == n \notin shaken /\ sent[n].path[1] = RootName

Filing(w) ==
  LET n == w.listing
      m == sent[n].market
      path == sent[n].path
  IN \/ /\ w.steps \in Seq(Files(path))
        /\ \E cur \in Seq(Named) :
             /\ Line(cur, w.found, m) /\ Thread(cur, w.steps, w.found, m)
             /\ Calm(n) => Firm(cur, w.steps, w.found, m)
     \/ /\ Head(w.steps).op = "inform"
        /\ LET c == Head(w.steps).category
           IN /\ c \in Given
              /\ Steady(c) => At(c, path, m)
              /\ Calm(n) => Exists(c) /\ n \in DOMAIN listings

Programs ==
  /\ work \in [Actor -> [steps : Seq(Step), found : Seq(Id), listing : Nat]]
  /\ Seeding(work["boot"])
  /\ ~ Idle("client") => Commanding(work["client"])
  /\ ~ Idle("inbox") => work["inbox"].listing \in DOMAIN sent /\ Filing(work["inbox"])

SentRows == sent \in Seq([market : Market, path : Path, template : Nat])

TemplateRows == templates \in Seq([market : Market \cup {NoMarket}, category : Id \cup {None}])

(* A listing has the key that it was sent with.                            *)
Filed ==
  \A n \in DOMAIN listings :
    Steady(listings[n]) => At(listings[n], sent[n].path, sent[n].market)

IInv == /\ TypeOK /\ SentRows /\ TemplateRows /\ Rows /\ MovedBelow /\ Keyed
        /\ Programs /\ Filed /\ StoredUnlessShaken

-----------------------------------------------------------------------------
(* A set of numbers has a least one.                                       *)
LEMMA Least ==
  ASSUME NEW T, T \subseteq Nat, T # {}
  PROVE  \E n \in T : \A m \in T : n <= m
<1> DEFINE R == OpToRel(<, Nat)
<1>1. IsWellFoundedOn(R, Nat)
  BY NatLessThanWellFounded
<1>2. \A m, n \in Nat : m < n => <<m, n>> \in R
  BY DEF OpToRel
<1> HIDE DEF R
<1>3. PICK n \in T : \A m \in T : ~ (<<m, n>> \in R)
  BY <1>1, WFMin
<1>4. \A m \in T : ~ (m < n)
  BY <1>2, <1>3
<1>5. \A m \in T : n <= m
  BY <1>4
<1> QED
  BY <1>3, <1>5

-----------------------------------------------------------------------------
(* Keys.                                                                   *)

(* The parts of the first i names.                                         *)
Flattens(p, f) == f = [i \in 1 .. Len(p) |-> IF i = 1 THEN p[i] ELSE f[i - 1] \o p[i]]

(* The recursion of a key has a solution.                                  *)
LEMMA FlattensExists ==
  ASSUME NEW p \in Path
  PROVE  \E f : Flattens(p, f)
<1> DEFINE At0(f, n) == f = [i \in 1 .. n |-> IF i = 1 THEN p[i] ELSE f[i - 1] \o p[i]]
           T == {n \in Nat : ~ \E f : At0(f, n)}
<1>1. Len(p) \in Nat
  BY LenProperties DEF Path
<1>2. T = {}
  <2> SUFFICES ASSUME T # {} PROVE FALSE
    OBVIOUS
  <2>1. PICK n \in T : \A k \in T : n <= k
    BY Least
  <2>2. n \in Nat /\ ~ \E f : At0(f, n)
    BY <2>1
  <2>3. CASE n = 0
    <3> DEFINE f == [i \in 1 .. 0 |-> <<>>]
    <3>1. f = [i \in 1 .. 0 |-> IF i = 1 THEN p[i] ELSE f[i - 1] \o p[i]]
      OBVIOUS
    <3> HIDE DEF f
    <3> QED
      BY <2>2, <2>3, <3>1
  <2>4. CASE n # 0
    <3>1. n - 1 \in Nat /\ ~ (n <= n - 1)
      BY <2>2, <2>4
    <3>2. PICK f : At0(f, n - 1)
      BY <2>1, <3>1
    <3> DEFINE Val(g, i) == IF i = 1 THEN p[i] ELSE g[i - 1] \o p[i]
               g == [i \in 1 .. n |-> IF i = n THEN Val(f, n) ELSE f[i]]
    <3>3. \A i \in 1 .. n - 1 : f[i] = Val(f, i)
      BY <3>2
    <3> HIDE DEF Val
    <3>4. ASSUME NEW i \in 1 .. n PROVE g[i] = Val(g, i)
      <4>1. i # 1 => i - 1 \in 1 .. n /\ i - 1 # n /\ g[i - 1] = f[i - 1]
        BY <2>2
      <4>2. Val(g, i) = Val(f, i)
        BY <4>1 DEF Val
      <4>3. CASE i = n
        BY <4>2, <4>3
      <4>4. CASE i # n
        <5>1. i \in 1 .. n - 1
          BY <2>2, <4>4
        <5> QED
          BY <3>3, <4>2, <4>4, <5>1
      <4> QED
        BY <4>3, <4>4
    <3>5. g = [i \in 1 .. n |-> g[i]]
      OBVIOUS
    <3> HIDE DEF g
    <3>6. g = [i \in 1 .. n |-> Val(g, i)]
      BY <3>4, <3>5
    <3>7. At0(g, n)
      BY <3>6 DEF Val
    <3> QED
      BY <2>2, <3>7
  <2> QED
    BY <2>3, <2>4
<1>3. \E f : At0(f, Len(p))
  BY <1>1, <1>2
<1> QED
  BY <1>3 DEF Flattens

(* A key is the last of the sequences that the recursion makes.            *)
LEMMA KeyFlattens ==
  ASSUME NEW p \in Path
  PROVE  /\ Len(p) \in Nat \ {0} /\ p \in Seq(Named)
         /\ \E f : /\ KeyOf(p) = f[Len(p)] /\ f[1] = p[1]
                   /\ \A i \in 2 .. Len(p) : f[i] = f[i - 1] \o p[i]
<1> DEFINE f == CHOOSE f : Flattens(p, f)
<1>1. Flattens(p, f)
  BY FlattensExists
<1>2. p \in Seq(Named) /\ Len(p) \in Nat \ {0}
  BY EmptySeq DEF Path
<1>3. KeyOf(p) = f[Len(p)]
  BY <1>2 DEF KeyOf, FlattenSeq, Flattens
<1> HIDE DEF f
<1>4. f[1] = p[1] /\ \A i \in 2 .. Len(p) : f[i] = f[i - 1] \o p[i]
  <2>1. \A i \in 1 .. Len(p) : f[i] = IF i = 1 THEN p[i] ELSE f[i - 1] \o p[i]
    BY <1>1 DEF Flattens
  <2>2. 1 \in 1 .. Len(p) /\ \A i \in 2 .. Len(p) : i \in 1 .. Len(p) /\ i # 1
    BY <1>2
  <2> QED
    BY <2>1, <2>2
<1> QED
  BY <1>2, <1>3, <1>4

(* What is named is a sequence of parts and has one.                       *)
LEMMA NamedSeq ==
  ASSUME NEW n \in Named
  PROVE  n \in Seq(Parts) /\ Len(n) \in Nat \ {0} /\ n[1] \in Parts
<1>1. n \in Seq(Parts) /\ n # <<>>
  BY DEF Named, Parts
<1>2. Len(n) \in Nat \ {0}
  BY <1>1, EmptySeq
<1>3. 1 \in 1 .. Len(n)
  BY <1>2
<1> QED
  BY <1>1, <1>2, <1>3, ElementOfSeq

(* Parts before a name.                                                    *)
LEMMA NamedConcat ==
  ASSUME NEW q \in Seq(Parts), NEW n \in Named
  PROVE  /\ q \o n \in Named /\ q \o n \in Seq(Parts) /\ Len(q \o n) = Len(q) + Len(n)
         /\ q # <<>> => (q \o n)[1] = q[1] /\ Len(q) \in Nat \ {0}
         /\ \A i \in 1 .. Len(n) : (q \o n)[Len(q) + i] = n[i]
<1>1. n \in Seq(Parts) /\ Len(n) \in Nat \ {0} /\ Len(q) \in Nat
  BY NamedSeq
<1> DEFINE t == q \o n
<1>2. /\ t \in Seq(Parts) /\ Len(t) = Len(q) + Len(n)
      /\ \A i \in 1 .. Len(q) + Len(n) : t[i] = IF i <= Len(q) THEN q[i] ELSE n[i - Len(q)]
  BY <1>1, ConcatProperties
<1> HIDE DEF t
<1>3. t # <<>>
  <2>1. Len(t) # 0
    BY <1>1, <1>2
  <2> QED
    BY <2>1
<1>4. t \in Named
  BY <1>2, <1>3 DEF Named, Parts
<1>5. ASSUME q # <<>> PROVE t[1] = q[1] /\ Len(q) \in Nat \ {0}
  <2>1. Len(q) \in Nat \ {0}
    BY <1>5, EmptySeq
  <2>2. 1 \in 1 .. Len(q) + Len(n) /\ 1 <= Len(q)
    BY <1>1, <2>1
  <2> QED
    BY <1>2, <2>1, <2>2
<1>6. ASSUME NEW i \in 1 .. Len(n) PROVE t[Len(q) + i] = n[i]
  <2>1. Len(q) + i \in 1 .. Len(q) + Len(n) /\ ~ (Len(q) + i <= Len(q)) /\ (Len(q) + i) - Len(q) = i
    BY <1>1
  <2> QED
    BY <1>2, <2>1
<1> QED
  BY <1>2, <1>4, <1>5, <1>6 DEF t

(* A key has the parts of every name, the first name's first.              *)
LEMMA KeyNamed ==
  ASSUME NEW p \in Path
  PROVE  KeyOf(p) \in Named /\ Len(KeyOf(p)) >= Len(p) /\ KeyOf(p)[1] = p[1][1]
<1>1. PICK f : /\ KeyOf(p) = f[Len(p)] /\ f[1] = p[1]
               /\ \A i \in 2 .. Len(p) : f[i] = f[i - 1] \o p[i]
  BY KeyFlattens
<1>2. Len(p) \in Nat \ {0} /\ p \in Seq(Named)
  BY KeyFlattens
<1>3. \A i \in 1 .. Len(p) : p[i] \in Named
  BY <1>2, ElementOfSeq
<1> DEFINE Good(i) == f[i] \in Named /\ Len(f[i]) >= i /\ f[i][1] = p[1][1]
           T == {i \in Nat : i \in 1 .. Len(p) /\ ~ Good(i)}
<1>4. T = {}
  <2> SUFFICES ASSUME T # {} PROVE FALSE
    OBVIOUS
  <2>1. PICK i \in T : \A k \in T : i <= k
    BY Least
  <2>2. i \in Nat /\ i \in 1 .. Len(p) /\ ~ Good(i) /\ p[i] \in Named
    BY <1>3, <2>1
  <2>3. CASE i = 1
    <3>1. f[1] \in Named /\ f[1][1] = p[1][1]
      BY <1>1, <2>2, <2>3
    <3>2. Len(f[1]) >= 1
      BY <3>1, NamedSeq
    <3> QED
      BY <2>2, <2>3, <3>1, <3>2
  <2>4. CASE i # 1
    <3>1. i - 1 \in Nat /\ i - 1 \in 1 .. Len(p) /\ ~ (i <= i - 1) /\ i \in 2 .. Len(p)
      BY <1>2, <2>2, <2>4
    <3>2. Good(i - 1)
      BY <2>1, <3>1
    <3> DEFINE q == f[i - 1]
               n == p[i]
    <3>3. f[i] = q \o n
      BY <1>1, <3>1
    <3>4. q \in Named /\ Len(q) >= i - 1 /\ q[1] = p[1][1] /\ n \in Named
      BY <2>2, <3>2
    <3> HIDE DEF q, n
    <3>5. q \in Seq(Parts) /\ q # <<>> /\ Len(q) \in Nat /\ Len(n) \in Nat \ {0}
      BY <3>4, NamedSeq DEF Named
    <3>6. q \o n \in Named /\ Len(q \o n) = Len(q) + Len(n) /\ (q \o n)[1] = q[1]
      BY <3>4, <3>5, NamedConcat
    <3>7. Len(q) + Len(n) >= i
      BY <2>2, <3>4, <3>5
    <3>8. f[i] \in Named /\ Len(f[i]) >= i /\ f[i][1] = p[1][1]
      BY <3>3, <3>4, <3>6, <3>7
    <3> QED
      BY <2>2, <3>8
  <2> QED
    BY <2>3, <2>4
<1>5. Len(p) \in Nat /\ Len(p) \in 1 .. Len(p)
  BY <1>2
<1>6. Good(Len(p))
  BY <1>4, <1>5
<1> QED
  BY <1>1, <1>6

(* The key of one name.                                                    *)
LEMMA KeyOne ==
  ASSUME NEW p \in Path, Len(p) = 1
  PROVE  KeyOf(p) = p[1]
BY KeyFlattens

(* The root is a path of one name that is its own key.                     *)
LEMMA KeyRoot ==
  ROOT \in Path /\ KeyOf(ROOT) = RootName /\ RootName \in Named /\ RootName[1] = "ROOT" /\ Len(RootName) = 1
<1>1. RootName \in Seq(Parts) /\ RootName # <<>> /\ RootName[1] = "ROOT" /\ Len(RootName) = 1
  BY DEF RootName, Parts
<1>2. RootName \in Named
  BY <1>1 DEF Named, Parts
<1>3. ROOT \in Seq(Named) /\ ROOT # <<>> /\ Len(ROOT) = 1 /\ ROOT[1] = RootName
  BY <1>2 DEF ROOT
<1>4. ROOT \in Path
  BY <1>3 DEF Path
<1> QED
  BY <1>1, <1>2, <1>3, <1>4, KeyOne

(* One more name, one more end.                                            *)
LEMMA KeyAppend ==
  ASSUME NEW p \in Path, NEW n \in Named
  PROVE  Append(p, n) \in Path /\ KeyOf(Append(p, n)) = KeyOf(p) \o n
<1> DEFINE a == Append(p, n)
<1>1. Len(p) \in Nat \ {0} /\ p \in Seq(Named)
  BY KeyFlattens
<1>2. /\ a \in Seq(Named) /\ Len(a) = Len(p) + 1
      /\ \A i \in 1 .. Len(p) : a[i] = p[i]
      /\ a[Len(p) + 1] = n
  BY <1>1, AppendProperties
<1> HIDE DEF a
<1>3. a \in Path
  <2>1. Len(a) # 0
    BY <1>1, <1>2
  <2>2. a # <<>>
    BY <2>1
  <2> QED
    BY <1>2, <2>2 DEF Path
<1>4. PICK f : /\ KeyOf(p) = f[Len(p)] /\ f[1] = p[1]
               /\ \A i \in 2 .. Len(p) : f[i] = f[i - 1] \o p[i]
  BY KeyFlattens
<1>5. PICK g : /\ KeyOf(a) = g[Len(a)] /\ g[1] = a[1]
               /\ \A i \in 2 .. Len(a) : g[i] = g[i - 1] \o a[i]
  BY <1>3, KeyFlattens
<1> DEFINE T == {i \in Nat : i \in 1 .. Len(p) /\ f[i] # g[i]}
<1>6. T = {}
  <2> SUFFICES ASSUME T # {} PROVE FALSE
    OBVIOUS
  <2>1. PICK i \in T : \A k \in T : i <= k
    BY Least
  <2>2. i \in Nat /\ i \in 1 .. Len(p) /\ f[i] # g[i]
    BY <2>1
  <2>3. CASE i = 1
    BY <1>2, <1>4, <1>5, <2>2, <2>3
  <2>4. CASE i # 1
    <3>1. /\ i - 1 \in Nat /\ i - 1 \in 1 .. Len(p) /\ ~ (i <= i - 1)
          /\ i \in 2 .. Len(p) /\ i \in 2 .. Len(p) + 1
      BY <1>1, <2>2, <2>4
    <3>2. f[i - 1] = g[i - 1]
      BY <2>1, <3>1
    <3>3. f[i] = f[i - 1] \o p[i] /\ g[i] = g[i - 1] \o a[i] /\ a[i] = p[i]
      BY <1>2, <1>4, <1>5, <2>2, <3>1
    <3> QED
      BY <2>2, <3>2, <3>3
  <2> QED
    BY <2>3, <2>4
<1>7. Len(p) \in Nat /\ Len(p) \in 1 .. Len(p) /\ Len(p) + 1 \in 2 .. Len(p) + 1 /\ (Len(p) + 1) - 1 = Len(p)
  BY <1>1
<1>8. f[Len(p)] = g[Len(p)]
  BY <1>6, <1>7
<1>9. g[Len(p) + 1] = g[Len(p)] \o n
  BY <1>2, <1>5, <1>7
<1> QED
  BY <1>2, <1>3, <1>4, <1>5, <1>8, <1>9 DEF a

(* One more ancestor in front of a line.                                   *)
Up(s) ==
  LET parent == categories[s[1]].parent
  IN IF parent = None THEN s ELSE <<parent>> \o s
Climb(c, n, f) == f = [k \in 0 .. n |-> IF k = 0 THEN <<c>> ELSE Up(f[k - 1])]

(* The recursion that getArray() stands for has a solution.                *)
LEMMA ClimbExists ==
  ASSUME NEW c, NEW n \in Nat
  PROVE  \E f : Climb(c, n, f)
<1> DEFINE T == {m \in Nat : ~ \E f : Climb(c, m, f)}
<1>1. SUFFICES ASSUME T # {} PROVE FALSE
  OBVIOUS
<1>2. PICK m \in T : \A k \in T : m <= k
  BY <1>1, Least
<1>3. m \in Nat /\ ~ \E f : Climb(c, m, f)
  BY <1>2
<1>4. CASE m = 0
  <2> DEFINE f == [k \in 0 .. 0 |-> <<c>>]
  <2>1. Climb(c, 0, f)
    BY DEF Climb
  <2> QED
    BY <1>3, <1>4, <2>1
<1>5. CASE m # 0
  <2>1. m - 1 \in Nat /\ ~ (m <= m - 1)
    BY <1>3, <1>5
  <2>2. m - 1 \notin T
    BY <1>2, <2>1
  <2>3. PICK f : Climb(c, m - 1, f)
    BY <2>1, <2>2
  <2> DEFINE g == [k \in 0 .. m |-> IF k = m THEN Up(f[m - 1]) ELSE f[k]]
  <2>4. \A k \in 0 .. m : g[k] = IF k = 0 THEN <<c>> ELSE Up(g[k - 1])
    <3> SUFFICES ASSUME NEW k \in 0 .. m
                 PROVE  g[k] = IF k = 0 THEN <<c>> ELSE Up(g[k - 1])
      OBVIOUS
    <3>1. CASE k = m
      <4>1. m - 1 \in 0 .. m /\ m - 1 # m
        BY <2>1, <1>3
      <4>2. g[m] = Up(f[m - 1]) /\ g[m - 1] = f[m - 1]
        BY <4>1, <1>3
      <4> QED
        BY <3>1, <4>2, <1>5
    <3>2. CASE k # m
      <4>1. k \in 0 .. (m - 1) /\ (k # 0 => k - 1 \in 0 .. m /\ k - 1 # m)
        BY <3>2, <1>3
      <4>2. f[k] = IF k = 0 THEN <<c>> ELSE Up(f[k - 1])
        BY <4>1, <2>3 DEF Climb
      <4>3. g[k] = f[k] /\ (k # 0 => g[k - 1] = f[k - 1])
        BY <3>2, <4>1
      <4> QED
        BY <4>2, <4>3
    <3> QED
      BY <3>1, <3>2
  <2>5. g = [k \in 0 .. m |-> g[k]]
    OBVIOUS
  <2> HIDE DEF g
  <2>6. Climb(c, m, g)
    BY <2>4, <2>5 DEF Climb
  <2> QED
    BY <1>3, <2>6
<1> QED
  BY <1>4, <1>5

(* The names are those of the last line that the recursion makes.          *)
LEMMA Loaded ==
  ASSUME NEW c, NEW n \in Nat
  PROVE  \E f : /\ Climb(c, n, f)
                /\ GetArray(c, n) = [k \in DOMAIN f[n] |-> categories[f[n][k]].name]
<1> DEFINE f == CHOOSE g : Climb(c, n, g)
<1>1. Climb(c, n, f)
  BY ClimbExists
<1>2. GetArray(c, n) = [k \in DOMAIN f[n] |-> categories[f[n][k]].name]
  BY DEF GetArray, Climb, Up
<1> QED
  BY <1>1, <1>2

(* A line of categories down to c with up to n of its ancestors.           *)
Ancestry(l, c, n) ==
  /\ l \in Seq(DOMAIN categories) /\ Len(l) \in 1 .. n + 1 /\ l[Len(l)] = c
  /\ \A i \in 1 .. Len(l) - 1 : categories[l[i + 1]].parent = l[i] /\ l[i] # None
  /\ Len(l) = n + 1 \/ categories[l[1]].parent = None

(* The categories' ids, keys and parents, as the type invariant has them.  *)
LEMMA RowTypes ==
  ASSUME TypeOK, NEW c \in DOMAIN categories
  PROVE  /\ c \in Id /\ c # None /\ c \in Given
         /\ categories[c].key \in Named /\ categories[c].name \in Named /\ categories[c].market \in Market \cup {NoMarket}
         /\ categories[c].parent \in Id \cup {None}
         /\ categories[c].parent # None => categories[c].parent \in DOMAIN categories
<1>1. c \in 1 .. last /\ last \in 0 .. MaxCategories
  BY DEF TypeOK
<1>2. MaxCategories \in Nat
  BY CategoriesAssumption
<1>3. c \in Id /\ c # None /\ c \in Given
  BY <1>1, <1>2 DEF Id, None, Given
<1> QED
  BY <1>3 DEF TypeOK, Category, Exists

(* A path is a sequence of names and has one.                              *)
LEMMA PathSeq ==
  ASSUME NEW p \in Path
  PROVE  /\ p \in Seq(Named) /\ Len(p) \in Nat \ {0} /\ p[1] \in Named
         /\ Last(p) \in Named /\ Last(p) = p[Len(p)]
<1>1. p \in Seq(Named) /\ p # <<>>
  BY DEF Path
<1>2. Len(p) \in Nat \ {0}
  BY <1>1, EmptySeq
<1>3. 1 \in 1 .. Len(p) /\ Len(p) \in 1 .. Len(p)
  BY <1>2
<1>4. p[1] \in Named /\ p[Len(p)] \in Named
  BY <1>1, <1>3, ElementOfSeq
<1> QED
  BY <1>1, <1>2, <1>4 DEF Last

(* One more ancestor makes a line of one more, or the line was whole.      *)
LEMMA UpKeeps ==
  ASSUME TypeOK, NEW c, NEW n \in Nat, NEW l, Ancestry(l, c, n)
  PROVE  Ancestry(Up(l), c, n + 1)
<1> DEFINE p == categories[l[1]].parent
           u == <<p>> \o l
           D == DOMAIN categories
<1>1. /\ l \in Seq(D) /\ Len(l) \in 1 .. n + 1 /\ l[Len(l)] = c
      /\ \A i \in 1 .. Len(l) - 1 : categories[l[i + 1]].parent = l[i] /\ l[i] # None
      /\ Len(l) = n + 1 \/ p = None
  BY DEF Ancestry
<1>2. l[1] \in D
  BY <1>1, ElementOfSeq
<1>3. CASE p = None
  <2>1. Up(l) = l
    BY <1>3 DEF Up
  <2> QED
    BY <1>1, <1>3, <2>1 DEF Ancestry
<1>4. CASE p # None
  <2>1. Up(l) = u
    BY <1>4 DEF Up
  <2>2. p \in D
    BY <1>2, <1>4, RowTypes
  <2> HIDE DEF p, D
  <2>3. <<p>> \in Seq(D) /\ Len(<<p>>) = 1 /\ <<p>>[1] = p
    BY <2>2
  <2> DEFINE q == <<p>>
  <2> HIDE DEF q
  <2>4. q \in Seq(D) /\ Len(q) = 1 /\ q[1] = p /\ u = q \o l
    BY <2>3 DEF q
  <2>5. /\ u \in Seq(D) /\ Len(u) = 1 + Len(l)
        /\ \A i \in 1 .. 1 + Len(l) : u[i] = IF i <= 1 THEN q[i] ELSE l[i - 1]
    BY <1>1, <2>4, ConcatProperties, SMTT(30)
  <2> HIDE DEF u
  <2>6. u[1] = p /\ \A i \in 1 .. Len(l) : u[i + 1] = l[i]
    <3>1. Len(l) \in Nat /\ 1 \in 1 .. 1 + Len(l)
      BY <1>1
    <3>2. \A i \in 1 .. Len(l) : i + 1 \in 1 .. 1 + Len(l) /\ ~ (i + 1 <= 1) /\ (i + 1) - 1 = i
      BY <3>1
    <3> QED
      BY <2>4, <2>5, <3>1, <3>2
  <2>7. u[Len(u)] = c
    <3>1. Len(l) \in 1 .. Len(l) /\ Len(u) = Len(l) + 1
      BY <1>1, <2>5
    <3> QED
      BY <1>1, <2>6, <3>1
  <2>8. \A i \in 1 .. Len(u) - 1 : categories[u[i + 1]].parent = u[i] /\ u[i] # None
    <3> SUFFICES ASSUME NEW i \in 1 .. Len(u) - 1
                 PROVE  categories[u[i + 1]].parent = u[i] /\ u[i] # None
      OBVIOUS
    <3>1. i \in 1 .. Len(l) /\ u[i + 1] = l[i]
      BY <1>1, <2>5, <2>6
    <3>2. CASE i = 1
      BY <1>4, <2>6, <3>1, <3>2 DEF p
    <3>3. CASE i # 1
      <4>1. i - 1 \in 1 .. Len(l) - 1 /\ i - 1 \in 1 .. Len(l) /\ (i - 1) + 1 = i
        BY <3>1, <3>3, <1>1
      <4>2. u[i] = l[i - 1]
        BY <2>6, <4>1
      <4>3. categories[l[i]].parent = l[i - 1] /\ l[i - 1] # None
        BY <1>1, <4>1
      <4> QED
        BY <3>1, <4>2, <4>3
    <3> QED
      BY <3>2, <3>3
  <2>9. Len(u) \in 1 .. (n + 1) + 1 /\ Len(u) = (n + 1) + 1
    BY <1>1, <1>4, <2>5
  <2> QED
    BY <2>1, <2>5, <2>7, <2>8, <2>9 DEF Ancestry, D
<1> QED
  BY <1>3, <1>4

(* getArray() names the line of a category and its ancestors.              *)
LEMMA Ancestors ==
  ASSUME TypeOK, NEW c \in DOMAIN categories, NEW n \in Nat
  PROVE  \E l : Ancestry(l, c, n) /\ GetArray(c, n) = [k \in 1 .. Len(l) |-> categories[l[k]].name]
<1>1. PICK f : Climb(c, n, f) /\ GetArray(c, n) = [k \in DOMAIN f[n] |-> categories[f[n][k]].name]
  BY Loaded
<1>2. \A k \in 0 .. n : f[k] = IF k = 0 THEN <<c>> ELSE Up(f[k - 1])
  BY <1>1 DEF Climb
<1> DEFINE T == {k \in Nat : k <= n /\ ~ Ancestry(f[k], c, k)}
<1>3. T = {}
  <2> SUFFICES ASSUME T # {} PROVE FALSE
    OBVIOUS
  <2>1. PICK k \in T : \A j \in T : k <= j
    BY Least
  <2>2. k \in 0 .. n
    OBVIOUS
  <2>3. CASE k = 0
    <3>1. f[0] = <<c>>
      BY <1>2, <2>2, <2>3
    <3>2. Ancestry(<<c>>, c, 0)
      BY DEF Ancestry
    <3> QED
      BY <2>1, <2>3, <3>1, <3>2
  <2>4. CASE k # 0
    <3>1. k - 1 \in Nat /\ k - 1 <= n /\ ~ (k <= k - 1) /\ (k - 1) + 1 = k
      BY <2>2, <2>4
    <3>2. Ancestry(f[k - 1], c, k - 1)
      BY <2>1, <3>1
    <3>3. Ancestry(Up(f[k - 1]), c, k)
      BY <3>1, <3>2, UpKeeps
    <3> QED
      BY <1>2, <2>1, <2>2, <2>4, <3>3
  <2> QED
    BY <2>3, <2>4
<1>4. Ancestry(f[n], c, n)
  BY <1>3
<1>5. f[n] \in Seq(DOMAIN categories)
  BY <1>4 DEF Ancestry
<1>6. DOMAIN f[n] = 1 .. Len(f[n])
  BY <1>5, LenProperties
<1> QED
  BY <1>1, <1>4, <1>6

Tree == TypeOK /\ Rows /\ MovedBelow /\ Keyed

(* What is above a category that was not moved was not moved either.       *)
LEMMA AboveUnmoved ==
  ASSUME Tree, NEW c \in DOMAIN categories, c \notin moved, categories[c].parent # None
  PROVE  categories[c].parent \in DOMAIN categories /\ categories[c].parent \notin moved
<1>1. categories[c].parent \in DOMAIN categories
  BY RowTypes DEF Tree
<1>2. categories[c].parent \notin moved
  BY DEF Tree, MovedBelow, Children
<1> QED
  BY <1>1, <1>2

(* Cutting a sequence short.                                               *)
LEMMA Cut ==
  ASSUME NEW S, NEW s \in Seq(S), NEW n \in 0 .. Len(s)
  PROVE  /\ SubSeq(s, 1, n) \in Seq(S) /\ Len(SubSeq(s, 1, n)) = n
         /\ \A i \in 1 .. n : SubSeq(s, 1, n)[i] = s[i]
<1>1. Len(s) \in Nat /\ n \in Nat /\ n <= Len(s)
  BY LenProperties
<1>2. \A i \in 1 .. n : i \in 1 .. Len(s)
  BY <1>1
<1>3. \A i \in 1 .. n : s[i] \in S
  BY <1>2, ElementOfSeq
<1>4. n \in Int /\ 1 \in Int /\ n - 1 + 1 = n /\ \A i \in 1 .. n : 1 + i - 1 = i
  BY <1>1
<1>5. /\ SubSeq(s, 1, n) \in Seq(S)
      /\ Len(SubSeq(s, 1, n)) = IF 1 <= n THEN n - 1 + 1 ELSE 0
      /\ \A i \in 1 .. n - 1 + 1 : SubSeq(s, 1, n)[i] = s[1 + i - 1]
  BY <1>3, <1>4, SubSeqProperties
<1> QED
  BY <1>1, <1>4, <1>5

(* A shorter beginning of a beginning.                                     *)
LEMMA CutTwice ==
  ASSUME NEW S, NEW s \in Seq(S), NEW n \in 0 .. Len(s), NEW k \in 1 .. n
  PROVE  SubSeq(SubSeq(s, 1, n), 1, k) = SubSeq(s, 1, k)
<1>1. Len(s) \in Nat
  BY LenProperties
<1>2. n \in 1 .. Len(s) /\ 1 \in 1 .. Len(s) /\ 1 \in 1 .. n - 1 + 1 /\ k \in 1 .. n - 1 + 1
  BY <1>1
<1>3. SubSeq(SubSeq(s, 1, n), 1, k) = SubSeq(s, 1 + 1 - 1, 1 + k - 1)
  BY <1>2, SubSeqOfSubSeq
<1>4. 1 + 1 - 1 = 1 /\ 1 + k - 1 = k
  OBVIOUS
<1> QED
  BY <1>3, <1>4

(* A path of several names is a shorter one and its last name.             *)
LEMMA KeyCut ==
  ASSUME NEW p \in Path, Len(p) # 1
  PROVE  LET q == SubSeq(p, 1, Len(p) - 1)
         IN /\ q \in Path /\ q[1] = p[1] /\ Last(p) \in Named
            /\ KeyOf(p) = KeyOf(q) \o Last(p) /\ Len(KeyOf(p)) > 1
<1> DEFINE k == Len(p) - 1
           q == SubSeq(p, 1, k)
<1>1. p \in Seq(Named) /\ Len(p) \in Nat \ {0} /\ Last(p) \in Named /\ Last(p) = p[Len(p)]
  BY PathSeq
<1>2. k \in 0 .. Len(p) /\ k \in Nat \ {0} /\ 1 \in 1 .. k /\ Len(p) \in 1 .. Len(p) /\ 1 \in 1 .. Len(p)
  <2> DEFINE n == Len(p)
  <2>1. n \in Nat \ {0} /\ n # 1
    BY <1>1
  <2> HIDE DEF n
  <2>2. n - 1 \in 0 .. n /\ n - 1 \in Nat \ {0} /\ 1 \in 1 .. n - 1 /\ n \in 1 .. n /\ 1 \in 1 .. n
    BY <2>1
  <2> QED
    BY <2>2 DEF n
<1>3. q \in Seq(Named) /\ Len(q) = k /\ \A i \in 1 .. k : q[i] = p[i]
  BY <1>1, <1>2, Cut
<1>4. p = Append(q, Last(p))
  <2>1. SubSeq(p, 1, Len(p)) = SubSeq(p, 1, Len(p) - 1) \o <<p[Len(p)]>>
    BY <1>1, <1>2, SubSeqRecursiveSecond
  <2>2. SubSeq(p, 1, Len(p)) = p
    BY <1>1, SubSeqFull
  <2>3. Append(q, Last(p)) = q \o <<Last(p)>>
    BY <1>1, <1>3, AppendIsConcat
  <2> QED
    BY <1>1, <2>1, <2>2, <2>3
<1> HIDE DEF k, q
<1>5. q \in Path
  <2>1. q # <<>>
    BY <1>2, <1>3
  <2> QED
    BY <1>3, <2>1 DEF Path
<1>6. KeyOf(p) = KeyOf(q) \o Last(p)
  BY <1>1, <1>4, <1>5, KeyAppend
<1>7. Len(KeyOf(p)) > 1
  <2>1. KeyOf(p) \in Named /\ Len(KeyOf(p)) >= Len(p)
    BY KeyNamed
  <2> DEFINE n == Len(p)
             m == Len(KeyOf(p))
  <2>2. m \in Nat /\ m >= n /\ n \in Nat \ {0} /\ n # 1
    BY <1>1, <2>1, NamedSeq
  <2> HIDE DEF n, m
  <2>3. m > 1
    BY <2>2
  <2> QED
    BY <2>3 DEF m
<1> QED
  BY <1>1, <1>2, <1>3, <1>5, <1>6, <1>7 DEF q, k

(* Ends of sequences.                                                      *)
LEMMA EndsItself ==
  ASSUME NEW s \in Named
  PROVE  Ends(s, s)
<1>1. s \in Seq(Parts) /\ <<>> \in Seq(Parts)
  BY NamedSeq
<1>2. s = <<>> \o s
  BY <1>1, ConcatEmptySeq
<1> QED
  BY <1>1, <1>2 DEF Ends

(* What one path ends with, it ends with too when both are lengthened.     *)
LEMMA EndsLonger ==
  ASSUME NEW s \in Named, NEW t, Ends(s, t), NEW n \in Named
  PROVE  Ends(s \o n, t \o n)
<1>1. PICK q \in Seq(Parts) : t = q \o s
  BY DEF Ends
<1>2. s \in Seq(Parts) /\ n \in Seq(Parts)
  BY NamedSeq
<1>3. t \o n = q \o (s \o n)
  BY <1>1, <1>2, ConcatAssociative
<1> QED
  BY <1>3 DEF Ends

(* With ROOT nowhere but at the top, an end with ROOT is all.              *)
LEMMA EndsRoot ==
  ASSUME NEW s \in Named, NEW t, Ends(s, t), s[1] = "ROOT", \A k \in 2 .. Len(t) : t[k] # "ROOT"
  PROVE  s = t
<1>1. PICK q \in Seq(Parts) : t = q \o s
  BY DEF Ends
<1>2. s \in Seq(Parts) /\ Len(s) \in Nat \ {0} /\ Len(q) \in Nat
  BY NamedSeq, LenProperties
<1>3. Len(t) = Len(q) + Len(s) /\ \A i \in 1 .. Len(s) : t[Len(q) + i] = s[i]
  BY <1>1, NamedConcat
<1>4. q = <<>>
  <2> SUFFICES ASSUME q # <<>> PROVE FALSE
    OBVIOUS
  <2>1. Len(q) # 0
    BY EmptySeq
  <2>2. 1 \in 1 .. Len(s) /\ Len(q) + 1 \in 2 .. Len(q) + Len(s)
    BY <1>2, <2>1
  <2>3. t[Len(q) + 1] = "ROOT"
    BY <1>3, <2>2
  <2> QED
    BY <1>3, <2>2, <2>3
<1> QED
  BY <1>1, <1>2, <1>4, ConcatEmptySeq

(* Three sequences in a row, however they are bracketed.                   *)
LEMMA Associative ==
  \A q, r, s \in Seq(Parts) : q \o (r \o s) = (q \o r) \o s
BY ConcatAssociative

(* A function on 1 .. n is a sequence of length n.                         *)
LEMMA FunctionIsSeq ==
  ASSUME NEW S, NEW n \in Nat, NEW f \in [1 .. n -> S]
  PROVE  f \in Seq(S) /\ Len(f) = n
OBVIOUS

(* Of two ends of the same, the shorter is an end of the longer.           *)
LEMMA EndsBoth ==
  ASSUME NEW s \in Named, NEW u \in Named, NEW t, Ends(s, t), Ends(u, t), Len(s) <= Len(u)
  PROVE  IsSuffix(s, u) /\ (u = t \/ Len(u) < Len(t))
<1>1. PICK q \in Seq(Parts) : t = q \o s
  BY DEF Ends
<1>2. PICK r \in Seq(Parts) : t = r \o u
  BY DEF Ends
<1>3. /\ s \in Seq(Parts) /\ Len(s) \in Nat \ {0} /\ Len(q) \in Nat
      /\ u \in Seq(Parts) /\ Len(u) \in Nat \ {0} /\ Len(r) \in Nat
  BY NamedSeq, LenProperties
<1>4. Len(t) = Len(q) + Len(s) /\ \A i \in 1 .. Len(s) : t[Len(q) + i] = s[i]
  BY <1>1, NamedConcat
<1>5. Len(t) = Len(r) + Len(u) /\ \A i \in 1 .. Len(u) : t[Len(r) + i] = u[i]
  BY <1>2, NamedConcat
<1>6. ASSUME NEW i \in 1 .. Len(s) PROVE s[(Len(s) - i) + 1] = u[(Len(u) - i) + 1]
  <2> DEFINE j == (Len(s) - i) + 1
             k == (Len(u) - i) + 1
  <2>1. j \in 1 .. Len(s) /\ k \in 1 .. Len(u) /\ Len(q) + j = Len(r) + k
    BY <1>3, <1>4, <1>5
  <2>2. t[Len(q) + j] = s[j] /\ t[Len(r) + k] = u[k]
    BY <1>4, <1>5, <2>1
  <2> QED
    BY <2>1, <2>2
<1> DEFINE a == Reverse(s)
           b == Reverse(u)
<1>7. a = [i \in 1 .. Len(s) |-> s[(Len(s) - i) + 1]] /\ b = [i \in 1 .. Len(u) |-> u[(Len(u) - i) + 1]]
  BY DEF Reverse
<1>8. /\ \A i \in 1 .. Len(s) : s[(Len(s) - i) + 1] \in Parts
      /\ \A i \in 1 .. Len(u) : u[(Len(u) - i) + 1] \in Parts
  <2>1. /\ \A i \in 1 .. Len(s) : (Len(s) - i) + 1 \in 1 .. Len(s)
        /\ \A i \in 1 .. Len(u) : (Len(u) - i) + 1 \in 1 .. Len(u)
    BY <1>3
  <2> QED
    BY <1>3, <2>1, ElementOfSeq
<1>9. a \in [1 .. Len(s) -> Parts] /\ b \in [1 .. Len(u) -> Parts]
  BY <1>7, <1>8
<1>10. \A i \in 1 .. Len(s) : i \in 1 .. Len(u) /\ a[i] = b[i]
  BY <1>3, <1>6, <1>7
<1> HIDE DEF a, b
<1>11. a \in Seq(Parts) /\ Len(a) = Len(s) /\ b \in Seq(Parts) /\ Len(b) = Len(u)
  BY <1>3, <1>9, FunctionIsSeq
<1>12. Len(s) \in 0 .. Len(a) /\ Len(s) \in 0 .. Len(b)
  BY <1>3, <1>11
<1>13. /\ SubSeq(a, 1, Len(s)) \in Seq(Parts) /\ Len(SubSeq(a, 1, Len(s))) = Len(s)
       /\ \A i \in 1 .. Len(s) : SubSeq(a, 1, Len(s))[i] = a[i]
  BY <1>11, <1>12, Cut
<1>14. /\ SubSeq(b, 1, Len(s)) \in Seq(Parts) /\ Len(SubSeq(b, 1, Len(s))) = Len(s)
       /\ \A i \in 1 .. Len(s) : SubSeq(b, 1, Len(s))[i] = b[i]
  BY <1>11, <1>12, Cut
<1>15. SubSeq(a, 1, Len(s)) = SubSeq(b, 1, Len(s))
  <2> DEFINE x == SubSeq(a, 1, Len(s))
             y == SubSeq(b, 1, Len(s))
  <2> HIDE DEF x, y
  <2>1. x \in Seq(Parts) /\ y \in Seq(Parts) /\ Len(x) = Len(y) /\ \A i \in 1 .. Len(x) : x[i] = y[i]
    BY <1>10, <1>13, <1>14 DEF x, y
  <2>2. x = y
    BY <2>1, SeqEqual
  <2> QED
    BY <2>2 DEF x, y
<1>16. IsSuffix(s, u)
  BY <1>11, <1>15 DEF IsSuffix, IsPrefix, a, b
<1>17. u = t \/ Len(u) < Len(t)
  <2>1. CASE r = <<>>
    BY <1>2, <1>3, <2>1, ConcatEmptySeq
  <2>2. CASE r # <<>>
    <3>1. Len(r) # 0
      BY <2>2, EmptySeq
    <3> QED
      BY <1>3, <1>5, <3>1
  <2> QED
    BY <2>1, <2>2
<1> QED
  BY <1>16, <1>17

(* Names that are loaded make a path.                                      *)
LEMMA ArrayPath ==
  ASSUME TypeOK, NEW c \in DOMAIN categories, NEW n \in Nat
  PROVE  GetArray(c, n) \in Path
<1>1. PICK l : Ancestry(l, c, n) /\ GetArray(c, n) = [k \in 1 .. Len(l) |-> categories[l[k]].name]
  BY Ancestors
<1>2. l \in Seq(DOMAIN categories) /\ Len(l) \in Nat \ {0}
  BY <1>1 DEF Ancestry
<1>3. \A k \in 1 .. Len(l) : categories[l[k]].name \in Named
  <2> TAKE k \in 1 .. Len(l)
  <2>1. l[k] \in DOMAIN categories
    BY <1>2, ElementOfSeq
  <2> QED
    BY <2>1, RowTypes
<1> DEFINE a == [k \in 1 .. Len(l) |-> categories[l[k]].name]
<1>4. a \in [1 .. Len(l) -> Named]
  BY <1>3
<1> HIDE DEF a
<1>5. a \in Seq(Named) /\ Len(a) = Len(l)
  BY <1>2, <1>4
<1>6. a # <<>>
  BY <1>2, <1>5
<1>7. a \in Path
  BY <1>5, <1>6 DEF Path
<1> QED
  BY <1>1, <1>7 DEF a

(* A whole line above a category that was not moved was not moved.         *)
LEMMA LineUnmoved ==
  ASSUME Tree, NEW c \in DOMAIN categories, c \notin moved,
         NEW n \in Nat, NEW l, Ancestry(l, c, n),
         NEW j \in Nat, j < Len(l)
  PROVE  l[Len(l) - j] \in DOMAIN categories /\ l[Len(l) - j] \notin moved
<1> DEFINE Good(i) == l[Len(l) - i] \in DOMAIN categories /\ l[Len(l) - i] \notin moved
           T == {i \in Nat : i < Len(l) /\ ~ Good(i)}
<1>1. /\ l \in Seq(DOMAIN categories) /\ Len(l) \in Nat \ {0} /\ l[Len(l)] = c
      /\ \A i \in 1 .. Len(l) - 1 : categories[l[i + 1]].parent = l[i] /\ l[i] # None
  BY DEF Ancestry
<1>2. T = {}
  <2> SUFFICES ASSUME T # {} PROVE FALSE
    OBVIOUS
  <2>1. PICK i \in T : \A k \in T : i <= k
    BY Least
  <2>2. i \in Nat /\ i < Len(l) /\ ~ Good(i)
    BY <2>1
  <2>3. CASE i = 0
    <3>1. Len(l) - 0 = Len(l)
      BY <1>1
    <3> QED
      BY <1>1, <2>2, <2>3, <3>1
  <2>4. CASE i # 0
    <3>1. i - 1 \in Nat /\ i - 1 < Len(l) /\ ~ (i <= i - 1)
      BY <1>1, <2>2, <2>4
    <3>2. Good(i - 1)
      BY <2>1, <3>1
    <3>3. Len(l) - i \in 1 .. Len(l) - 1 /\ (Len(l) - i) + 1 = Len(l) - (i - 1)
      BY <1>1, <2>2, <2>4
    <3>4. categories[l[Len(l) - (i - 1)]].parent = l[Len(l) - i] /\ l[Len(l) - i] # None
      BY <1>1, <3>3
    <3>5. Good(i)
      BY <3>2, <3>4, AboveUnmoved
    <3> QED
      BY <2>2, <3>5
  <2> QED
    BY <2>3, <2>4
<1> QED
  BY <1>2

(* What the names of a category that was not moved come to.                *)
LEMMA WholeFacts ==
  ASSUME Tree, NEW c \in DOMAIN categories, c \notin moved
  PROVE  /\ Whole[c] \in Named /\ Ends(categories[c].key, Whole[c])
         /\ \A k \in 2 .. Len(Whole[c]) : Whole[c][k] # "ROOT"
         /\ categories[c].key[1] = "ROOT" => categories[c].key = Whole[c]
         /\ categories[c].parent = None => Whole[c] = categories[c].name
         /\ categories[c].parent # None => Whole[c] = Whole[categories[c].parent] \o categories[c].name
<1> DEFINE w == Whole
<1>1. w \in [DOMAIN categories \ moved -> Named]
  BY DEF Tree, Keyed, Joins
<1>2. w[c] = IF categories[c].parent = None THEN categories[c].name
             ELSE w[categories[c].parent] \o categories[c].name
  BY DEF Tree, Keyed, Joins
<1>3. Ends(categories[c].key, w[c]) /\ \A k \in 2 .. Len(w[c]) : w[c][k] # "ROOT"
  BY DEF Tree, Keyed
<1>4. categories[c].key \in Named
  BY RowTypes DEF Tree
<1> HIDE DEF w
<1>5. w[c] \in Named
  BY <1>1
<1>6. categories[c].key[1] = "ROOT" => categories[c].key = w[c]
  BY <1>3, <1>4, EndsRoot
<1> QED
  BY <1>2, <1>3, <1>5, <1>6 DEF w

(* The names of a line of categories, joined, are the end of all of them.  *)
LEMMA LineWhole ==
  ASSUME Tree, NEW c \in DOMAIN categories, c \notin moved,
         NEW n \in Nat, NEW l, Ancestry(l, c, n),
         NEW arr, arr = [k \in 1 .. Len(l) |-> categories[l[k]].name]
  PROVE  /\ arr \in Path /\ Len(arr) = Len(l) /\ Len(l) \in Nat
         /\ Ends(KeyOf(arr), Whole[c])
         /\ categories[l[1]].parent = None => KeyOf(arr) = Whole[c]
<1> DEFINE w == Whole
<1>1. /\ l \in Seq(DOMAIN categories) /\ Len(l) \in Nat \ {0} /\ l[Len(l)] = c
      /\ \A i \in 1 .. Len(l) - 1 : categories[l[i + 1]].parent = l[i] /\ l[i] # None
  BY DEF Ancestry
<1>2. \A i \in 1 .. Len(l) : l[i] \in DOMAIN categories /\ l[i] \notin moved
  <2> TAKE i \in 1 .. Len(l)
  <2> DEFINE j == Len(l) - i
  <2>1. j \in Nat /\ j < Len(l) /\ Len(l) - j = i
    BY <1>1
  <2> HIDE DEF j
  <2>2. l[Len(l) - j] \in DOMAIN categories /\ l[Len(l) - j] \notin moved
    BY <2>1, LineUnmoved
  <2> QED
    BY <2>1, <2>2
<1>3. \A i \in 1 .. Len(l) : categories[l[i]].name \in Named
  BY <1>2, RowTypes DEF Tree
<1>4. arr \in Seq(Named) /\ Len(arr) = Len(l) /\ \A i \in 1 .. Len(l) : arr[i] = categories[l[i]].name
  <2>1. arr \in [1 .. Len(l) -> Named]
    BY <1>3
  <2> QED
    BY <1>1, <2>1
<1>5. arr \in Path
  <2>1. Len(arr) # 0
    BY <1>1, <1>4
  <2>2. arr # <<>>
    BY <2>1
  <2> QED
    BY <1>4, <2>2 DEF Path
<1>6. 1 \in 1 .. Len(l) /\ Len(l) \in 1 .. Len(l)
  BY <1>1
<1>7. PICK q \in Seq(Parts) : w[l[1]] = q \o arr[1] /\ (categories[l[1]].parent = None => q = <<>>)
  <2>1. l[1] \in DOMAIN categories /\ l[1] \notin moved /\ arr[1] = categories[l[1]].name /\ arr[1] \in Named
    BY <1>2, <1>3, <1>4, <1>6
  <2>2. arr[1] \in Seq(Parts)
    BY <2>1, NamedSeq
  <2>3. CASE categories[l[1]].parent = None
    <3>1. w[l[1]] = arr[1]
      BY <2>1, <2>3, WholeFacts
    <3>2. w[l[1]] = <<>> \o arr[1] /\ <<>> \in Seq(Parts)
      BY <2>2, <3>1, ConcatEmptySeq
    <3> QED
      BY <3>2
  <2>4. CASE categories[l[1]].parent # None
    <3> DEFINE p == categories[l[1]].parent
    <3>1. p \in DOMAIN categories /\ p \notin moved /\ w[l[1]] = w[p] \o arr[1]
      BY <2>1, <2>4, AboveUnmoved, WholeFacts
    <3>2. w[p] \in Seq(Parts)
      BY <3>1, WholeFacts, NamedSeq
    <3> QED
      BY <2>4, <3>1, <3>2
  <2> QED
    BY <2>3, <2>4
<1> DEFINE Good(k) == SubSeq(arr, 1, k) \in Path /\ w[l[k]] = q \o KeyOf(SubSeq(arr, 1, k))
           T == {k \in Nat : k \in 1 .. Len(l) /\ ~ Good(k)}
<1> HIDE DEF w
<1>8. T = {}
  <2> SUFFICES ASSUME T # {} PROVE FALSE
    OBVIOUS
  <2>1. PICK k \in T : \A j \in T : k <= j
    BY Least
  <2>2. k \in Nat /\ k \in 1 .. Len(l) /\ ~ Good(k)
    BY <2>1
  <2> DEFINE s == SubSeq(arr, 1, k)
  <2>3. s \in Seq(Named) /\ Len(s) = k /\ \A i \in 1 .. k : s[i] = arr[i]
    <3>1. k \in 0 .. Len(arr)
      BY <1>4, <2>2
    <3> QED
      BY <1>4, <3>1, Cut
  <2>4. s \in Path
    <3>1. Len(s) # 0
      BY <2>2, <2>3
    <3> HIDE DEF s
    <3>2. s # <<>>
      BY <3>1
    <3> QED
      BY <2>3, <3>2 DEF Path
  <2>5. CASE k = 1
    <3>1. 1 \in 1 .. k
      BY <2>5
    <3>2. KeyOf(s) = arr[1]
      BY <2>3, <2>4, <2>5, <3>1, KeyOne
    <3> QED
      BY <1>7, <2>2, <2>4, <2>5, <3>2
  <2>6. CASE k # 1
    <3>1. /\ k - 1 \in Nat /\ k - 1 \in 1 .. Len(l) /\ k - 1 \in 1 .. Len(l) - 1 /\ (k - 1) + 1 = k
          /\ ~ (k <= k - 1) /\ k \in 0 .. Len(arr) /\ k - 1 \in 1 .. k /\ k \in 1 .. k
      BY <1>1, <1>4, <2>2, <2>6
    <3>2. Good(k - 1)
      BY <2>1, <3>1
    <3> DEFINE r == SubSeq(arr, 1, k - 1)
    <3>3. r \in Path /\ w[l[k - 1]] = q \o KeyOf(r)
      BY <3>2
    <3>4. SubSeq(s, 1, Len(s) - 1) = r
      BY <1>4, <2>3, <3>1, CutTwice
    <3>5. Last(s) = arr[k]
      <4>1. s[k] = arr[k]
        BY <2>3, <3>1
      <4> HIDE DEF s
      <4> QED
        BY <2>3, <4>1 DEF Last
    <3> HIDE DEF s, r
    <3>6. KeyOf(s) = KeyOf(r) \o arr[k] /\ arr[k] \in Named
      BY <2>3, <2>4, <2>6, <3>4, <3>5, KeyCut
    <3>7. categories[l[k]].parent = l[k - 1] /\ l[k - 1] # None
      BY <1>1, <3>1
    <3>8. w[l[k]] = w[l[k - 1]] \o arr[k]
      BY <1>2, <1>4, <2>2, <3>7, WholeFacts DEF w
    <3>9. KeyOf(r) \in Seq(Parts) /\ arr[k] \in Seq(Parts) /\ q \in Seq(Parts)
      BY <1>7, <3>3, <3>6, KeyNamed, NamedSeq
    <3>10. q \o (KeyOf(r) \o arr[k]) = (q \o KeyOf(r)) \o arr[k]
      BY <3>9, Associative
    <3>11. w[l[k]] = q \o KeyOf(s)
      BY <3>3, <3>6, <3>8, <3>10
    <3> QED
      BY <2>2, <2>4, <3>11 DEF s
  <2> QED
    BY <2>5, <2>6
<1>9. Good(Len(l))
  BY <1>1, <1>6, <1>8
<1>10. SubSeq(arr, 1, Len(l)) = arr
  BY <1>4, SubSeqFull
<1>11. w[c] = q \o KeyOf(arr) /\ KeyOf(arr) \in Named
  BY <1>1, <1>5, <1>9, <1>10, KeyNamed
<1>12. categories[l[1]].parent = None => KeyOf(arr) = w[c]
  BY <1>7, <1>11, NamedSeq, ConcatEmptySeq
<1> QED
  BY <1>1, <1>4, <1>5, <1>11, <1>12 DEF Ends, w

(* The names of the parent with a name after them: the key of what the     *)
(* seller adds.                                                            *)
LEMMA AddFits ==
  ASSUME Tree, NEW p \in DOMAIN categories, p \notin moved, NEW name \in Name, NEW m, NEW q
  PROVE  FitsBelow(NewRow(Append(GetArray(p, Levels), name), m, q), p)
<1> DEFINE arr == GetArray(p, Levels)
           path == Append(arr, name)
<1>1. Levels \in Nat /\ name \in Named
  BY CategoriesAssumption
<1>2. arr \in Path /\ Ends(KeyOf(arr), Whole[p])
  <2>1. PICK l : Ancestry(l, p, Levels) /\ arr = [k \in 1 .. Len(l) |-> categories[l[k]].name]
    BY <1>1, Ancestors DEF Tree
  <2> HIDE DEF arr
  <2> QED
    BY <1>1, <2>1, LineWhole
<1> HIDE DEF arr
<1>3. path \in Path /\ KeyOf(path) = KeyOf(arr) \o name /\ Last(path) = name
  <2>1. path \in Path /\ KeyOf(path) = KeyOf(arr) \o name
    BY <1>1, <1>2, KeyAppend
  <2>2. Len(path) = Len(arr) + 1 /\ path[Len(arr) + 1] = name
    BY <1>1, <1>2, PathSeq, AppendProperties
  <2> HIDE DEF path
  <2> QED
    BY <2>1, <2>2 DEF Last
<1>4. KeyOf(arr) \in Named
  BY <1>2, KeyNamed
<1> HIDE DEF path
<1> QED
  BY <1>2, <1>3, <1>4 DEF FitsBelow, NewRow, path, arr

(* The key that a listing's category has is what its names give.           *)
LEMMA FiledByKey ==
  ASSUME IInv
  PROVE  FiledAsSent
<1> SUFFICES ASSUME NEW n \in DOMAIN listings, listings[n] # None, listings[n] \notin moved,
                    NEW key, key = KeyOf(sent[n].path),
                    NEW names, names = KeyOf(GetArray(listings[n], Len(key)))
             PROVE  /\ categories[listings[n]].market = sent[n].market
                    /\ IsSuffix(key, names) /\ (key[1] = "ROOT" => names = key)
  BY DEF FiledAsSent
<1> DEFINE c == listings[n]
           path == sent[n].path
           arr == GetArray(c, Len(key))
<1>1. Tree
  BY DEF IInv, Tree
<1>2. c \in DOMAIN categories /\ n \in DOMAIN sent
  BY DEF IInv, TypeOK, Exists
<1>3. categories[c].key = key /\ categories[c].market = sent[n].market
  BY <1>2 DEF IInv, Filed, Steady, At
<1>4. key \in Named /\ Len(key) \in Nat \ {0}
  BY <1>1, <1>2, <1>3, RowTypes, NamedSeq DEF Tree
<1>5. /\ Ends(key, Whole[c]) /\ Whole[c] \in Named /\ (key[1] = "ROOT" => key = Whole[c])
  BY <1>1, <1>2, <1>3, WholeFacts
<1>6. PICK l : Ancestry(l, c, Len(key)) /\ arr = [k \in 1 .. Len(l) |-> categories[l[k]].name]
  BY <1>1, <1>2, <1>4, Ancestors DEF Tree
<1>7. Len(l) = Len(key) + 1 \/ categories[l[1]].parent = None
  BY <1>6 DEF Ancestry
<1> HIDE DEF c, path, arr
<1>8. /\ arr \in Path /\ Len(arr) = Len(l) /\ Len(l) \in Nat /\ Ends(KeyOf(arr), Whole[c])
      /\ categories[l[1]].parent = None => KeyOf(arr) = Whole[c]
  BY <1>1, <1>2, <1>4, <1>6, LineWhole DEF c
<1>9. names = KeyOf(arr) /\ names \in Named /\ Len(names) >= Len(l) /\ Len(names) \in Nat
  BY <1>8, KeyNamed, NamedSeq DEF arr, c
<1>10. Len(Whole[c]) \in Nat /\ Len(key) <= Len(Whole[c]) /\ Ends(Whole[c], Whole[c])
  <2>1. Len(Whole[c]) \in Nat
    BY <1>5, NamedSeq
  <2>2. Ends(Whole[c], Whole[c])
    BY <1>5, EndsItself
  <2>3. ASSUME ~ (Len(key) <= Len(Whole[c])) PROVE FALSE
    <3>1. Len(Whole[c]) <= Len(key)
      BY <1>4, <2>1, <2>3
    <3>2. key = Whole[c] \/ Len(key) < Len(Whole[c])
      BY <1>4, <1>5, <2>2, <3>1, EndsBoth
    <3> QED
      BY <1>4, <2>1, <2>3, <3>2
  <2> QED
    BY <2>1, <2>2, <2>3
<1>11. Len(key) <= Len(names)
  BY <1>4, <1>7, <1>8, <1>9, <1>10
<1>12. IsSuffix(key, names) /\ (names = Whole[c] \/ Len(names) < Len(Whole[c]))
  BY <1>4, <1>5, <1>8, <1>9, <1>11, EndsBoth
<1>13. ASSUME key[1] = "ROOT" PROVE names = key
  BY <1>4, <1>5, <1>9, <1>11, <1>12, <1>13
<1> QED
  BY <1>3, <1>12, <1>13 DEF c

-----------------------------------------------------------------------------
(* What a step may do to the categories.                                   *)

Sound(c, row) ==
  /\ row \in Category /\ Admits(c, row)
  /\ row.parent = None \/ Len(row.key) = 1 => row.key = RootName
Inserted(row) ==
  /\ last' = last + 1 /\ last + 1 \in Id /\ Put(last + 1, row) /\ Sound(None, row)
  /\ row.parent = None => row.name = row.key
  /\ row.parent # None /\ Steady(row.parent) => FitsBelow(row, row.parent)
  /\ edited' = edited
Replaced(c, row) ==
  /\ c \in DOMAIN categories /\ last' = last /\ Put(c, row) /\ Sound(c, row)
  /\ row.market = categories[c].market
  /\ edited' \in {edited, edited \cup {c}}
  /\ \/ c \in edited'
     \/ Steady(c) =>
          /\ row.key = categories[c].key
          /\ row.parent = None => Whole[c] = row.name
          /\ row.parent # None /\ Steady(row.parent) => Whole[c] = Whole[row.parent] \o row.name
Removed(gone) ==
  /\ last' = last /\ edited' = edited
  /\ ~ Refers(gone) /\ Children(categories, gone) \subseteq gone
  /\ categories' = [d \in DOMAIN categories \ gone |-> categories[d]]
Changes ==
  \/ categories' = categories /\ last' = last /\ edited' = edited
  \/ \E row \in Category : Inserted(row)
  \/ \E c \in DOMAIN categories, row \in Category : Replaced(c, row)
  \/ \E gone \in SUBSET DOMAIN categories : Removed(gone)
Moves == moved' = Below(categories', moved \cup edited' \cup Misnamed(categories'))

(* What others rely on: a category that was there and is not moved is as   *)
(* it was.                                                                 *)
Kept ==
  /\ last \in Nat /\ last' \in Nat /\ last <= last'
  /\ \A c \in Given : Steady(c)' =>
       /\ Steady(c) /\ Whole'[c] = Whole[c]
       /\ categories'[c].key = categories[c].key /\ categories'[c].market = categories[c].market

(* The least closed set is closed.                                         *)
LEMMA BelowFacts ==
  ASSUME NEW rows, NEW cs
  PROVE  /\ Below(rows, cs) \subseteq DOMAIN rows
         /\ \A c \in DOMAIN rows : c \in cs => c \in Below(rows, cs)
         /\ Children(rows, Below(rows, cs)) \subseteq Below(rows, cs)
<1>1. Below(rows, cs) \subseteq DOMAIN rows
  BY DEF Below
<1>2. \A c \in DOMAIN rows : c \in cs => c \in Below(rows, cs)
  BY DEF Below
<1>3. ASSUME NEW c \in Children(rows, Below(rows, cs)) PROVE c \in Below(rows, cs)
  <2>1. c \in DOMAIN rows /\ rows[c].parent \in Below(rows, cs)
    BY <1>3 DEF Children
  <2>2. ASSUME NEW s \in SUBSET DOMAIN rows, (cs \cap DOMAIN rows) \cup Children(rows, s) \subseteq s
        PROVE  c \in s
    <3>1. rows[c].parent \in s
      BY <2>1, <2>2 DEF Below
    <3>2. c \in Children(rows, s)
      BY <2>1, <3>1 DEF Children
    <3> QED
      BY <2>2, <3>2
  <2> QED
    BY <2>1, <2>2 DEF Below
<1> QED
  BY <1>1, <1>2, <1>3

(* What a step leaves of the invariant of moved categories.                *)
LEMMA MovesFacts ==
  ASSUME Moves
  PROVE  /\ moved' \subseteq DOMAIN categories'
         /\ \A c \in DOMAIN categories' : c \in moved \/ c \in edited' => c \in moved'
         /\ MovedBelow'
<1> DEFINE cs == moved \cup edited' \cup Misnamed(categories')
<1>1. /\ moved' \subseteq DOMAIN categories'
      /\ \A c \in DOMAIN categories' : c \in cs => c \in moved'
      /\ Children(categories', moved') \subseteq moved'
  BY BelowFacts DEF Moves
<1>2. Misnamed(categories') \subseteq DOMAIN categories'
  BY DEF Misnamed
<1> QED
  BY <1>1, <1>2 DEF MovedBelow

(* The categories that a step leaves.                                      *)
LEMMA NewDomain ==
  ASSUME TypeOK, Changes
  PROVE  /\ last \in Nat /\ last' \in Nat /\ last <= last' /\ last' \in 0 .. MaxCategories
         /\ DOMAIN categories' \subseteq 1 .. last'
         /\ \A c \in DOMAIN categories' : c \in Given => c \in DOMAIN categories
<1>0. MaxCategories \in Nat
  BY CategoriesAssumption
<1>1. last \in Nat /\ last \in 0 .. MaxCategories /\ DOMAIN categories \subseteq 1 .. last
  BY <1>0 DEF TypeOK
<1>2. CASE categories' = categories /\ last' = last
  BY <1>1, <1>2
<1>3. CASE \E row \in Category : Inserted(row)
  <2>1. last' = last + 1 /\ last + 1 \in 1 .. MaxCategories /\ DOMAIN categories' = DOMAIN categories \cup {last + 1}
    BY <1>3 DEF Inserted, Put, Id
  <2>2. last + 1 \notin Given
    BY <1>1 DEF Given
  <2>3. \A c \in DOMAIN categories : c \in 1 .. last + 1
    BY <1>1
  <2> QED
    BY <1>0, <1>1, <2>1, <2>2, <2>3
<1>4. CASE \E c \in DOMAIN categories, row \in Category : Replaced(c, row)
  <2>1. last' = last /\ DOMAIN categories' = DOMAIN categories
    BY <1>4 DEF Replaced, Put
  <2> QED
    BY <1>1, <2>1
<1>5. CASE \E gone \in SUBSET DOMAIN categories : Removed(gone)
  <2>1. last' = last /\ DOMAIN categories' \subseteq DOMAIN categories
    BY <1>5 DEF Removed
  <2> QED
    BY <1>1, <2>1
<1> QED
  BY <1>2, <1>3, <1>4, <1>5 DEF Changes

(* A step that changes categories in one of these ways keeps the others.   *)
LEMMA KeysKept ==
  ASSUME Tree, Changes, Moves
  PROVE  /\ last \in Nat /\ last' \in Nat /\ last <= last'
         /\ \A c \in Given : Steady(c)' =>
              /\ Steady(c) /\ c \in DOMAIN categories
              /\ categories'[c].key = categories[c].key
              /\ categories'[c].market = categories[c].market
<1>1. TypeOK /\ moved \subseteq DOMAIN categories
  BY DEF Tree, TypeOK
<1>2. last \in Nat /\ last' \in Nat /\ last <= last' /\ \A c \in DOMAIN categories' : c \in Given => c \in DOMAIN categories
  BY <1>1, NewDomain
<1>3. ASSUME NEW c \in Given, Steady(c)'
      PROVE  /\ Steady(c) /\ categories'[c].key = categories[c].key
             /\ categories'[c].market = categories[c].market
  <2>1. c \in DOMAIN categories' /\ c \in DOMAIN categories /\ c \notin moved'
    BY <1>2, <1>3 DEF Steady
  <2>2. c \notin moved /\ c \notin edited' /\ Steady(c)
    BY <2>1, MovesFacts DEF Steady
  <2>3. CASE categories' = categories
    BY <2>2, <2>3
  <2>4. ASSUME NEW row \in Category, Inserted(row)
        PROVE  categories'[c] = categories[c]
    <3>1. c # last + 1
      BY <1>2 DEF Given
    <3> QED
      BY <2>1, <2>4, <3>1 DEF Inserted, Put
  <2>5. ASSUME NEW d \in DOMAIN categories, NEW row \in Category, Replaced(d, row)
        PROVE  categories'[c].key = categories[c].key /\ categories'[c].market = categories[c].market
    <3>1. CASE c # d
      BY <2>1, <2>5, <3>1 DEF Replaced, Put
    <3>2. CASE c = d
      <4>1. categories'[c] = row
        BY <2>1, <2>5, <3>2 DEF Replaced, Put
      <4>2. row.key = categories[c].key /\ row.market = categories[c].market
        BY <2>2, <2>5, <3>2 DEF Replaced
      <4> QED
        BY <4>1, <4>2
    <3> QED
      BY <3>1, <3>2
  <2>6. ASSUME NEW gone \in SUBSET DOMAIN categories, Removed(gone)
        PROVE  categories'[c] = categories[c]
    BY <2>1, <2>6 DEF Removed
  <2> QED
    BY <2>2, <2>3, <2>4, <2>5, <2>6 DEF Changes
<1> QED
  BY <1>2, <1>3 DEF Steady

(* Rows are well formed, and parents are there.                            *)
LEMMA ChangesTyped ==
  ASSUME Tree, Changes, NEW c \in DOMAIN categories'
  PROVE  /\ categories'[c] \in Category
         /\ categories'[c].parent # None => categories'[c].parent \in DOMAIN categories'
<1>1. ASSUME NEW d \in DOMAIN categories
      PROVE  /\ categories[d] \in Category
             /\ categories[d].parent # None => categories[d].parent \in DOMAIN categories
  BY DEF Tree, TypeOK, Exists
<1>2. CASE categories' = categories
  BY <1>1, <1>2
<1>3. ASSUME NEW row \in Category, Inserted(row)
      PROVE  /\ categories'[c] \in Category
             /\ categories'[c].parent # None => categories'[c].parent \in DOMAIN categories'
  <2>1. /\ DOMAIN categories' = DOMAIN categories \cup {last + 1}
        /\ categories'[c] = IF c = last + 1 THEN row ELSE categories[c]
        /\ row.parent # None => row.parent \in DOMAIN categories
    BY <1>3 DEF Inserted, Put, Sound, Admits
  <2> QED
    BY <1>1, <2>1
<1>4. ASSUME NEW d \in DOMAIN categories, NEW row \in Category, Replaced(d, row)
      PROVE  /\ categories'[c] \in Category
             /\ categories'[c].parent # None => categories'[c].parent \in DOMAIN categories'
  <2>1. /\ DOMAIN categories' = DOMAIN categories
        /\ categories'[c] = IF c = d THEN row ELSE categories[c]
        /\ row.parent # None => row.parent \in DOMAIN categories
    BY <1>4 DEF Replaced, Put, Sound, Admits
  <2> QED
    BY <1>1, <2>1
<1>5. ASSUME NEW gone \in SUBSET DOMAIN categories, Removed(gone)
      PROVE  /\ categories'[c] \in Category
             /\ categories'[c].parent # None => categories'[c].parent \in DOMAIN categories'
  <2>1. c \in DOMAIN categories \ gone /\ categories'[c] = categories[c] /\ DOMAIN categories' = DOMAIN categories \ gone
    BY <1>5 DEF Removed
  <2>2. categories[c].parent \notin gone
    BY <1>5, <2>1 DEF Removed, Children
  <2> QED
    BY <1>1, <2>1, <2>2
<1> QED
  BY <1>2, <1>3, <1>4, <1>5 DEF Changes

(* A ROOT is a ROOT, and a market has one category of each key.            *)
LEMMA ChangesRows ==
  ASSUME Tree, Changes
  PROVE  Rows'
<1> DEFINE Rooted(row) == row.parent = None \/ Len(row.key) = 1 => row.key = RootName
           Apart(r, s) == r.market # NoMarket => s.key # r.key \/ s.market # r.market
<1>1. /\ \A c \in DOMAIN categories : Rooted(categories[c])
      /\ \A c, d \in DOMAIN categories : c # d => Apart(categories[c], categories[d])
  BY DEF Tree, Rows
<1>2. ASSUME NEW c, NEW row, Sound(c, row)
      PROVE  /\ Rooted(row)
             /\ \A d \in DOMAIN categories : d # c => Apart(row, categories[d]) /\ Apart(categories[d], row)
  BY <1>2 DEF Sound, Admits
<1>3. SUFFICES ASSUME NEW c \in DOMAIN categories', NEW d \in DOMAIN categories'
               PROVE  /\ Rooted(categories'[c])
                      /\ c # d => Apart(categories'[c], categories'[d])
  BY DEF Rows
<1>4. CASE categories' = categories
  BY <1>1, <1>4
<1>5. ASSUME NEW row \in Category, Inserted(row)
      PROVE  Rooted(categories'[c]) /\ (c # d => Apart(categories'[c], categories'[d]))
  <2>1. /\ DOMAIN categories' = DOMAIN categories \cup {last + 1}
        /\ categories'[c] = IF c = last + 1 THEN row ELSE categories[c]
        /\ categories'[d] = IF d = last + 1 THEN row ELSE categories[d]
        /\ Sound(None, row)
    BY <1>3, <1>5 DEF Inserted, Put
  <2>2. None \notin DOMAIN categories
    BY RowTypes DEF Tree
  <2>3. /\ Rooted(row)
        /\ \A e \in DOMAIN categories : Apart(row, categories[e]) /\ Apart(categories[e], row)
    <3>1. /\ Rooted(row)
          /\ \A e \in DOMAIN categories : e # None => Apart(row, categories[e]) /\ Apart(categories[e], row)
      BY <1>2, <2>1
    <3> QED
      BY <2>2, <3>1
  <2> HIDE DEF Rooted, Apart
  <2> QED
    BY <1>1, <1>3, <2>1, <2>3
<1>6. ASSUME NEW e \in DOMAIN categories, NEW row \in Category, Replaced(e, row)
      PROVE  Rooted(categories'[c]) /\ (c # d => Apart(categories'[c], categories'[d]))
  <2>1. /\ DOMAIN categories' = DOMAIN categories
        /\ categories'[c] = IF c = e THEN row ELSE categories[c]
        /\ categories'[d] = IF d = e THEN row ELSE categories[d]
        /\ Sound(e, row)
    BY <1>3, <1>6 DEF Replaced, Put
  <2>2. /\ Rooted(row)
        /\ \A x \in DOMAIN categories : x # e => Apart(row, categories[x]) /\ Apart(categories[x], row)
    BY <1>2, <2>1
  <2> HIDE DEF Rooted, Apart
  <2> QED
    BY <1>1, <1>3, <2>1, <2>2
<1>7. ASSUME NEW gone \in SUBSET DOMAIN categories, Removed(gone)
      PROVE  Rooted(categories'[c]) /\ (c # d => Apart(categories'[c], categories'[d]))
  <2>1. /\ c \in DOMAIN categories /\ categories'[c] = categories[c]
        /\ d \in DOMAIN categories /\ categories'[d] = categories[d]
    BY <1>3, <1>7 DEF Removed
  <2> HIDE DEF Rooted, Apart
  <2> QED
    BY <1>1, <2>1
<1> HIDE DEF Rooted, Apart
<1> QED
  BY <1>4, <1>5, <1>6, <1>7 DEF Changes

(* There is one way to join the names, as each is longer than its parent's. *)
LEMMA JoinsUnique ==
  ASSUME NEW rows, NEW cs, NEW w, NEW v, Joins(w, rows, cs), Joins(v, rows, cs),
         \A c \in cs : rows[c].name \in Named /\ rows[c].parent \in cs \cup {None}
  PROVE  \A c \in cs : w[c] = v[c]
<1>1. SUFFICES ASSUME NEW d \in cs, w[d] # v[d] PROVE FALSE
  OBVIOUS
<1>2. \A c \in cs :
        /\ w[c] \in Named /\ v[c] \in Named
        /\ w[c] = (IF rows[c].parent = None THEN rows[c].name ELSE w[rows[c].parent] \o rows[c].name)
        /\ v[c] = (IF rows[c].parent = None THEN rows[c].name ELSE v[rows[c].parent] \o rows[c].name)
  BY DEF Joins
<1> DEFINE T == {n \in Nat : \E c \in cs : w[c] # v[c] /\ Len(w[c]) = n}
<1>3. T # {}
  <2>1. Len(w[d]) \in Nat
    BY <1>2, NamedSeq
  <2> QED
    BY <1>1, <2>1
<1>4. PICK n \in T : \A k \in T : n <= k
  BY <1>3, Least
<1>5. PICK c \in cs : w[c] # v[c] /\ Len(w[c]) = n
  OBVIOUS
<1> DEFINE p == rows[c].parent
           name == rows[c].name
<1>6. p # None /\ p \in cs /\ name \in Named
  BY <1>2, <1>5
<1>7. w[c] = w[p] \o name /\ v[c] = v[p] \o name /\ w[p] \in Named
  BY <1>2, <1>6
<1>8. w[p] # v[p]
  BY <1>5, <1>7
<1>9. Len(w[c]) = Len(w[p]) + Len(name) /\ Len(w[p]) \in Nat /\ Len(name) \in Nat \ {0}
  <2> DEFINE a == w[p]
  <2>1. a \in Seq(Parts) /\ name \in Seq(Parts) /\ Len(a) \in Nat \ {0} /\ Len(name) \in Nat \ {0}
    BY <1>6, <1>7, NamedSeq
  <2> HIDE DEF a, name
  <2>2. Len(a \o name) = Len(a) + Len(name)
    BY <2>1, NamedConcat
  <2> QED
    BY <1>7, <2>1, <2>2 DEF a
<1>10. Len(w[p]) \in T
  BY <1>6, <1>8, <1>9
<1>11. n <= Len(w[p])
  BY <1>4, <1>10
<1>12. n = Len(w[c]) /\ n \in Nat
  BY <1>5
<1> HIDE DEF T, p, name
<1> QED
  BY <1>9, <1>11, <1>12

(* A row that fits below a category: what its names come to.               *)
LEMMA FitsFacts ==
  ASSUME Tree, NEW row \in Category, NEW p \in DOMAIN categories, p \notin moved, FitsBelow(row, p),
         \A k \in 2 .. Len(row.key) : row.key[k] # "ROOT"
  PROVE  /\ Whole[p] \o row.name \in Named /\ Ends(row.key, Whole[p] \o row.name)
         /\ \A k \in 2 .. Len(Whole[p] \o row.name) : (Whole[p] \o row.name)[k] # "ROOT"
<1> DEFINE w == Whole[p]
           name == row.name
           key == row.key
<1>1. w \in Named /\ \A k \in 2 .. Len(w) : w[k] # "ROOT"
  BY WholeFacts
<1>2. name \in Named /\ key \in Named
  BY DEF Category
<1>3. PICK q \in Named : Ends(q, w) /\ key = q \o name
  BY DEF FitsBelow
<1>4. \A k \in 2 .. Len(key) : key[k] # "ROOT"
  OBVIOUS
<1> HIDE DEF w, name, key
<1>5. /\ w \in Seq(Parts) /\ name \in Seq(Parts) /\ q \in Seq(Parts)
      /\ Len(w) \in Nat \ {0} /\ Len(name) \in Nat \ {0} /\ Len(q) \in Nat \ {0}
  BY <1>1, <1>2, <1>3, NamedSeq
<1>6. /\ w \o name \in Named /\ Len(w \o name) = Len(w) + Len(name)
      /\ \A i \in 1 .. Len(w) : (w \o name)[i] = w[i]
      /\ \A i \in 1 .. Len(name) : (w \o name)[Len(w) + i] = name[i]
  <2>1. /\ w \o name \in Named /\ Len(w \o name) = Len(w) + Len(name)
        /\ \A i \in 1 .. Len(name) : (w \o name)[Len(w) + i] = name[i]
    BY <1>2, <1>5, NamedConcat
  <2>2. \A i \in 1 .. Len(w) + Len(name) : (w \o name)[i] = IF i <= Len(w) THEN w[i] ELSE name[i - Len(w)]
    BY <1>5, ConcatProperties
  <2>3. \A i \in 1 .. Len(w) : i \in 1 .. Len(w) + Len(name) /\ i <= Len(w)
    BY <1>5
  <2> QED
    BY <2>1, <2>2, <2>3
<1>7. Len(key) = Len(q) + Len(name) /\ \A i \in 1 .. Len(name) : key[Len(q) + i] = name[i]
  BY <1>2, <1>3, <1>5, NamedConcat
<1>8. ASSUME NEW k \in 2 .. Len(w \o name) PROVE (w \o name)[k] # "ROOT"
  <2>1. k \in Nat /\ k >= 2 /\ k <= Len(w) + Len(name)
    BY <1>5, <1>6
  <2>2. CASE k <= Len(w)
    <3>1. k \in 2 .. Len(w) /\ k \in 1 .. Len(w)
      BY <1>5, <2>1, <2>2
    <3> QED
      BY <1>1, <1>6, <3>1
  <2>3. CASE k > Len(w)
    <3> DEFINE i == k - Len(w)
    <3>1. i \in 1 .. Len(name) /\ Len(w) + i = k /\ Len(q) + i \in 2 .. Len(key)
      BY <1>5, <1>7, <2>1, <2>3
    <3> HIDE DEF i
    <3>2. (w \o name)[k] = name[i] /\ key[Len(q) + i] = name[i]
      BY <1>6, <1>7, <3>1
    <3> QED
      BY <1>4, <3>1, <3>2
  <2> QED
    BY <1>5, <2>1, <2>2, <2>3
<1>9. Ends(key, w \o name)
  BY <1>2, <1>3, EndsLonger
<1> QED
  BY <1>6, <1>8, <1>9 DEF w, name, key

(* The names of all the categories that are left unmoved are joined, as    *)
(* they were before; and keys are the ends of that.                        *)
LEMMA ChangesWhole ==
  ASSUME Tree, Changes, Moves
  PROVE  Keyed' /\ \A c \in Given : Steady(c)' => Whole'[c] = Whole[c]
<1> DEFINE cs == DOMAIN categories' \ moved'
           name(c) == categories'[c].name
           p(c) == categories'[c].parent
           w == [c \in cs |-> IF c \in Given THEN Whole[c]
                              ELSE IF p(c) = None THEN name(c) ELSE Whole[p(c)] \o name(c)]
           Good(c) ==
             /\ w[c] \in Named
             /\ p(c) # None => p(c) \in Given
             /\ w[c] = IF p(c) = None THEN name(c) ELSE Whole[p(c)] \o name(c)
             /\ Ends(categories'[c].key, w[c])
             /\ \A k \in 2 .. Len(w[c]) : w[c][k] # "ROOT"
<1>1. TypeOK /\ MovedBelow' /\ last \in Nat
  BY MovesFacts, KeysKept DEF Tree
<1>2. ASSUME NEW c \in cs
      PROVE  /\ name(c) \in Named /\ categories'[c] \in Category /\ categories'[c].key \in Named
             /\ p(c) # None => p(c) \in cs
             /\ \A k \in 2 .. Len(categories'[c].key) : categories'[c].key[k] # "ROOT"
  <2>1. categories'[c] \in Category /\ (p(c) # None => p(c) \in DOMAIN categories')
    BY ChangesTyped
  <2>2. p(c) \notin moved' /\ c \notin Misnamed(categories')
    BY <1>1, <2>1 DEF MovedBelow, Children
  <2>3. \A k \in 2 .. Len(categories'[c].key) : categories'[c].key[k] # "ROOT"
    BY <2>2 DEF Misnamed
  <2> QED
    BY <2>1, <2>2, <2>3 DEF Category
<1>3. ASSUME NEW c \in cs, c \in Given
      PROVE  c \in DOMAIN categories /\ c \notin moved /\ categories'[c].key = categories[c].key
  BY <1>3, KeysKept DEF Steady
<1>4. ASSUME NEW c \in cs, c \in Given, categories'[c] = categories[c] PROVE Good(c)
  <2>1. c \in DOMAIN categories /\ c \notin moved /\ w[c] = Whole[c]
    BY <1>3, <1>4
  <2>2. categories[c].parent # None => categories[c].parent \in Given
    BY <1>1, <2>1, RowTypes
  <2> HIDE DEF w
  <2> QED
    BY <1>4, <2>1, <2>2, WholeFacts
<1>5. ASSUME NEW c \in cs, categories' = categories PROVE Good(c)
  <2>1. c \in Given
    BY <1>1, <1>5, RowTypes
  <2> HIDE DEF Good
  <2> QED
    BY <1>4, <1>5, <2>1
<1>6. ASSUME NEW c \in cs, NEW row \in Category, Inserted(row) PROVE Good(c)
  <2>1. /\ DOMAIN categories' = DOMAIN categories \cup {last + 1}
        /\ categories'[c] = IF c = last + 1 THEN row ELSE categories[c]
        /\ row.parent # None => row.parent \in DOMAIN categories /\ row.parent # None
        /\ row.parent = None => row.key = RootName /\ row.name = row.key
        /\ row.parent # None /\ Steady(row.parent) => FitsBelow(row, row.parent)
    BY <1>6 DEF Inserted, Put, Sound, Admits
  <2>2. CASE c # last + 1
    <3>1. c \in DOMAIN categories /\ c \in Given /\ categories'[c] = categories[c]
      BY <1>1, <2>1, <2>2, RowTypes
    <3> HIDE DEF Good
    <3> QED
      BY <1>4, <3>1
  <2>3. CASE c = last + 1
    <3>1. c \notin Given /\ categories'[c] = row
      BY <1>1, <2>1, <2>3 DEF Given
    <3>2. CASE row.parent = None
      <4>1. w[c] = RootName /\ name(c) = RootName /\ p(c) = None /\ categories'[c].key = RootName
        BY <2>1, <3>1, <3>2
      <4>2. RootName \in Named /\ Ends(RootName, RootName) /\ 2 .. Len(RootName) = {}
        BY KeyRoot, EndsItself
      <4> HIDE DEF w, name, p
      <4> QED
        BY <4>1, <4>2
    <3>3. CASE row.parent # None
      <4> DEFINE q == row.parent
      <4>1. q \in DOMAIN categories /\ q \in Given /\ q \in cs
        BY <1>1, <1>2, <2>1, <3>1, <3>3, RowTypes
      <4>2. q \notin moved /\ Steady(q)
        BY <1>3, <4>1 DEF Steady
      <4>3. FitsBelow(row, q) /\ \A k \in 2 .. Len(row.key) : row.key[k] # "ROOT"
        BY <1>2, <2>1, <3>1, <3>3, <4>2
      <4>4. /\ Whole[q] \o row.name \in Named /\ Ends(row.key, Whole[q] \o row.name)
            /\ \A k \in 2 .. Len(Whole[q] \o row.name) : (Whole[q] \o row.name)[k] # "ROOT"
        BY <4>1, <4>2, <4>3, FitsFacts
      <4>5. w[c] = Whole[q] \o row.name /\ p(c) = q /\ q # None /\ name(c) = row.name /\ categories'[c].key = row.key
        BY <3>1, <3>3
      <4> HIDE DEF w, name, p, q
      <4> QED
        BY <4>1, <4>4, <4>5
    <3> QED
      BY <3>2, <3>3
  <2> QED
    BY <2>2, <2>3
<1>7. ASSUME NEW c \in cs, NEW d \in DOMAIN categories, NEW row \in Category, Replaced(d, row) PROVE Good(c)
  <2>1. /\ DOMAIN categories' = DOMAIN categories
        /\ categories'[c] = IF c = d THEN row ELSE categories[c]
        /\ row.parent # None => row.parent \in DOMAIN categories
    BY <1>7 DEF Replaced, Put, Sound, Admits
  <2>2. c \in DOMAIN categories /\ c \in Given
    BY <1>1, <2>1, RowTypes
  <2>3. CASE c # d
    <3>1. categories'[c] = categories[c]
      BY <2>1, <2>3
    <3> HIDE DEF Good
    <3> QED
      BY <1>4, <2>2, <3>1
  <2>4. CASE c = d
    <3>1. categories'[c] = row /\ c \notin moved /\ Steady(c) /\ c \notin edited' /\ row.key = categories[c].key
      BY <1>3, <2>1, <2>2, <2>4, MovesFacts DEF Steady
    <3>2. /\ row.parent = None => Whole[c] = row.name
          /\ row.parent # None /\ Steady(row.parent) => Whole[c] = Whole[row.parent] \o row.name
      BY <1>7, <2>4, <3>1 DEF Replaced
    <3>3. row.parent # None => row.parent \in Given /\ row.parent \in cs
      BY <1>1, <1>2, <2>1, <3>1, RowTypes
    <3>4. row.parent # None => Steady(row.parent)
      BY <1>3, <3>3 DEF Steady
    <3>5. w[c] = Whole[c] /\ p(c) = row.parent /\ name(c) = row.name
      BY <2>2, <3>1
    <3>6. /\ Whole[c] \in Named /\ Ends(categories[c].key, Whole[c])
          /\ \A k \in 2 .. Len(Whole[c]) : Whole[c][k] # "ROOT"
      BY <2>2, <3>1, WholeFacts
    <3> HIDE DEF w, name, p
    <3> QED
      BY <3>1, <3>2, <3>3, <3>4, <3>5, <3>6
  <2> QED
    BY <2>3, <2>4
<1>8. ASSUME NEW c \in cs, NEW gone \in SUBSET DOMAIN categories, Removed(gone) PROVE Good(c)
  <2>1. c \in DOMAIN categories /\ categories'[c] = categories[c]
    BY <1>8 DEF Removed
  <2>2. c \in Given
    BY <1>1, <2>1, RowTypes
  <2> HIDE DEF Good
  <2> QED
    BY <1>4, <2>1, <2>2
<1>9. ASSUME NEW c \in cs PROVE Good(c)
  <2> HIDE DEF Good, cs
  <2> QED
    BY <1>5, <1>6, <1>7, <1>8 DEF Changes
<1>10. Joins(w, categories', cs)
  <2>1. w \in [cs -> Named]
    <3>1. \A c \in cs : w[c] \in Named
      BY <1>9
    <3>2. w = [c \in cs |-> w[c]]
      OBVIOUS
    <3> HIDE DEF w
    <3> QED
      BY <3>1, <3>2
  <2>2. ASSUME NEW c \in cs
        PROVE  w[c] = IF p(c) = None THEN name(c) ELSE w[p(c)] \o name(c)
    <3>1. CASE p(c) = None
      BY <1>9, <3>1
    <3>2. CASE p(c) # None
      <4>1. p(c) \in cs /\ p(c) \in Given
        BY <1>2, <1>9, <3>2
      <4>2. w[p(c)] = Whole[p(c)]
        BY <4>1
      <4>3. w[c] = Whole[p(c)] \o name(c)
        BY <1>9, <3>2
      <4> HIDE DEF w, p, name
      <4> QED
        BY <3>2, <4>2, <4>3
    <3> QED
      BY <3>1, <3>2
  <2> HIDE DEF w, cs
  <2> QED
    BY <2>1, <2>2 DEF Joins
<1> DEFINE v == Joined(categories', cs)
<1>11. Joins(v, categories', cs)
  <2> HIDE DEF w, cs
  <2> QED
    BY <1>10 DEF Joined
<1>12. Whole' = v
  BY DEF Whole
<1>13. \A c \in cs : v[c] = w[c]
  <2>1. \A c \in cs : categories'[c].name \in Named /\ categories'[c].parent \in cs \cup {None}
    BY <1>2
  <2> HIDE DEF w, v, cs
  <2> QED
    BY <1>10, <1>11, <2>1, JoinsUnique
<1>14. \A c \in cs : /\ Ends(categories'[c].key, v[c])
                     /\ \A k \in 2 .. Len(v[c]) : v[c][k] # "ROOT"
  <2> HIDE DEF w, v
  <2> QED
    BY <1>9, <1>13
<1>15. Keyed'
  <2> HIDE DEF v
  <2> QED
    BY <1>11, <1>12, <1>14 DEF Keyed, Ends
<1>16. ASSUME NEW c \in Given, Steady(c)' PROVE Whole'[c] = Whole[c]
  <2>1. c \in cs
    BY <1>16 DEF Steady
  <2>2. w[c] = Whole[c]
    BY <2>1
  <2> HIDE DEF v, w
  <2> QED
    BY <1>12, <1>13, <2>1, <2>2
<1> QED
  BY <1>15, <1>16

(* A step that changes categories in one of these ways keeps the others.   *)
LEMMA ChangesKept ==
  ASSUME Tree, Changes, Moves
  PROVE  Kept
BY KeysKept, ChangesWhole DEF Kept

(* After a step of such a kind the keys are what Keyed says of them.       *)
LEMMA ChangesKeyed ==
  ASSUME Tree, Changes, Moves
  PROVE  Keyed'
BY ChangesWhole

-----------------------------------------------------------------------------
(* What an actor has found and will do stays so while others take steps.   *)

(* The line of categories that was found ...                               *)
LEMMA LineKept ==
  ASSUME Kept, NEW cur, NEW found, NEW m, Line(cur, found, m)
  PROVE  Line(cur, found, m)'
<1>1. found \in Seq(Given) /\ Len(found) = Len(cur)
  BY DEF Line
<1>2. Given \subseteq 1 .. last'
  BY DEF Kept, Given
<1>3. found \in Seq(1 .. last')
  BY <1>1, <1>2, SeqMonotonic
<1>4. \A k \in DOMAIN found : found[k] \in Given
  BY <1>1, LenProperties, ElementOfSeq
<1>5. ASSUME NEW k \in DOMAIN found, Steady(found[k])'
      PROVE  /\ categories'[found[k]].key = KeyOf(SubSeq(cur, 1, k))
             /\ m # NoMarket => categories'[found[k]].market = m
  BY <1>4, <1>5 DEF Kept, Line
<1> QED
  BY <1>1, <1>3, <1>5 DEF Line, Given

(* ... its first step ...                                                  *)
LEMMA FirstKept ==
  ASSUME Kept, NEW cur, NEW s, NEW found, NEW m, FirstStep(cur, s, found, m)
  PROVE  FirstStep(cur, s, found, m)'
<1>1. CASE s.op # "update"
  BY <1>1 DEF FirstStep, NextStep, GoesOnFrom, RowOf
<1>2. CASE s.op = "update"
  <2>1. /\ GoesOnFrom(cur, s.path) /\ s.path[1] = RootName /\ s.row = RowOf(s.path, found, m)
        /\ s.id \in Given /\ (m # NoMarket => s.path = ROOT)
        /\ Steady(s.id) => categories[s.id].key = KeyOf(s.path) /\ (m # NoMarket => categories[s.id].market = m)
    BY <1>2 DEF FirstStep, NextStep
  <2>2. s.id \in 1 .. last'
    BY <2>1 DEF Kept, Given
  <2>3. Steady(s.id)' => categories'[s.id].key = KeyOf(s.path) /\ (m # NoMarket => categories'[s.id].market = m)
    BY <2>1 DEF Kept
  <2> QED
    BY <1>2, <2>1, <2>2, <2>3 DEF FirstStep, GoesOnFrom, RowOf, Given
<1> QED
  BY <1>1, <1>2

(* ... and all of its steps go on to fit.                                  *)
LEMMA ThreadKept ==
  ASSUME Kept, NEW cur, NEW steps, NEW found, NEW m, Thread(cur, steps, found, m)
  PROVE  Thread(cur, steps, found, m)'
<1>1. CASE steps = <<>>
  BY <1>1 DEF Thread
<1>2. CASE steps # <<>>
  <2>1. FirstStep(cur, Head(steps), found, m) /\ Follows(PathOf(Head(steps)), Tail(steps), m)
    BY <1>2 DEF Thread
  <2>2. FirstStep(cur, Head(steps), found, m)'
    BY <2>1, FirstKept
  <2> QED
    BY <2>1, <2>2 DEF Thread, Follows, NextStep, GoesOnFrom, PathOf
<1> QED
  BY <1>1, <1>2

(* So does the single step of a command.                                   *)
LEMMA SingleKept ==
  ASSUME Kept, NEW s, Single(s)
  PROVE  Single(s)'
<1>1. CASE s.op \in {"remove", "file"}
  BY <1>1 DEF Single
<1>2. CASE s.op = "edit"
  <2>1. s.id \in Given /\ s.parent \in Given /\ Len(s.path) > 1
    BY <1>2 DEF Single
  <2>2. s.id \in 1 .. last' /\ s.parent \in 1 .. last'
    BY <2>1 DEF Kept, Given
  <2> QED
    BY <1>2, <2>1, <2>2 DEF Single, Given
<1>3. CASE s.op = "insert"
  <2>1. /\ s.row.parent \in Given /\ Len(s.row.key) > 1
        /\ Steady(s.row.parent) => FitsBelow(s.row, s.row.parent)
    BY <1>3 DEF Single
  <2>2. s.row.parent \in 1 .. last'
    BY <2>1 DEF Kept, Given
  <2>3. Steady(s.row.parent)' => FitsBelow(s.row, s.row.parent)'
    <3> SUFFICES ASSUME Steady(s.row.parent)' PROVE FitsBelow(s.row, s.row.parent)'
      OBVIOUS
    <3>1. Whole'[s.row.parent] = Whole[s.row.parent] /\ Steady(s.row.parent)
      BY <2>1 DEF Kept
    <3>2. PICK q \in Named : Ends(q, Whole[s.row.parent]) /\ s.row.key = q \o s.row.name
      BY <2>1, <3>1 DEF FitsBelow
    <3> QED
      BY <3>1, <3>2 DEF FitsBelow, Ends
  <2> QED
    BY <1>3, <2>1, <2>2, <2>3 DEF Single, Given
<1> QED
  BY <1>1, <1>2, <1>3 DEF Single

-----------------------------------------------------------------------------
(* What the program's own step makes of it.                                *)

(* found2 is the line found as far as path goes on from cur, and then c.   *)
Extended(S, cur, found, path, c, found2) ==
  /\ cur \in Seq(Named) /\ found \in Seq(S) /\ Len(found) = Len(cur)
  /\ path \in Path /\ GoesOnFrom(cur, path) /\ c \in S
  /\ found2 = Append(SubSeq(found, 1, Len(path) - 1), c)

(* The last name of path follows names of cur that have been found, and so *)
(* its category goes where Found() puts it.                                *)
OneMore(found2, found, cur, path, c) ==
  /\ DOMAIN found2 = 1 .. Len(path) /\ Len(found2) = Len(path) /\ Len(path) \in Nat \ {0}
  /\ \A k \in 1 .. Len(path) - 1 :
       /\ k \in DOMAIN found /\ found2[k] = found[k] /\ SubSeq(path, 1, k) = SubSeq(cur, 1, k)
  /\ found2[Len(path)] = c /\ SubSeq(path, 1, Len(path)) = path
(* What Found() makes of the line is one more.                             *)
LEMMA FoundFacts ==
  ASSUME NEW S, NEW cur, NEW found, NEW path, NEW c, NEW found2,
         Extended(S, cur, found, path, c, found2)
  PROVE  found2 \in Seq(S) /\ OneMore(found2, found, cur, path, c)
<1>0. /\ cur \in Seq(Named) /\ found \in Seq(S) /\ Len(found) = Len(cur)
      /\ path \in Path /\ GoesOnFrom(cur, path) /\ c \in S
      /\ found2 = Append(SubSeq(found, 1, Len(path) - 1), c)
  BY DEF Extended
<1> DEFINE n == Len(path) - 1
<1>1. path \in Seq(Named) /\ Len(path) \in Nat \ {0}
  BY <1>0, PathSeq
<1>2. Len(cur) \in Nat /\ Len(path) <= Len(cur) + 1 /\ SubSeq(path, 1, n) = SubSeq(cur, 1, n)
  BY <1>0, LenProperties DEF GoesOnFrom
<1>3. n \in 0 .. Len(found) /\ n \in 0 .. Len(cur) /\ n \in 0 .. Len(path) /\ n + 1 = Len(path) /\ n \in Nat
  BY <1>0, <1>1, <1>2
<1> DEFINE s == SubSeq(found, 1, n)
<1> HIDE DEF n
<1>4. s \in Seq(S) /\ Len(s) = n /\ \A i \in 1 .. n : s[i] = found[i]
  BY <1>0, <1>3, Cut
<1> HIDE DEF s
<1>6. /\ Append(s, c) \in Seq(S) /\ Len(Append(s, c)) = n + 1
      /\ \A i \in 1 .. n : Append(s, c)[i] = s[i]
      /\ Append(s, c)[n + 1] = c
  BY <1>0, <1>4, AppendProperties
<1>7. found2 = Append(s, c)
  BY <1>0 DEF s, n
<1>8. found2 \in Seq(S) /\ Len(found2) = Len(path) /\ DOMAIN found2 = 1 .. Len(path)
  BY <1>0, <1>3, <1>6, <1>7, LenProperties
<1>9. ASSUME NEW k \in 1 .. n
      PROVE  k \in DOMAIN found /\ found2[k] = found[k] /\ SubSeq(path, 1, k) = SubSeq(cur, 1, k)
  <2>1. k \in 1 .. Len(found)
    BY <1>0, <1>3
  <2>2. DOMAIN found = 1 .. Len(found)
    BY <1>0, LenProperties
  <2>3. found2[k] = found[k]
    BY <1>0, <1>4, <1>6, <1>7
  <2>4. SubSeq(SubSeq(path, 1, n), 1, k) = SubSeq(path, 1, k)
    BY <1>0, <1>1, <1>3, CutTwice
  <2>5. SubSeq(SubSeq(cur, 1, n), 1, k) = SubSeq(cur, 1, k)
    BY <1>0, <1>3, CutTwice
  <2>6. SubSeq(path, 1, n) = SubSeq(cur, 1, n)
    BY <1>0, <1>2
  <2> QED
    BY <1>0, <2>1, <2>2, <2>3, <2>4, <2>5, <2>6
<1>10. SubSeq(path, 1, Len(path)) = path
  BY <1>0, <1>1, SubSeqFull
<1> QED
  BY <1>0, <1>1, <1>3, <1>6, <1>7, <1>8, <1>9, <1>10 DEF n, OneMore

(* The line with the category just found is a line down to it.             *)
LEMMA LineFound ==
  ASSUME Kept, NEW cur \in Seq(Named), NEW found, NEW m, Line(cur, found, m),
         NEW path \in Path, GoesOnFrom(cur, path),
         NEW c \in 1 .. last',
         Steady(c)' => categories'[c].key = KeyOf(path) /\ (m # NoMarket => categories'[c].market = m),
         NEW found2, found2 = Append(SubSeq(found, 1, Len(path) - 1), c)
  PROVE  Line(path, found2, m)'
<1>1. found \in Seq(Given) /\ Len(found) = Len(cur)
  BY DEF Line
<1>2. Given \subseteq 1 .. last'
  BY DEF Kept, Given
<1>3. found2 \in Seq(1 .. last') /\ OneMore(found2, found, cur, path, c)
  <2> DEFINE T == 1 .. last'
  <2>1. c \in T /\ found \in Seq(T)
    BY <1>1, <1>2, SeqMonotonic
  <2> HIDE DEF T
  <2>2. found2 \in Seq(T) /\ OneMore(found2, found, cur, path, c)
    <3>1. Extended(T, cur, found, path, c, found2)
      BY <1>1, <2>1 DEF Extended
    <3> QED
      BY <3>1, FoundFacts
  <2> QED
    BY <2>2 DEF T
<1>4. Line(cur, found, m)'
  BY LineKept
<1>5. ASSUME NEW k \in DOMAIN found2, Steady(found2[k])'
      PROVE  /\ categories'[found2[k]].key = KeyOf(SubSeq(path, 1, k))
             /\ m # NoMarket => categories'[found2[k]].market = m
  <2>1. k = Len(path) \/ k \in 1 .. Len(path) - 1
    <3>1. k \in 1 .. Len(path) /\ Len(path) \in Nat \ {0}
      BY <1>3 DEF OneMore
    <3> QED
      BY <3>1
  <2>2. CASE k = Len(path)
    BY <1>3, <1>5, <2>2 DEF OneMore
  <2>3. CASE k \in 1 .. Len(path) - 1
    BY <1>3, <1>4, <1>5, <2>3 DEF Line, OneMore
  <2> QED
    BY <2>1, <2>2, <2>3
<1> QED
  BY <1>3, <1>5 DEF Line, Given, OneMore

(* What could be found can be found as it was.                             *)
Grown ==
  \A c \in DOMAIN categories :
    /\ c \in DOMAIN categories'
    /\ categories'[c].key = categories[c].key /\ categories'[c].market = categories[c].market

(* The same of a category that may be new.                                 *)
LEMMA FoundAny ==
  ASSUME NEW cur \in Seq(Named), NEW found \in Seq(Given), Len(found) = Len(cur),
         NEW path \in Path, GoesOnFrom(cur, path), NEW c,
         NEW found2, found2 = Append(SubSeq(found, 1, Len(path) - 1), c)
  PROVE  OneMore(found2, found, cur, path, c)
<1>1. PICK T : T = Given \cup {c}
  OBVIOUS
<1>2. c \in T /\ Given \subseteq T
  BY <1>1
<1>3. found \in Seq(T)
  BY <1>2, SeqMonotonic
<1>4. Extended(T, cur, found, path, c, found2)
  BY <1>2, <1>3 DEF Extended
<1> QED
  BY <1>4, FoundFacts

(* If it was sure before the step, it is sure afterwards.                  *)
LEMMA FirmFound ==
  ASSUME Grown, NEW cur \in Seq(Named), NEW found \in Seq(Given), Len(found) = Len(cur), NEW m,
         \A k \in DOMAIN found : At(found[k], SubSeq(cur, 1, k), m),
         NEW path \in Path, path[1] = RootName, GoesOnFrom(cur, path),
         NEW c, At(c, path, m)',
         NEW found2, found2 = Append(SubSeq(found, 1, Len(path) - 1), c),
         NEW rest, Follows(path, rest, m)
  PROVE  Firm(path, rest, found2, m)'
<1>1. OneMore(found2, found, cur, path, c)
  BY FoundAny
<1>2. ASSUME NEW k \in DOMAIN found2 PROVE At(found2[k], SubSeq(path, 1, k), m)'
  <2>1. k = Len(path) \/ k \in 1 .. Len(path) - 1
    <3>1. k \in 1 .. Len(path) /\ Len(path) \in Nat \ {0}
      BY <1>1 DEF OneMore
    <3> QED
      BY <3>1
  <2>2. CASE k = Len(path)
    BY <1>1, <2>2 DEF At, OneMore
  <2>3. CASE k \in 1 .. Len(path) - 1
    <3>1. At(found[k], SubSeq(cur, 1, k), m) /\ found2[k] = found[k] /\ SubSeq(path, 1, k) = SubSeq(cur, 1, k)
      BY <1>1, <2>3 DEF OneMore
    <3> QED
      BY <3>1 DEF At, Exists, Grown
  <2> QED
    BY <2>1, <2>2, <2>3
<1>3. path # <<>>
  BY DEF Path
<1>4. rest # <<>> => Head(rest).op \in {"upsert", "ensure", "list", "send"}
  BY DEF Follows, NextStep
<1> QED
  BY <1>2, <1>3, <1>4 DEF Firm

(* The rest of a program is a program when the first step is done ...      *)
LEMMA ThreadFollows ==
  ASSUME NEW path, NEW rest \in Seq(Step), NEW m, Follows(path, rest, m), NEW found
  PROVE  Thread(path, rest, found, m)'
<1>1. CASE rest = <<>>
  BY <1>1 DEF Thread
<1>2. CASE rest # <<>>
  <2>1. NextStep(path, rest[1], m) /\ Head(rest) = rest[1]
    BY <1>2 DEF Follows
  <2>2. FirstStep(path, Head(rest), found, m)'
    BY <2>1 DEF FirstStep, NextStep, GoesOnFrom
  <2>3. Tail(rest) \in Seq(Step) /\ Len(Tail(rest)) = Len(rest) - 1 /\ \A i \in 1 .. Len(Tail(rest)) : Tail(rest)[i] = rest[i + 1]
    BY <1>2, HeadTailProperties
  <2>4. Len(rest) \in Nat
    BY LenProperties
  <2>5. Tail(rest) # <<>> => NextStep(PathOf(rest[1]), Tail(rest)[1], m)
    <3> SUFFICES ASSUME Tail(rest) # <<>> PROVE NextStep(PathOf(rest[1]), Tail(rest)[1], m)
      OBVIOUS
    <3>1. Len(Tail(rest)) \in Nat \ {0}
      BY <2>3, EmptySeq
    <3>2. 1 \in 1 .. Len(Tail(rest)) /\ 2 \in 2 .. Len(rest) /\ 2 - 1 = 1 /\ 1 + 1 = 2
      BY <2>3, <2>4, <3>1
    <3>3. NextStep(PathOf(rest[2 - 1]), rest[2], m) /\ Tail(rest)[1] = rest[1 + 1]
      BY <2>3, <3>2 DEF Follows
    <3> QED
      BY <3>2, <3>3
  <2>6. ASSUME NEW i \in 2 .. Len(Tail(rest)) PROVE NextStep(PathOf(Tail(rest)[i - 1]), Tail(rest)[i], m)
    <3>1. i \in 1 .. Len(Tail(rest)) /\ i - 1 \in 1 .. Len(Tail(rest)) /\ i + 1 \in 2 .. Len(rest) /\ (i + 1) - 1 = i /\ (i - 1) + 1 = i
      BY <2>3, <2>4
    <3>2. NextStep(PathOf(rest[(i + 1) - 1]), rest[i + 1], m)
      BY <3>1 DEF Follows
    <3>3. Tail(rest)[i] = rest[i + 1] /\ Tail(rest)[i - 1] = rest[(i - 1) + 1]
      BY <2>3, <3>1
    <3> QED
      BY <3>1, <3>2, <3>3
  <2>7. Follows(PathOf(Head(rest)), Tail(rest), m)
    BY <2>1, <2>5, <2>6 DEF Follows
  <2>8. Follows(PathOf(Head(rest)), Tail(rest), m)'
    BY <2>7 DEF Follows, NextStep, GoesOnFrom, PathOf
  <2> QED
    BY <2>2, <2>8 DEF Thread
<1> QED
  BY <1>1, <1>2

(* ... and so it is with another step before it.                           *)
LEMMA PutFirst ==
  ASSUME NEW S, NEW x \in S, NEW rest \in Seq(S)
  PROVE  /\ <<x>> \o rest \in Seq(S) /\ <<x>> \o rest # <<>>
         /\ Head(<<x>> \o rest) = x /\ Tail(<<x>> \o rest) = rest
         /\ Len(<<x>> \o rest) = Len(rest) + 1
<1> DEFINE q == <<x>>
           u == q \o rest
<1>1. q \in Seq(S) /\ Len(q) = 1 /\ q[1] = x
  OBVIOUS
<1>2. Len(rest) \in Nat
  BY LenProperties
<1> HIDE DEF q
<1>3. /\ u \in Seq(S) /\ Len(u) = 1 + Len(rest)
      /\ \A i \in 1 .. 1 + Len(rest) : u[i] = IF i <= 1 THEN q[i] ELSE rest[i - 1]
  <2>1. /\ u \in Seq(S) /\ Len(u) = Len(q) + Len(rest)
        /\ \A i \in 1 .. Len(q) + Len(rest) : u[i] = IF i <= Len(q) THEN q[i] ELSE rest[i - Len(q)]
    BY <1>1, ConcatProperties
  <2> HIDE DEF u
  <2> QED
    BY <1>1, <2>1
<1> HIDE DEF u
<1>4. u # <<>>
  BY <1>2, <1>3
<1>5. Head(u) = x
  <2>1. 1 \in 1 .. 1 + Len(rest)
    BY <1>2
  <2>2. u[1] = x
    BY <1>1, <1>3, <2>1
  <2> QED
    BY <1>3, <1>4, <2>2
<1>6. /\ Tail(u) \in Seq(S) /\ Len(Tail(u)) = Len(u) - 1
      /\ \A i \in 1 .. Len(Tail(u)) : Tail(u)[i] = u[i + 1]
  BY <1>3, <1>4, HeadTailProperties
<1>7. Len(Tail(u)) = Len(rest)
  BY <1>2, <1>3, <1>6
<1>8. \A i \in 1 .. Len(rest) : Tail(u)[i] = rest[i]
  <2> TAKE i \in 1 .. Len(rest)
  <2>1. i + 1 \in 1 .. 1 + Len(rest) /\ ~ (i + 1 <= 1) /\ (i + 1) - 1 = i
    BY <1>2
  <2> QED
    BY <1>3, <1>6, <1>7, <2>1
<1>9. Tail(u) = rest
  BY <1>6, <1>7, <1>8, SeqEqual
<1> QED
  BY <1>2, <1>3, <1>4, <1>5, <1>9 DEF u, q

(* A step put before the rest makes a program again.                       *)
LEMMA ThreadPut ==
  ASSUME NEW cur, NEW x \in Step, NEW rest \in Seq(Step), NEW m, NEW found,
         FirstStep(cur, x, found, m)', Follows(PathOf(x), rest, m),
         NEW steps, steps = <<x>> \o rest
  PROVE  Thread(cur, steps, found, m)'
<1>1. Head(steps) = x /\ Tail(steps) = rest
  BY PutFirst
<1>2. Follows(PathOf(x), rest, m)'
  BY DEF Follows, NextStep, GoesOnFrom, PathOf
<1> QED
  BY <1>1, <1>2 DEF Thread

-----------------------------------------------------------------------------
(* The steps of a thread, one by one.                                      *)

WorkType == work \in [Actor -> [steps : Seq(Step), found : Seq(Id), listing : Nat]]

(* Actor a is at a thread: it has found cur in m, and does steps of S.     *)
Ready(a, cur, S, m) ==
  /\ Tree /\ WorkType /\ a \in Actor /\ ~ Idle(a) /\ cur \in Seq(Named) /\ m \in Market \cup {NoMarket}
  /\ Seeds \subseteq S /\ S \subseteq Step /\ work[a].steps \in Seq(S)
  /\ Line(cur, work[a].found, m) /\ Thread(cur, work[a].steps, work[a].found, m)

(* Nobody else has changed what it has found.                              *)
Sure(a, cur, m) ==
  /\ m \in Market /\ Firm(cur, work[a].steps, work[a].found, m)
  /\ Head(work[a].steps).op = "ensure" => Head(work[a].steps).path[1] = RootName

(* It is at one afterwards, and has not failed if it was sure.             *)
Advanced(a, cur, S, m) ==
  \E cur2, steps2, found2 :
    /\ cur2 \in Seq(Named) /\ steps2 \in Seq(S)
    /\ work'[a].steps = steps2 /\ work'[a].found = found2
    /\ Line(cur2, found2, m)' /\ Thread(cur2, steps2, found2, m)'
    /\ Sure(a, cur, m) => Firm(cur2, steps2, found2, m)'

(* A program that has ended, or thrown, is at the end of a thread.         *)
LEMMA NothingAdvanced ==
  ASSUME NEW a, NEW cur, NEW S, NEW m, work'[a] = Nothing
  PROVE  Advanced(a, cur, S, m)
<1>1. work'[a].steps = <<>> /\ work'[a].found = <<>>
  BY DEF Nothing
<1>2. <<>> \in Seq(Named) /\ <<>> \in Seq(S) /\ <<>> \in Seq(1 .. last') /\ Len(<<>>) = 0 /\ DOMAIN <<>> = {}
  OBVIOUS
<1>3. Line(<<>>, <<>>, m)'
  BY <1>2 DEF Line, Given
<1>4. Thread(<<>>, <<>>, <<>>, m)'
  BY DEF Thread
<1>5. Firm(<<>>, <<>>, <<>>, m)'
  BY <1>2 DEF Firm
<1> QED
  BY <1>1, <1>2, <1>3, <1>4, <1>5 DEF Advanced

(* One that goes on is at the thread that it goes on with.                 *)
LEMMA GoesAdvanced ==
  ASSUME WorkType, NEW a \in Actor, NEW cur, NEW S, NEW m, NEW steps \in Seq(S), NEW found,
         GoesOn(a, steps, found),
         NEW cur2 \in Seq(Named), Line(cur2, found, m)', Thread(cur2, steps, found, m)',
         Sure(a, cur, m) => Firm(cur2, steps, found, m)'
  PROVE  Advanced(a, cur, S, m) /\ fate' = fate
<1>1. fate' = fate
  BY DEF GoesOn
<1>2. CASE steps = <<>>
  <2>1. work'[a] = Nothing
    BY <1>2 DEF GoesOn, WorkType
  <2> QED
    BY <1>1, <2>1, NothingAdvanced
<1>3. CASE steps # <<>>
  <2>1. work'[a].steps = steps /\ work'[a].found = found
    BY <1>3 DEF GoesOn, WorkType
  <2> QED
    BY <1>1, <2>1 DEF Advanced
<1> QED
  BY <1>2, <1>3

(* What a step carries.                                                    *)
LEMMA StepTypes ==
  ASSUME NEW s \in Step
  PROVE  /\ s.op \in {"upsert", "ensure", "insert", "update", "root", "edit", "remove", "file", "send", "list", "inform"}
         /\ s.op \in {"upsert", "ensure", "insert", "update", "send", "list"} => s.path \in Path
         /\ s.op \in {"upsert", "file"} => s.market \in Market \cup {NoMarket}
         /\ s.op \in {"ensure", "root", "send", "list"} => s.market \in Market
         /\ s.op \in {"insert", "update"} => s.row \in Category
         /\ s.op \in {"update", "edit", "remove"} => s.id \in Id
         /\ s.op = "edit" => s.parent \in Id /\ s.path \in Path
         /\ s.op = "file" => s.key \in Named
         /\ s.op = "send" => s.template \in Nat
         /\ s.op = "inform" => s.category \in Id
BY DEF Step

(* The first step, and what follows it.                                    *)
LEMMA ReadyFacts ==
  ASSUME NEW a, NEW cur, NEW S, NEW m, Ready(a, cur, S, m)
  PROVE  LET s == Head(work[a].steps)
             rest == Tail(work[a].steps)
             found == work[a].found
         IN /\ s \in S /\ s \in Step /\ rest \in Seq(S) /\ rest \in Seq(Step)
            /\ FirstStep(cur, s, found, m) /\ Follows(PathOf(s), rest, m)
            /\ found \in Seq(Given) /\ Len(found) = Len(cur) /\ TypeOK
<1>1. work[a].steps # <<>> /\ work[a].steps \in Seq(S)
  BY DEF Ready, Idle
<1>2. Head(work[a].steps) \in S /\ Tail(work[a].steps) \in Seq(S)
  BY <1>1, HeadTailProperties
<1>3. Head(work[a].steps) \in Step /\ Tail(work[a].steps) \in Seq(Step)
  BY <1>2, SeqMonotonic DEF Ready
<1> QED
  BY <1>1, <1>2, <1>3 DEF Ready, Thread, Line, Tree

(* ROOT is a path and comes before any other name.                         *)
LEMMA RootPath ==
  /\ ROOT \in Path /\ ROOT[1] = RootName /\ Len(ROOT) = 1 /\ Last(ROOT) = RootName
  /\ GoesOnFrom(<<>>, ROOT) /\ \A p \in Path : Len(p) = 1 /\ p[1] = RootName => p = ROOT
<1>1. ROOT \in Path /\ ROOT[1] = RootName /\ Len(ROOT) = 1 /\ Len(<<>>) = 0
  BY KeyRoot DEF ROOT
<1>2. SubSeq(ROOT, 1, 0) = <<>> /\ SubSeq(<<>>, 1, 0) = <<>>
  BY SubSeqEmpty
<1>3. ASSUME NEW p \in Path, Len(p) = 1, p[1] = RootName PROVE p = ROOT
  <2> DEFINE r == ROOT
  <2>1. p \in Seq(Named) /\ r \in Seq(Named) /\ Len(r) = 1 /\ r[1] = RootName
    BY <1>1, PathSeq
  <2> HIDE DEF r
  <2>2. \A i \in 1 .. Len(p) : p[i] = r[i]
    BY <1>3, <2>1
  <2>3. p = r
    BY <1>3, <2>1, <2>2, SeqEqual
  <2> QED
    BY <2>3 DEF r
<1> QED
  BY <1>1, <1>2, <1>3 DEF GoesOnFrom, Last

(* A row for the next names fits below the last category found.            *)
LEMMA NextRow ==
  ASSUME Tree, NEW cur \in Seq(Named), NEW found, NEW m \in Market \cup {NoMarket}, Line(cur, found, m),
         NEW path \in Path, GoesOnFrom(cur, path), Len(path) = 1 => path[1] = RootName,
         NEW row, row = RowOf(path, found, m)
  PROVE  /\ row \in Category /\ row.key = KeyOf(path) /\ row.name = Last(path) /\ row.market = m
         /\ row.parent = None => path = ROOT
         /\ Len(path) = 1 => row.parent = None /\ path = ROOT
         /\ Len(row.key) = 1 => path = ROOT
         /\ row.parent # None =>
              /\ row.parent \in Given /\ Len(path) # 1
              /\ Steady(row.parent) => /\ categories[row.parent].key = KeyOf(SubSeq(path, 1, Len(path) - 1))
                                       /\ FitsBelow(row, row.parent)
<1>1. path \in Seq(Named) /\ Len(path) \in Nat \ {0} /\ Last(path) \in Named /\ KeyOf(path) \in Named
  BY PathSeq, KeyNamed
<1>2. found \in Seq(Given) /\ Len(found) = Len(cur)
  BY DEF Line
<1>3. Len(cur) \in Nat /\ Len(path) <= Len(cur) + 1 /\ SubSeq(path, 1, Len(path) - 1) = SubSeq(cur, 1, Len(path) - 1)
  BY LenProperties DEF GoesOnFrom
<1>4. CASE Len(path) = 1
  <2>1. path = ROOT
    BY <1>4, RootPath
  <2>2. row = [key |-> KeyOf(path), name |-> Last(path), market |-> m, parent |-> None]
    BY <1>4 DEF RowOf, NewRow
  <2> QED
    BY <1>1, <2>1, <2>2 DEF Category
<1>5. CASE Len(path) # 1
  <2> DEFINE k == Len(path) - 1
             p == found[k]
  <2>1. k \in 1 .. Len(found) /\ k \in 1 .. Len(path) /\ k + 1 = Len(path)
    <3>1. Len(path) \in Nat \ {0} /\ Len(found) \in Nat /\ Len(path) <= Len(found) + 1 /\ Len(path) # 1
      BY <1>1, <1>2, <1>3, <1>5
    <3>2. \A x \in Nat \ {0}, y \in Nat : x <= y + 1 /\ x # 1 =>
            x - 1 \in 1 .. y /\ x - 1 \in 1 .. x /\ (x - 1) + 1 = x
      OBVIOUS
    <3> QED
      BY <3>1, <3>2
  <2> HIDE DEF k
  <2>2. p \in Given /\ k \in DOMAIN found
    BY <1>2, <2>1, ElementOfSeq, LenProperties
  <2>3. p \in Id /\ p # None
    <3>1. last \in 0 .. MaxCategories /\ MaxCategories \in Nat
      BY CategoriesAssumption DEF Tree, TypeOK
    <3> QED
      BY <2>2, <3>1 DEF Given, Id, None
  <2>4. row = [key |-> KeyOf(path), name |-> Last(path), market |-> m, parent |-> p]
    BY <1>5 DEF RowOf, NewRow, k
  <2> DEFINE q == SubSeq(path, 1, k)
  <2>5. q \in Path /\ KeyOf(path) = KeyOf(q) \o Last(path) /\ Len(KeyOf(path)) > 1
    BY <1>5, KeyCut DEF k
  <2>6. ASSUME Steady(p) PROVE categories[p].key = KeyOf(q) /\ FitsBelow(row, p)
    <3>1. categories[p].key = KeyOf(SubSeq(cur, 1, k))
      BY <2>2, <2>6 DEF Line
    <3>2. categories[p].key = KeyOf(q)
      BY <1>3, <3>1 DEF k
    <3>3. Ends(categories[p].key, Whole[p])
      BY <2>6, WholeFacts DEF Steady
    <3>4. KeyOf(q) \in Named
      BY <2>5, KeyNamed
    <3>5. row.key = KeyOf(q) \o row.name
      BY <2>4, <2>5
    <3> HIDE DEF q, p
    <3> QED
      BY <3>2, <3>3, <3>4, <3>5 DEF FitsBelow
  <2>7. row \in Category /\ row.key = KeyOf(path) /\ row.name = Last(path) /\ row.market = m /\ row.parent = p
    BY <1>1, <2>3, <2>4 DEF Category
  <2>8. ~ (Len(row.key) = 1)
    <3>1. \A n : n > 1 => n # 1
      OBVIOUS
    <3> QED
      BY <2>5, <2>7, <3>1
  <2> HIDE DEF p
  <2> QED
    BY <1>5, <2>2, <2>3, <2>6, <2>7, <2>8 DEF p, k
<1> QED
  BY <1>4, <1>5

(* What the names come to of a category that is updated by the path that   *)
(* it was found by.                                                        *)
LEMMA UpdateWhole ==
  ASSUME Tree, NEW c \in DOMAIN categories, c \notin moved,
         NEW path \in Path, path[1] = RootName, categories[c].key = KeyOf(path)
  PROVE  /\ path = ROOT => Whole[c] = RootName /\ categories[c].parent = None
         /\ \A p \in DOMAIN categories \ moved :
              Len(path) # 1 /\ categories[p].key = KeyOf(SubSeq(path, 1, Len(path) - 1)) =>
                Whole[c] = Whole[p] \o Last(path)
<1>1. Whole[c] = KeyOf(path) /\ Whole[c] \in Named
  <2>1. KeyOf(path)[1] = "ROOT"
    BY KeyNamed, KeyRoot
  <2> QED
    BY <2>1, WholeFacts
<1>2. ASSUME path = ROOT PROVE Whole[c] = RootName /\ categories[c].parent = None
  <2>1. Whole[c] = RootName
    BY <1>1, <1>2, KeyRoot
  <2>2. ASSUME categories[c].parent # None PROVE FALSE
    <3> DEFINE p == categories[c].parent
               a == Whole[p]
               n == categories[c].name
    <3>1. p \in DOMAIN categories /\ p \notin moved
      BY <2>2, AboveUnmoved
    <3>2. a \in Named /\ n \in Named /\ Whole[c] = a \o n
      BY <2>2, <3>1, WholeFacts, RowTypes DEF Tree
    <3> HIDE DEF p, a, n
    <3>3. a \in Seq(Parts) /\ Len(a) \in Nat \ {0} /\ Len(n) \in Nat \ {0}
      BY <3>2, NamedSeq
    <3>4. Len(RootName) = Len(a) + Len(n) /\ Len(RootName) = 1
      BY <2>1, <3>2, <3>3, NamedConcat, KeyRoot
    <3>5. \A x, y \in Nat \ {0} : x + y # 1
      OBVIOUS
    <3> QED
      BY <3>3, <3>4, <3>5
  <2> QED
    BY <2>1, <2>2
<1>3. ASSUME NEW p \in DOMAIN categories \ moved, Len(path) # 1,
             categories[p].key = KeyOf(SubSeq(path, 1, Len(path) - 1))
      PROVE  Whole[c] = Whole[p] \o Last(path)
  <2> DEFINE q == SubSeq(path, 1, Len(path) - 1)
  <2>1. q \in Path /\ q[1] = RootName /\ KeyOf(path) = KeyOf(q) \o Last(path)
    BY <1>3, KeyCut
  <2> HIDE DEF q
  <2>2. KeyOf(q)[1] = "ROOT"
    BY <2>1, KeyNamed, KeyRoot
  <2>3. Whole[p] = KeyOf(q)
    BY <1>3, <2>2, WholeFacts DEF q
  <2> QED
    BY <1>1, <2>1, <2>3
<1> QED
  BY <1>2, <1>3

(* What the steps of a thread come to.                                     *)
Result(a, cur, S, m) ==
  Changes /\ Advanced(a, cur, S, m) /\ (Sure(a, cur, m) => fate' = fate)

(* The step that actor a does, the rest of its program, what it has found. *)
Doing(a, s, rest, found) ==
  s = Head(work[a].steps) /\ rest = Tail(work[a].steps) /\ found = work[a].found

(* A step that leaves the categories alone.                                *)
LEMMA Unchanged ==
  ASSUME Tree, Moves, categories' = categories, last' = last, edited' = edited
  PROVE  Changes /\ Kept /\ Grown
<1>1. Changes
  BY DEF Changes
<1> QED
  BY <1>1, ChangesKept DEF Grown

(* The first of several is one of them.                                    *)
LEMMA FirstIn ==
  ASSUME NEW F, F \subseteq Nat, None \notin F
  PROVE  (First(F) = None => F = {}) /\ (First(F) # None => First(F) \in F)
<1>1. CASE F = {}
  BY <1>1 DEF First
<1>2. CASE F # {}
  <2>1. \E c \in F : \A d \in F : c <= d
    BY <1>2, Least
  <2>2. First(F) \in F
    BY <1>2, <2>1 DEF First
  <2> QED
    BY <1>2, <2>2
<1> QED
  BY <1>1, <1>2

(* Ids are numbers, and None is none of them.                              *)
LEMMA IdsAreNumbers ==
  ASSUME TypeOK
  PROVE  DOMAIN categories \subseteq Nat /\ None \notin DOMAIN categories
<1>1. last \in 0 .. MaxCategories /\ MaxCategories \in Nat /\ DOMAIN categories \subseteq 1 .. last
  BY CategoriesAssumption DEF TypeOK
<1> QED
  BY <1>1 DEF None

(* What the look-ups return.                                               *)
LEMMA FindFacts ==
  ASSUME TypeOK, NEW path, NEW m, NEW c, c = FindOneByKeyAndMarket(KeyOf(path), m)
  PROVE  /\ c # None => /\ c \in DOMAIN categories /\ categories[c].key = KeyOf(path)
                        /\ m # NoMarket => categories[c].market = m
         /\ c = None /\ m # NoMarket => \A d \in DOMAIN categories : ~ At(d, path, m)
<1> DEFINE F == {d \in DOMAIN categories : categories[d].key = KeyOf(path) /\ m \in {NoMarket, categories[d].market}}
<1>1. F \subseteq Nat /\ None \notin F
  BY IdsAreNumbers
<1>2. c = First(F)
  BY DEF FindOneByKeyAndMarket
<1>3. (c = None => F = {}) /\ (c # None => c \in F)
  <2> HIDE DEF F
  <2> QED
    BY <1>1, <1>2, FirstIn
<1> QED
  BY <1>3 DEF At

(* In a market, what it finds is there, and when it finds nothing there is *)
(* nothing.                                                                *)
LEMMA FindAt ==
  ASSUME TypeOK, NEW path, NEW m, m # NoMarket, NEW c, c = FindOneByKeyAndMarket(KeyOf(path), m)
  PROVE  /\ c # None => c \in DOMAIN categories /\ At(c, path, m)
         /\ c = None => \A d \in DOMAIN categories : ~ At(d, path, m)
<1>1. /\ c # None => /\ c \in DOMAIN categories /\ categories[c].key = KeyOf(path)
                     /\ m # NoMarket => categories[c].market = m
      /\ c = None /\ m # NoMarket => \A d \in DOMAIN categories : ~ At(d, path, m)
  BY FindFacts
<1>2. c # None => c \in DOMAIN categories /\ At(c, path, m)
  BY <1>1 DEF At, Exists
<1> QED
  BY <1>1, <1>2

(* A market category without a parent is a ROOT.                           *)
LEMMA RootFacts ==
  ASSUME Tree, NEW m, NEW c, c = FindRoot(m)
  PROVE  c # None => At(c, ROOT, m)
<1> DEFINE F == {d \in DOMAIN categories : categories[d].market = m /\ categories[d].parent = None}
<1>1. F \subseteq Nat /\ None \notin F
  BY IdsAreNumbers DEF Tree
<1>2. c = First(F)
  BY DEF FindRoot
<1>3. c # None => c \in F
  <2> HIDE DEF F
  <2> QED
    BY <1>1, <1>2, FirstIn
<1> QED
  BY <1>3, KeyRoot DEF At, Exists, Tree, Rows

(* A thread with another step before the rest.                             *)
LEMMA MoreAdvanced ==
  ASSUME NEW a, NEW cur, NEW S, NEW m, Ready(a, cur, S, m),
         NEW s, NEW rest, NEW found, Doing(a, s, rest, found),
         Kept, categories' = categories,
         NEW x \in Step, x \in S, FirstStep(cur, x, found, m), Follows(PathOf(x), rest, m),
         GoesOn(a, <<x>> \o rest, found),
         x.op \in {"upsert", "insert", "update"},
         Sure(a, cur, m) => /\ x.op = "insert" => \A d \in DOMAIN categories : ~ At(d, x.path, m)
                            /\ x.op = "update" => At(x.id, x.path, m)
  PROVE  Advanced(a, cur, S, m) /\ fate' = fate
<1>1. rest \in Seq(S) /\ rest \in Seq(Step) /\ found \in Seq(Given)
  BY ReadyFacts DEF Doing
<1>2. WorkType /\ a \in Actor /\ cur \in Seq(Named) /\ Line(cur, found, m)
  BY DEF Ready, Doing
<1>3. PICK steps : steps = <<x>> \o rest
  OBVIOUS
<1>4. steps \in Seq(S) /\ steps # <<>> /\ Head(steps) = x
  BY <1>1, <1>3, PutFirst
<1>5. FirstStep(cur, x, found, m)' /\ Line(cur, found, m)'
  BY <1>2, FirstKept, LineKept
<1>6. Thread(cur, steps, found, m)'
  BY <1>1, <1>3, <1>5, ThreadPut
<1>7. ASSUME Sure(a, cur, m) PROVE Firm(cur, steps, found, m)'
  <2>1. \A k \in DOMAIN found : At(found[k], SubSeq(cur, 1, k), m)
    BY <1>7 DEF Sure, Firm, Doing
  <2>2. \A k \in DOMAIN found : At(found[k], SubSeq(cur, 1, k), m)'
    BY <2>1 DEF At, Exists
  <2>3. (x.op = "insert" => \A d \in DOMAIN categories' : ~ At(d, x.path, m)') /\ (x.op = "update" => At(x.id, x.path, m)')
    BY <1>7 DEF At, Exists
  <2>4. cur # <<>> => cur[1] = RootName
    BY <1>7 DEF Sure, Firm
  <2> QED
    BY <1>4, <2>2, <2>3, <2>4 DEF Firm
<1> QED
  BY <1>2, <1>3, <1>4, <1>5, <1>6, <1>7, GoesAdvanced

(* A thread that has found the category of the next names.                 *)
LEMMA FoundAdvanced ==
  ASSUME NEW a, NEW cur, NEW S, NEW m, Ready(a, cur, S, m),
         NEW s, NEW rest, NEW found, Doing(a, s, rest, found), Kept,
         NEW path \in Path, path = PathOf(s), GoesOnFrom(cur, path),
         NEW c \in 1 .. last', Found(a, path, c),
         Steady(c)' => categories'[c].key = KeyOf(path) /\ (m # NoMarket => categories'[c].market = m),
         Sure(a, cur, m) => Grown /\ At(c, path, m)' /\ path[1] = RootName
  PROVE  Advanced(a, cur, S, m) /\ fate' = fate
<1>1. /\ rest \in Seq(S) /\ rest \in Seq(Step) /\ found \in Seq(Given) /\ Len(found) = Len(cur)
      /\ Follows(path, rest, m)
  BY ReadyFacts DEF Doing
<1>2. WorkType /\ a \in Actor /\ cur \in Seq(Named) /\ Line(cur, found, m)
  BY DEF Ready, Doing
<1>3. path \in Seq(Named)
  BY PathSeq
<1>4. PICK found2 : found2 = Append(SubSeq(found, 1, Len(path) - 1), c)
  OBVIOUS
<1>5. GoesOn(a, rest, found2)
  BY <1>4 DEF Found, Doing
<1>6. Line(path, found2, m)'
  BY <1>2, <1>4, LineFound
<1>7. Thread(path, rest, found2, m)'
  BY <1>1, ThreadFollows
<1>8. ASSUME Sure(a, cur, m) PROVE Firm(path, rest, found2, m)'
  <2>1. \A k \in DOMAIN found : At(found[k], SubSeq(cur, 1, k), m)
    BY <1>8 DEF Sure, Firm, Doing
  <2>2. Grown /\ At(c, path, m)' /\ path[1] = RootName
    BY <1>8
  <2> QED
    BY <1>1, <1>2, <1>4, <2>1, <2>2, FirmFound
<1> QED
  BY <1>1, <1>2, <1>3, <1>5, <1>6, <1>7, <1>8, GoesAdvanced

(* insertOrUpdate() has looked: the row will be created, or updated.       *)
LEMMA UpsertResult ==
  ASSUME NEW a, NEW cur, NEW S, NEW m, Ready(a, cur, S, m), InsertOrUpdate(a), Moves,
         NEW s, NEW rest, NEW found, Doing(a, s, rest, found)
  PROVE  Result(a, cur, S, m)
<1>1. /\ s \in S /\ s \in Step /\ rest \in Seq(S) /\ rest \in Seq(Step)
      /\ FirstStep(cur, s, found, m) /\ Follows(PathOf(s), rest, m) /\ TypeOK
  BY ReadyFacts DEF Doing
<1>2. /\ cur \in Seq(Named) /\ m \in Market \cup {NoMarket} /\ Tree /\ Line(cur, found, m)
      /\ Seeds \subseteq S
  BY DEF Ready, Doing
<1>3. Changes /\ Kept /\ categories' = categories
  BY <1>2, Unchanged DEF InsertOrUpdate
<1>4. s.op = "upsert" /\ s.path \in Path
  BY <1>1, StepTypes DEF InsertOrUpdate, Running, Doing
<1>5. s.market = m /\ GoesOnFrom(cur, s.path) /\ s.path[1] = RootName /\ (m # NoMarket => s.path = ROOT)
  BY <1>1, <1>4 DEF FirstStep, NextStep
<1>6. PICK c : c = FindOneByKeyAndMarket(KeyOf(s.path), m)
  OBVIOUS
<1>7. PICK row : row = RowOf(s.path, found, m)
  OBVIOUS
<1>8. row \in Category
  BY <1>1, <1>2, <1>4, <1>5, <1>7, NextRow
<1> DEFINE insert == Insert(s.path, row)
           update == [op |-> "update", id |-> c, path |-> s.path, row |-> row]
<1>9. PICK x : x = IF c = None THEN insert ELSE update
  OBVIOUS
<1>10. GoesOn(a, <<x>> \o rest, found)
  <2>1. GoesOn(a, (IF c = None THEN <<Insert(s.path, Row(a, s.path, m))>>
                   ELSE <<[op |-> "update", id |-> c, path |-> s.path, row |-> Row(a, s.path, m)]>>) \o rest, found)
    BY <1>5, <1>6 DEF InsertOrUpdate, Goes, Doing
  <2>2. Row(a, s.path, m) = row
    BY <1>7 DEF Row, RowOf, NewRow, Parent, Doing
  <2>3. CASE c = None
    BY <1>9, <2>1, <2>2, <2>3
  <2>4. CASE c # None
    BY <1>9, <2>1, <2>2, <2>4
  <2> QED
    BY <2>3, <2>4
<1>11. /\ c # None => /\ c \in DOMAIN categories /\ categories[c].key = KeyOf(s.path)
                      /\ m # NoMarket => categories[c].market = m
       /\ c = None /\ m # NoMarket => \A d \in DOMAIN categories : ~ At(d, s.path, m)
  BY <1>1, <1>6, FindFacts
<1>12. c # None => c \in Id /\ c \in Given
  BY <1>1, <1>11, RowTypes
<1>13. CASE c = None
  <2>1. x.op = "insert" /\ x.path = s.path /\ x.row = row /\ x \in Step /\ x \in Seeds /\ PathOf(x) = PathOf(s)
    BY <1>4, <1>8, <1>9, <1>13 DEF Insert, Step, Seeds, PathOf
  <2>2. FirstStep(cur, x, found, m)
    BY <1>4, <1>5, <1>7, <2>1, RootPath DEF FirstStep
  <2>3. Sure(a, cur, m) => \A d \in DOMAIN categories : ~ At(d, x.path, m)
    BY <1>11, <1>13, <2>1, CategoriesAssumption DEF Sure, NoMarket
  <2>4. Advanced(a, cur, S, m) /\ fate' = fate
    BY <1>1, <1>2, <1>3, <1>10, <2>1, <2>2, <2>3, MoreAdvanced
  <2> QED
    BY <1>3, <2>4 DEF Result
<1>14. CASE c # None
  <2>1. /\ x.op = "update" /\ x.path = s.path /\ x.row = row /\ x.id = c
        /\ x \in Step /\ x \in Seeds /\ PathOf(x) = PathOf(s)
    BY <1>4, <1>8, <1>9, <1>12, <1>14 DEF Step, Seeds, PathOf
  <2>2. FirstStep(cur, x, found, m)
    BY <1>5, <1>7, <1>11, <1>12, <1>14, <2>1 DEF FirstStep
  <2>3. Sure(a, cur, m) => At(x.id, x.path, m)
    BY <1>11, <1>14, <2>1, CategoriesAssumption DEF Sure, NoMarket, At, Exists
  <2>4. Advanced(a, cur, S, m) /\ fate' = fate
    BY <1>1, <1>2, <1>3, <1>10, <2>1, <2>2, <2>3, MoreAdvanced
  <2> QED
    BY <1>3, <2>4 DEF Result
<1> QED
  BY <1>13, <1>14

(* The update goes through, or the row is created after all.               *)
LEMMA UpdateResult ==
  ASSUME NEW a, NEW cur, NEW S, NEW m, Ready(a, cur, S, m), UpdateRow(a), Moves,
         NEW s, NEW rest, NEW found, Doing(a, s, rest, found)
  PROVE  Result(a, cur, S, m)
<1>1. /\ s \in S /\ s \in Step /\ rest \in Seq(S) /\ rest \in Seq(Step)
      /\ FirstStep(cur, s, found, m) /\ Follows(PathOf(s), rest, m) /\ TypeOK
  BY ReadyFacts DEF Doing
<1>2. /\ cur \in Seq(Named) /\ m \in Market \cup {NoMarket} /\ Tree /\ Line(cur, found, m)
      /\ Seeds \subseteq S
  BY DEF Ready, Doing
<1>3. s.op = "update" /\ s.path \in Path /\ s.row \in Category /\ s.id \in Id
  BY <1>1, StepTypes DEF UpdateRow, Running, Doing
<1>4. /\ GoesOnFrom(cur, s.path) /\ s.path[1] = RootName /\ s.row = RowOf(s.path, found, m)
      /\ s.id \in Given /\ (m # NoMarket => s.path = ROOT)
      /\ Steady(s.id) => categories[s.id].key = KeyOf(s.path) /\ (m # NoMarket => categories[s.id].market = m)
  BY <1>1, <1>3 DEF FirstStep, NextStep
<1>5. /\ s.row.key = KeyOf(s.path) /\ s.row.name = Last(s.path)
      /\ s.row.parent = None => s.path = ROOT
      /\ Len(s.path) = 1 => s.row.parent = None /\ s.path = ROOT
      /\ Len(s.row.key) = 1 => s.path = ROOT
      /\ s.row.parent # None =>
           /\ s.row.parent \in Given /\ Len(s.path) # 1
           /\ Steady(s.row.parent) => categories[s.row.parent].key = KeyOf(SubSeq(s.path, 1, Len(s.path) - 1))
  BY <1>1, <1>2, <1>3, <1>4, NextRow
<1>6. last' = last /\ edited' = edited
  BY DEF UpdateRow
<1>7. PICK row : row = [categories[s.id] EXCEPT !.key = s.row.key, !.name = s.row.name,
                          !.parent = IF s.row.parent = None THEN @ ELSE s.row.parent]
  OBVIOUS
<1>8. \/ Exists(s.id) /\ Admits(s.id, row) /\ Put(s.id, row) /\ Found(a, s.path, s.id)
      \/ ~ (Exists(s.id) /\ Admits(s.id, row)) /\ Goes(a, <<Insert(s.path, s.row)>>) /\ categories' = categories
  BY <1>7 DEF UpdateRow, Doing
<1>9. ASSUME s.id \in DOMAIN categories
      PROVE  /\ row \in Category /\ row.key = KeyOf(s.path) /\ row.name = Last(s.path)
             /\ row.market = categories[s.id].market
             /\ row.parent = IF s.row.parent = None THEN categories[s.id].parent ELSE s.row.parent
  <2>1. categories[s.id] \in Category
    BY <1>1, <1>9 DEF TypeOK
  <2> QED
    BY <1>3, <1>5, <1>7, <2>1 DEF Category
<1>10. Sure(a, cur, m) => /\ At(s.id, s.path, m) /\ s.path = ROOT /\ s.row.parent = None
                          /\ m \in Market /\ m # NoMarket
  <2>1. ASSUME Sure(a, cur, m) PROVE At(s.id, s.path, m) /\ m \in Market
    <3>1. work[a].steps # <<>>
      BY DEF Ready, Idle
    <3> QED
      BY <1>3, <2>1, <3>1 DEF Sure, Firm, Doing
  <2>2. Len(ROOT) = 1
    BY DEF ROOT
  <2> QED
    BY <1>4, <1>5, <2>1, <2>2, CategoriesAssumption DEF NoMarket
<1>11. Sure(a, cur, m) => /\ s.id \in DOMAIN categories /\ row.key = categories[s.id].key
                          /\ row.market = categories[s.id].market /\ Admits(s.id, row)
  <2> SUFFICES ASSUME Sure(a, cur, m)
               PROVE  /\ s.id \in DOMAIN categories /\ row.key = categories[s.id].key
                      /\ row.market = categories[s.id].market /\ Admits(s.id, row)
    OBVIOUS
  <2>1. s.id \in DOMAIN categories /\ categories[s.id].key = KeyOf(s.path) /\ s.row.parent = None
    BY <1>10 DEF At, Exists
  <2>2. row.key = categories[s.id].key /\ row.market = categories[s.id].market /\ row.parent = categories[s.id].parent
    BY <1>9, <2>1
  <2>3. row.parent # None => row.parent \in DOMAIN categories
    BY <1>1, <2>1, <2>2, RowTypes
  <2>4. \A d \in DOMAIN categories \ {s.id} : row.market # NoMarket =>
          categories[d].key # row.key \/ categories[d].market # row.market
    BY <1>2, <2>1, <2>2 DEF Tree, Rows
  <2> QED
    BY <2>1, <2>2, <2>3, <2>4 DEF Admits
<1>12. CASE Exists(s.id) /\ Admits(s.id, row) /\ Put(s.id, row) /\ Found(a, s.path, s.id)
  <2>1. s.id \in DOMAIN categories
    BY <1>12 DEF Exists
  <2>2. Sound(s.id, row)
    <3>1. row.parent = None \/ Len(row.key) = 1 => row.key = RootName
      BY <1>5, <1>9, <2>1, KeyRoot
    <3> QED
      BY <1>9, <1>12, <2>1, <3>1 DEF Sound
  <2>3. Replaced(s.id, row)
    <3>1. ASSUME Steady(s.id)
          PROVE  /\ row.key = categories[s.id].key
                 /\ row.parent = None => Whole[s.id] = row.name
                 /\ row.parent # None /\ Steady(row.parent) => Whole[s.id] = Whole[row.parent] \o row.name
      <4>1. s.id \notin moved /\ categories[s.id].key = KeyOf(s.path)
        BY <1>4, <3>1 DEF Steady
      <4>2. /\ s.path = ROOT => Whole[s.id] = RootName /\ categories[s.id].parent = None
            /\ \A p \in DOMAIN categories \ moved :
                 Len(s.path) # 1 /\ categories[p].key = KeyOf(SubSeq(s.path, 1, Len(s.path) - 1)) =>
                   Whole[s.id] = Whole[p] \o Last(s.path)
        BY <1>2, <1>3, <1>4, <2>1, <4>1, UpdateWhole
      <4>3. CASE s.row.parent = None
        <5>1. s.path = ROOT /\ row.parent = None /\ row.name = RootName
          BY <1>5, <1>9, <2>1, <4>2, <4>3, RootPath
        <5> QED
          BY <1>9, <2>1, <4>1, <4>2, <5>1
      <4>4. CASE s.row.parent # None
        <5>1. row.parent = s.row.parent /\ row.parent # None /\ row.name = Last(s.path)
          BY <1>9, <2>1, <4>4
        <5>2. ASSUME Steady(row.parent) PROVE Whole[s.id] = Whole[row.parent] \o row.name
          BY <1>5, <4>2, <4>4, <5>1, <5>2 DEF Steady
        <5> QED
          BY <1>9, <2>1, <4>1, <5>1, <5>2
      <4> QED
        BY <4>3, <4>4
    <3> QED
      BY <1>6, <1>9, <1>12, <2>1, <2>2, <3>1 DEF Replaced
  <2>4. Changes /\ Kept
    BY <1>2, <1>9, <2>1, <2>3, ChangesKept DEF Changes
  <2>5. categories'[s.id] = row /\ s.id \in DOMAIN categories'
    BY <1>12, <2>1 DEF Put
  <2>6. Steady(s.id)' => categories'[s.id].key = KeyOf(s.path) /\ (m # NoMarket => categories'[s.id].market = m)
    <3>1. Steady(s.id)' => Steady(s.id)
      BY <1>4, <2>4 DEF Kept
    <3> QED
      BY <1>4, <1>9, <2>1, <2>5, <3>1
  <2>7. Sure(a, cur, m) => Grown /\ At(s.id, s.path, m)'
    <3> SUFFICES ASSUME Sure(a, cur, m) PROVE Grown /\ At(s.id, s.path, m)'
      OBVIOUS
    <3>1. Grown
      BY <1>11, <1>12 DEF Put, Grown
    <3>2. At(s.id, s.path, m)'
      BY <1>9, <1>10, <2>1, <2>5 DEF At, Exists
    <3> QED
      BY <3>1, <3>2
  <2>8. PICK path : path = s.path
    OBVIOUS
  <2>9. PICK c : c = s.id
    OBVIOUS
  <2>10. c \in 1 .. last'
    BY <1>4, <1>6, <2>9 DEF Given
  <2>11. PathOf(s) = path
    BY <1>3, <2>8 DEF PathOf
  <2>12. Advanced(a, cur, S, m) /\ fate' = fate
    BY <1>3, <1>4, <1>12, <2>4, <2>6, <2>7, <2>8, <2>9, <2>10, <2>11, FoundAdvanced
  <2> QED
    BY <2>4, <2>12 DEF Result
<1>13. CASE ~ (Exists(s.id) /\ Admits(s.id, row)) /\ Goes(a, <<Insert(s.path, s.row)>>) /\ categories' = categories
  <2>1. Changes /\ Kept
    BY <1>2, <1>6, <1>13, Unchanged
  <2>2. PICK x : x = Insert(s.path, s.row)
    OBVIOUS
  <2>3. x.op = "insert" /\ x.path = s.path /\ x.row = s.row /\ x \in Step /\ x \in Seeds /\ PathOf(x) = PathOf(s)
    BY <1>3, <2>2 DEF Insert, Step, Seeds, PathOf
  <2>4. FirstStep(cur, x, found, m)
    BY <1>3, <1>4, <2>3, RootPath DEF FirstStep
  <2>5. ~ Sure(a, cur, m)
    BY <1>11, <1>13 DEF Exists
  <2>6. GoesOn(a, <<x>> \o rest, found)
    BY <1>13, <2>2 DEF Goes, Doing
  <2>7. Advanced(a, cur, S, m) /\ fate' = fate
    BY <1>1, <1>2, <1>13, <2>1, <2>3, <2>4, <2>5, <2>6, MoreAdvanced
  <2> QED
    BY <2>1, <2>7 DEF Result
<1> QED
  BY <1>8, <1>12, <1>13

(* A path that goes on from names that begin with ROOT begins with ROOT.   *)
LEMMA FromRoot ==
  ASSUME NEW cur \in Seq(Named), cur # <<>> => cur[1] = RootName,
         NEW path \in Path, GoesOnFrom(cur, path), Len(path) = 1 => path[1] = RootName
  PROVE  path[1] = RootName
<1>1. path \in Seq(Named) /\ Len(path) \in Nat \ {0} /\ Len(path) <= Len(cur) + 1 /\ Len(cur) \in Nat
  BY PathSeq, LenProperties DEF GoesOnFrom
<1>2. SUFFICES ASSUME Len(path) # 1 PROVE path[1] = RootName
  OBVIOUS
<1> DEFINE n == Len(path) - 1
<1>3. n \in 1 .. Len(cur) /\ n \in 0 .. Len(cur) /\ n \in 0 .. Len(path) /\ 1 \in 1 .. n /\ Len(cur) # 0
  <2>1. \A i \in Nat \ {0}, j \in Nat : i # 1 /\ i <= j + 1 =>
          i - 1 \in 1 .. j /\ i - 1 \in 0 .. j /\ i - 1 \in 0 .. i /\ 1 \in 1 .. i - 1 /\ j # 0
    OBVIOUS
  <2> QED
    BY <1>1, <1>2, <2>1
<1>4. SubSeq(path, 1, n) = SubSeq(cur, 1, n)
  BY DEF GoesOnFrom
<1> HIDE DEF n
<1>5. SubSeq(path, 1, n)[1] = path[1]
  BY <1>1, <1>3, Cut
<1>6. SubSeq(cur, 1, n)[1] = cur[1]
  BY <1>3, Cut
<1>7. cur # <<>>
  BY <1>3
<1> QED
  BY <1>4, <1>5, <1>6, <1>7

(* A row is created, or refused to a program that was not sure.            *)
LEMMA InsertResult ==
  ASSUME NEW a, NEW cur, NEW S, NEW m, Ready(a, cur, S, m), InsertRow(a), Moves,
         NEW s, NEW rest, NEW found, Doing(a, s, rest, found)
  PROVE  Result(a, cur, S, m)
<1>1. /\ s \in S /\ s \in Step /\ rest \in Seq(S) /\ rest \in Seq(Step)
      /\ FirstStep(cur, s, found, m) /\ Follows(PathOf(s), rest, m) /\ TypeOK
  BY ReadyFacts DEF Doing
<1>2. /\ cur \in Seq(Named) /\ m \in Market \cup {NoMarket} /\ Tree /\ Line(cur, found, m)
      /\ Seeds \subseteq S /\ WorkType /\ a \in Actor
  BY DEF Ready, Doing
<1>3. s.op = "insert" /\ s.path \in Path /\ s.row \in Category
  BY <1>1, StepTypes DEF InsertRow, Running, Doing
<1>4. GoesOnFrom(cur, s.path) /\ (Len(s.path) = 1 => s.path = ROOT) /\ s.row = RowOf(s.path, found, m)
  BY <1>1, <1>3 DEF FirstStep, NextStep
<1>5. /\ s.row.key = KeyOf(s.path) /\ s.row.name = Last(s.path) /\ s.row.market = m
      /\ s.row.parent = None => s.path = ROOT
      /\ Len(s.path) = 1 => s.row.parent = None /\ s.path = ROOT
      /\ Len(s.row.key) = 1 => s.path = ROOT
      /\ s.row.parent # None => (Steady(s.row.parent) => FitsBelow(s.row, s.row.parent))
  <2>1. Len(s.path) = 1 => s.path[1] = RootName
    BY <1>4, RootPath
  <2> QED
    BY <1>2, <1>3, <1>4, <2>1, NextRow
<1>6. \/ ~ Admits(None, s.row) /\ Threw(a)
      \/ /\ Admits(None, s.row) /\ last < MaxCategories /\ last' = last + 1
         /\ Put(last + 1, s.row) /\ Found(a, s.path, last + 1) /\ edited' = edited
  BY DEF InsertRow, Doing
<1>7. last \in Nat /\ MaxCategories \in Nat
  BY <1>1, CategoriesAssumption DEF TypeOK
<1>8. ASSUME Sure(a, cur, m) PROVE Admits(None, s.row)
  <2>1. work[a].steps # <<>>
    BY DEF Ready, Idle
  <2>2. /\ \A k \in DOMAIN found : At(found[k], SubSeq(cur, 1, k), m)
        /\ \A c \in DOMAIN categories : ~ At(c, s.path, m)
    BY <1>3, <1>8, <2>1 DEF Sure, Firm, Doing
  <2>3. s.row.parent # None => s.row.parent \in DOMAIN categories
    <3> SUFFICES ASSUME s.row.parent # None PROVE s.row.parent \in DOMAIN categories
      OBVIOUS
    <3>1. Len(s.path) # 1 /\ s.row.parent = found[Len(s.path) - 1]
      BY <1>4, <1>5 DEF RowOf, NewRow
    <3>2. Len(s.path) \in Nat \ {0} /\ Len(s.path) <= Len(cur) + 1 /\ Len(found) = Len(cur) /\ found \in Seq(Given)
      BY <1>2, <1>3, <1>4, PathSeq DEF GoesOnFrom, Line
    <3>3. Len(cur) \in Nat /\ DOMAIN found = 1 .. Len(found)
      BY <1>2, <3>2, LenProperties
    <3>4. \A i \in Nat \ {0}, j \in Nat : i <= j + 1 /\ i # 1 => i - 1 \in 1 .. j
      OBVIOUS
    <3>5. Len(s.path) - 1 \in DOMAIN found
      BY <3>1, <3>2, <3>3, <3>4
    <3> QED
      BY <2>2, <3>1, <3>5 DEF At, Exists
  <2>4. \A d \in DOMAIN categories \ {None} : categories[d].key # s.row.key \/ categories[d].market # s.row.market
    BY <1>5, <2>2 DEF At, Exists
  <2> QED
    BY <2>3, <2>4 DEF Admits
<1>9. CASE ~ Admits(None, s.row) /\ Threw(a)
  <2>1. categories' = categories /\ last' = last /\ edited' = edited
    BY <1>9 DEF Threw
  <2>2. work'[a] = Nothing
    BY <1>2, <1>9 DEF Threw, WorkType
  <2>3. Changes
    BY <1>2, <2>1, Unchanged
  <2>4. Advanced(a, cur, S, m)
    BY <2>2, NothingAdvanced
  <2> QED
    BY <1>8, <1>9, <2>3, <2>4 DEF Result
<1>10. CASE /\ Admits(None, s.row) /\ last < MaxCategories /\ last' = last + 1
            /\ Put(last + 1, s.row) /\ Found(a, s.path, last + 1) /\ edited' = edited
  <2>1. Inserted(s.row)
    <3>1. last + 1 \in Id
      BY <1>7, <1>10 DEF Id
    <3>2. s.path = ROOT => s.row.key = RootName /\ s.row.name = RootName
      BY <1>5, RootPath, KeyRoot
    <3>3. Sound(None, s.row)
      BY <1>3, <1>5, <1>10, <3>2 DEF Sound
    <3> QED
      BY <1>5, <1>10, <3>1, <3>2, <3>3 DEF Inserted
  <2>2. Changes
    BY <1>3, <2>1 DEF Changes
  <2>3. Kept
    BY <1>2, <2>2, ChangesKept
  <2>4. PICK c : c = last + 1
    OBVIOUS
  <2>5. c \in DOMAIN categories' /\ categories'[c] = s.row /\ c \in 1 .. last'
    BY <1>7, <1>10, <2>4 DEF Put
  <2>6. Grown
    <3>1. c \notin DOMAIN categories
      BY <1>1, <1>7, <2>4 DEF TypeOK
    <3> QED
      BY <1>10, <2>4, <3>1 DEF Put, Grown
  <2>7. PICK path : path = s.path
    OBVIOUS
  <2>8. path \in Path /\ path = PathOf(s) /\ GoesOnFrom(cur, path) /\ Found(a, path, c)
    BY <1>3, <1>4, <1>10, <2>4, <2>7 DEF PathOf
  <2>9. categories'[c].key = KeyOf(path) /\ categories'[c].market = m
    BY <1>5, <2>5, <2>7
  <2>10. At(c, path, m)'
    BY <2>5, <2>9 DEF At, Exists
  <2>11. Sure(a, cur, m) => path[1] = RootName
    <3>1. Sure(a, cur, m) => (cur # <<>> => cur[1] = RootName)
      BY DEF Sure, Firm
    <3>2. Len(path) = 1 => path[1] = RootName
      BY <1>4, <2>7, RootPath
    <3> QED
      BY <1>2, <2>8, <3>1, <3>2, FromRoot
  <2>12. Advanced(a, cur, S, m) /\ fate' = fate
    BY <2>3, <2>5, <2>6, <2>8, <2>9, <2>10, <2>11, FoundAdvanced
  <2> QED
    BY <2>2, <2>12 DEF Result
<1> QED
  BY <1>6, <1>9, <1>10

(* A thread that only drops its step.                                      *)
LEMMA SkipAdvanced ==
  ASSUME NEW a, NEW cur, NEW S, NEW m, Ready(a, cur, S, m),
         NEW s, NEW rest, NEW found, Doing(a, s, rest, found), Kept, categories' = categories,
         cur = PathOf(s), Goes(a, <<>>),
         Sure(a, cur, m) => (cur = <<>> => \E c \in DOMAIN categories : At(c, ROOT, m))
  PROVE  Advanced(a, cur, S, m) /\ fate' = fate
<1>1. /\ rest \in Seq(S) /\ rest \in Seq(Step) /\ found \in Seq(Given)
      /\ Follows(cur, rest, m)
  BY ReadyFacts DEF Doing
<1>2. WorkType /\ a \in Actor /\ cur \in Seq(Named) /\ Line(cur, found, m)
  BY DEF Ready, Doing
<1>3. <<>> \o rest = rest
  BY <1>1, ConcatEmptySeq
<1>4. GoesOn(a, rest, found)
  BY <1>3 DEF Goes, Doing
<1>5. Line(cur, found, m)'
  BY <1>2, LineKept
<1>6. Thread(cur, rest, found, m)'
  BY <1>1, ThreadFollows
<1>7. ASSUME Sure(a, cur, m) PROVE Firm(cur, rest, found, m)'
  <2>1. \A k \in DOMAIN found : At(found[k], SubSeq(cur, 1, k), m)'
    BY <1>7 DEF Sure, Firm, Doing, At, Exists
  <2>2. rest # <<>> => Head(rest).op \in {"upsert", "ensure", "list", "send"}
    BY <1>1 DEF Follows, NextStep
  <2>3. cur = <<>> => \E c \in DOMAIN categories' : At(c, ROOT, m)'
    BY <1>7 DEF At, Exists
  <2>4. cur # <<>> => cur[1] = RootName
    BY <1>7 DEF Sure, Firm
  <2> QED
    BY <2>1, <2>2, <2>3, <2>4 DEF Firm
<1> QED
  BY <1>1, <1>2, <1>4, <1>5, <1>6, <1>7, GoesAdvanced

(* What may follow nothing may follow ROOT.                                *)
LEMMA FollowsRoot ==
  ASSUME NEW rest \in Seq(Step), NEW m, Follows(<<>>, rest, m)
  PROVE  Follows(ROOT, rest, m)
<1>1. SUFFICES ASSUME rest # <<>> PROVE NextStep(ROOT, rest[1], m)
  BY DEF Follows
<1>2. rest[1] \in Step
  <2>1. 1 \in 1 .. Len(rest)
    BY <1>1, EmptySeq
  <2> QED
    BY <2>1, ElementOfSeq
<1>3. NextStep(<<>>, rest[1], m)
  BY <1>1 DEF Follows
<1>4. rest[1].path \in Path
  BY <1>2, <1>3, StepTypes DEF NextStep
<1>5. rest[1].path # <<>>
  BY <1>4 DEF Path
<1>6. ASSUME GoesOnFrom(<<>>, rest[1].path) PROVE GoesOnFrom(ROOT, rest[1].path)
  <2> DEFINE p == rest[1].path
  <2>1. Len(p) \in Nat \ {0} /\ Len(p) <= Len(<<>>) + 1 /\ Len(<<>>) = 0
    BY <1>4, <1>6, PathSeq DEF GoesOnFrom
  <2> HIDE DEF p
  <2>2. Len(p) = 1 /\ Len(p) - 1 = 0
    <3>1. \A n \in Nat \ {0} : n <= 0 + 1 => n = 1 /\ n - 1 = 0
      OBVIOUS
    <3>2. Len(p) <= 0 + 1
      BY <2>1
    <3> QED
      BY <2>1, <3>1, <3>2
  <2>3. SubSeq(p, 1, 0) = <<>> /\ SubSeq(ROOT, 1, 0) = <<>>
    BY SubSeqEmpty
  <2> QED
    BY <2>2, <2>3, RootPath DEF GoesOnFrom, p
<1> QED
  BY <1>3, <1>5, <1>6 DEF NextStep

(* The market's ROOT is looked for.                                        *)
LEMMA RootResult ==
  ASSUME NEW a, NEW cur, NEW S, NEW m, Ready(a, cur, S, m), LookForRoot(a), Moves,
         NEW s, NEW rest, NEW found, Doing(a, s, rest, found)
  PROVE  Result(a, cur, S, m)
<1>1. /\ s \in S /\ s \in Step /\ rest \in Seq(S) /\ rest \in Seq(Step)
      /\ FirstStep(cur, s, found, m) /\ Follows(PathOf(s), rest, m)
  BY ReadyFacts DEF Doing
<1>2. Tree /\ Seeds \subseteq S
  BY DEF Ready
<1>3. Changes /\ Kept /\ categories' = categories
  BY <1>2, Unchanged DEF LookForRoot
<1>4. s.op = "root"
  BY DEF LookForRoot, Running, Doing
<1>5. s.market = m /\ cur = <<>> /\ PathOf(s) = <<>> /\ m \in Market
  BY <1>1, <1>4, StepTypes DEF FirstStep, NextStep, PathOf
<1>6. PICK c : c = FindRoot(m)
  OBVIOUS
<1>7. CASE c = None
  <2>1. PICK x : x = Upsert(ROOT, m)
    OBVIOUS
  <2>2. x.op = "upsert" /\ x.path = ROOT /\ x.market = m /\ x \in Step /\ x \in Seeds /\ PathOf(x) = ROOT
    BY <1>5, <2>1, RootPath DEF Upsert, Step, Seeds, PathOf
  <2>3. FirstStep(cur, x, found, m)
    BY <1>5, <2>2, RootPath DEF FirstStep, NextStep
  <2>4. Follows(PathOf(x), rest, m)
    BY <1>1, <1>5, <2>2, FollowsRoot
  <2>5. GoesOn(a, <<x>> \o rest, found)
    BY <1>5, <1>6, <1>7, <2>1 DEF LookForRoot, Goes, Doing
  <2>6. Advanced(a, cur, S, m) /\ fate' = fate
    BY <1>1, <1>2, <1>3, <2>2, <2>3, <2>4, <2>5, MoreAdvanced
  <2> QED
    BY <1>3, <2>6 DEF Result
<1>8. CASE c # None
  <2>1. Goes(a, <<>>)
    BY <1>5, <1>6, <1>8 DEF LookForRoot, Doing
  <2>2. c \in DOMAIN categories /\ At(c, ROOT, m)
    BY <1>2, <1>6, <1>8, RootFacts DEF At, Exists
  <2>3. Advanced(a, cur, S, m) /\ fate' = fate
    BY <1>3, <1>5, <2>1, <2>2, SkipAdvanced
  <2> QED
    BY <1>3, <2>3 DEF Result
<1> QED
  BY <1>7, <1>8

(* The listing goes out.                                                   *)
LEMMA SendResult ==
  ASSUME NEW a, NEW cur, NEW S, NEW m, Ready(a, cur, S, m), SendListing(a), Moves,
         NEW s, NEW rest, NEW found, Doing(a, s, rest, found)
  PROVE  Result(a, cur, S, m)
<1>1. s \in Step /\ FirstStep(cur, s, found, m) /\ Tree
  BY ReadyFacts DEF Doing, Ready
<1>2. Changes /\ Kept /\ categories' = categories /\ Goes(a, <<>>)
  BY <1>1, Unchanged DEF SendListing
<1>3. s.op = "send"
  BY DEF SendListing, Running, Doing
<1>4. s.path = cur /\ PathOf(s) = cur /\ cur # <<>>
  BY <1>1, <1>3, StepTypes DEF FirstStep, NextStep, PathOf, Path
<1>5. Advanced(a, cur, S, m) /\ fate' = fate
  BY <1>2, <1>4, SkipAdvanced
<1> QED
  BY <1>2, <1>5 DEF Result

(* A name that goes on from ROOT begins with ROOT.                         *)
(* A category of the market has the names, or will be created.             *)
LEMMA EnsureResult ==
  ASSUME NEW a, NEW cur, NEW S, NEW m, Ready(a, cur, S, m), FindOrCreate(a), Moves,
         NEW s, NEW rest, NEW found, Doing(a, s, rest, found)
  PROVE  Result(a, cur, S, m)
<1>1. /\ s \in S /\ s \in Step /\ rest \in Seq(S) /\ rest \in Seq(Step)
      /\ FirstStep(cur, s, found, m) /\ Follows(PathOf(s), rest, m)
      /\ found \in Seq(Given) /\ Len(found) = Len(cur) /\ TypeOK
  BY ReadyFacts DEF Doing
<1>2. /\ cur \in Seq(Named) /\ Tree /\ Line(cur, found, m) /\ Seeds \subseteq S
      /\ WorkType /\ a \in Actor
  BY DEF Ready, Doing
<1>3. categories' = categories /\ last' = last /\ edited' = edited
  BY DEF FindOrCreate, Threw
<1>4. Changes /\ Kept /\ Grown
  BY <1>2, <1>3, Unchanged
<1>5. s.op = "ensure" /\ s.path \in Path
  BY <1>1, StepTypes DEF FindOrCreate, Running, Doing
<1>6. s.market = m /\ GoesOnFrom(cur, s.path) /\ m \in Market /\ m # NoMarket
  BY <1>1, <1>5, StepTypes, CategoriesAssumption DEF FirstStep, NextStep, NoMarket
<1>7. PICK c : c = FindOneByKeyAndMarket(KeyOf(s.path), m)
  OBVIOUS
<1>8. \/ c # None /\ Found(a, s.path, c)
      \/ c = None /\ Len(s.path) = 1 /\ Threw(a)
      \/ c = None /\ Len(s.path) > 1 /\ Goes(a, <<Insert(s.path, Row(a, s.path, m))>>)
  BY <1>6, <1>7 DEF FindOrCreate, Doing
<1>9. /\ c # None => c \in DOMAIN categories /\ At(c, s.path, m)
      /\ c = None => \A d \in DOMAIN categories : ~ At(d, s.path, m)
  BY <1>1, <1>6, <1>7, FindFacts DEF At, Exists
<1>10. CASE c # None /\ Found(a, s.path, c)
  <2>1. Sure(a, cur, m) => s.path[1] = RootName
    BY <1>5 DEF Sure, Doing
  <2>2. c \in 1 .. last'
    BY <1>1, <1>3, <1>9, <1>10, RowTypes DEF Given
  <2>3. categories'[c].key = KeyOf(s.path) /\ categories'[c].market = m
    BY <1>3, <1>9, <1>10 DEF At
  <2>4. At(c, s.path, m)'
    <3>1. Exists(c)'
      BY <1>3, <1>9, <1>10 DEF At, Exists
    <3> QED
      BY <2>3, <3>1 DEF At
  <2>5. PICK path : path = s.path
    OBVIOUS
  <2>6. path \in Path /\ path = PathOf(s) /\ GoesOnFrom(cur, path) /\ Found(a, path, c)
    BY <1>5, <1>6, <1>10, <2>5 DEF PathOf
  <2>7. At(c, path, m)'
    BY <2>4, <2>5
  <2>8. categories'[c].key = KeyOf(path) /\ categories'[c].market = m
    BY <2>3, <2>5
  <2>9. Advanced(a, cur, S, m) /\ fate' = fate
    BY <1>4, <2>1, <2>2, <2>5, <2>6, <2>7, <2>8, FoundAdvanced
  <2> QED
    BY <1>4, <2>9 DEF Result
<1>11. CASE c = None /\ Len(s.path) = 1 /\ Threw(a)
  <2>1. work'[a] = Nothing
    BY <1>2, <1>11 DEF Threw, WorkType
  <2>2. Advanced(a, cur, S, m)
    BY <2>1, NothingAdvanced
  <2>3. ASSUME Sure(a, cur, m) PROVE FALSE
    <3>1. work[a].steps # <<>>
      BY DEF Ready, Idle
    <3>2. s.path[1] = RootName
      BY <1>5, <2>3 DEF Sure, Doing
    <3>3. s.path = ROOT
      BY <1>5, <1>11, <3>2, RootPath
    <3>4. CASE cur = <<>>
      BY <1>5, <1>9, <1>11, <2>3, <3>1, <3>3, <3>4 DEF Sure, Firm, Doing
    <3>5. CASE cur # <<>>
      <4>1. 1 \in 1 .. Len(found)
        BY <1>1, <1>2, <3>5, EmptySeq
      <4>2. 1 \in DOMAIN found
        BY <1>1, <4>1, LenProperties
      <4>3. At(found[1], SubSeq(cur, 1, 1), m)
        BY <2>3, <4>2 DEF Sure, Firm, Doing
      <4>4. SubSeq(cur, 1, 1) = ROOT
        <5>1. 1 \in 0 .. Len(cur) /\ 1 \in 1 .. 1
          BY <1>1, <4>1
        <5>2. SubSeq(cur, 1, 1) \in Seq(Named) /\ Len(SubSeq(cur, 1, 1)) = 1 /\ SubSeq(cur, 1, 1)[1] = cur[1]
          BY <1>2, <5>1, Cut
        <5>3. cur[1] = RootName
          BY <2>3, <3>5 DEF Sure, Firm
        <5> DEFINE q == SubSeq(cur, 1, 1)
        <5> HIDE DEF q
        <5>4. q \in Seq(Named) /\ Len(q) = 1 /\ q[1] = RootName
          BY <5>2, <5>3 DEF q
        <5>5. q \in Path
          <6>1. q # <<>>
            BY <5>4
          <6> QED
            BY <5>4, <6>1 DEF Path
        <5>6. q = ROOT
          BY <5>4, <5>5, RootPath
        <5> QED
          BY <5>6 DEF q
      <4> QED
        BY <1>9, <1>11, <3>3, <4>3, <4>4 DEF At, Exists
    <3> QED
      BY <3>4, <3>5
  <2> QED
    BY <1>4, <2>2, <2>3 DEF Result
<1>12. CASE c = None /\ Len(s.path) > 1 /\ Goes(a, <<Insert(s.path, Row(a, s.path, m))>>)
  <2>1. Len(s.path) # 1
    <3>1. \A n : n > 1 => n # 1
      OBVIOUS
    <3> QED
      BY <1>12, <3>1
  <2>2. PICK row : row = RowOf(s.path, found, m)
    OBVIOUS
  <2>3. row \in Category
    BY <1>1, <1>2, <1>5, <1>6, <2>1, <2>2, NextRow
  <2>4. PICK x : x = Insert(s.path, row)
    OBVIOUS
  <2>5. x.op = "insert" /\ x.path = s.path /\ x.row = row /\ x \in Step /\ x \in Seeds /\ PathOf(x) = PathOf(s)
    BY <1>5, <2>3, <2>4 DEF Insert, Step, Seeds, PathOf
  <2>6. FirstStep(cur, x, found, m)
    BY <1>6, <2>1, <2>2, <2>5 DEF FirstStep
  <2>7. GoesOn(a, <<x>> \o rest, found)
    BY <1>12, <2>2, <2>4 DEF Goes, Doing, Row, RowOf, NewRow, Parent
  <2>8. Advanced(a, cur, S, m) /\ fate' = fate
    BY <1>1, <1>2, <1>3, <1>4, <1>9, <1>12, <2>5, <2>6, <2>7, MoreAdvanced
  <2> QED
    BY <1>4, <2>8 DEF Result
<1> QED
  BY <1>8, <1>10, <1>11, <1>12

(* Every step of a thread but that which makes the listing's row.          *)
LEMMA ThreadResult ==
  ASSUME NEW a, NEW cur, NEW S, NEW m, Ready(a, cur, S, m), Proceed(a),
         Head(work[a].steps).op # "list"
  PROVE  Result(a, cur, S, m)
<1>1. PICK s, rest, found : Doing(a, s, rest, found)
  BY DEF Doing
<1>2. FirstStep(cur, s, found, m)
  BY <1>1, ReadyFacts DEF Doing
<1>3. s.op \in {"upsert", "ensure", "send", "root", "insert", "update"}
  BY <1>1, <1>2 DEF FirstStep, NextStep, Doing
<1>4. Moves
  BY DEF Proceed, Moves
<1>5. \/ InsertOrUpdate(a) \/ UpdateRow(a) \/ InsertRow(a) \/ LookForRoot(a) \/ FindOrCreate(a)
      \/ SendListing(a)
  <2>1. /\ ~ EditRow(a) /\ ~ RemoveRow(a) /\ ~ FileTemplate(a) /\ ~ CreateListing(a)
        /\ ~ CreateInformation(a)
    BY <1>1, <1>3 DEF EditRow, RemoveRow, FileTemplate, CreateListing, CreateInformation, Running, Doing
  <2> QED
    BY <2>1 DEF Proceed
<1>6. InsertOrUpdate(a) => Result(a, cur, S, m)
  BY <1>1, <1>4, UpsertResult
<1>7. UpdateRow(a) => Result(a, cur, S, m)
  BY <1>1, <1>4, UpdateResult
<1>8. InsertRow(a) => Result(a, cur, S, m)
  BY <1>1, <1>4, InsertResult
<1>9. LookForRoot(a) => Result(a, cur, S, m)
  BY <1>1, <1>4, RootResult
<1>10. FindOrCreate(a) => Result(a, cur, S, m)
  BY <1>1, <1>4, EnsureResult
<1>11. SendListing(a) => Result(a, cur, S, m)
  BY <1>1, <1>4, SendResult
<1> QED
  BY <1>5, <1>6, <1>7, <1>8, <1>9, <1>10, <1>11

(* A program that goes on with nothing is done.                            *)
LEMMA GoesOut ==
  ASSUME WorkType, NEW a \in Actor, Len(work[a].steps) = 1, Goes(a, <<>>)
  PROVE  work'[a] = Nothing
<1>1. work[a].steps \in Seq(Step) /\ work[a].steps # <<>>
  <2>1. work[a].steps \in Seq(Step)
    BY DEF WorkType
  <2>2. Len(<<>>) = 0
    OBVIOUS
  <2>3. 1 # 0
    OBVIOUS
  <2> QED
    BY <2>1, <2>2, <2>3, ZenonT(60)
<1>2. Tail(work[a].steps) \in Seq(Step) /\ Len(Tail(work[a].steps)) = 0
  BY <1>1, HeadTailProperties
<1>3. Tail(work[a].steps) = <<>>
  BY <1>2, EmptySeq
<1>4. <<>> \o Tail(work[a].steps) = <<>>
  BY <1>3
<1> QED
  BY <1>4 DEF Goes, GoesOn, WorkType

(* A program that throws is done, too.                                     *)
LEMMA ThrewOut ==
  ASSUME WorkType, NEW a \in Actor, Threw(a)
  PROVE  work'[a] = Nothing
BY DEF Threw, WorkType

(* The commands of one step.                                               *)
LEMMA SingleResult ==
  ASSUME Tree, WorkType, NEW a \in Actor, Len(work[a].steps) = 1,
         NEW s \in Step, s = Head(work[a].steps), Single(s), Proceed(a)
  PROVE  Changes /\ work'[a] = Nothing
<1>1. Moves /\ TypeOK
  BY DEF Proceed, Moves, Tree
<1>2. s.op \in {"insert", "edit", "remove", "file"}
  BY DEF Single
<1>3. InsertRow(a) \/ EditRow(a) \/ RemoveRow(a) \/ FileTemplate(a)
  <2>1. /\ ~ InsertOrUpdate(a) /\ ~ UpdateRow(a) /\ ~ LookForRoot(a) /\ ~ FindOrCreate(a)
        /\ ~ SendListing(a) /\ ~ CreateListing(a) /\ ~ CreateInformation(a)
    BY <1>2 DEF InsertOrUpdate, UpdateRow, LookForRoot, FindOrCreate, SendListing, CreateListing,
                CreateInformation, Running
  <2> QED
    BY <2>1 DEF Proceed
<1>4. ASSUME Threw(a) PROVE Changes /\ work'[a] = Nothing
  <2>1. categories' = categories /\ last' = last /\ edited' = edited
    BY <1>4 DEF Threw
  <2> QED
    BY <1>1, <1>4, <2>1, Unchanged, ThrewOut
<1>5. CASE InsertRow(a)
  <2>1. s.op = "insert" /\ s.path \in Path /\ s.row \in Category
    BY <1>5, StepTypes DEF InsertRow, Running
  <2>2. /\ Len(s.row.key) > 1 /\ s.row.parent \in Given
        /\ Steady(s.row.parent) => FitsBelow(s.row, s.row.parent)
    BY <2>1 DEF Single
  <2>3. CASE ~ Admits(None, s.row) /\ Threw(a)
    BY <1>4, <2>3
  <2>4. CASE /\ Admits(None, s.row) /\ last < MaxCategories /\ last' = last + 1
             /\ Put(last + 1, s.row) /\ Found(a, s.path, last + 1) /\ edited' = edited
    <3>1. last \in Nat /\ MaxCategories \in Nat
      BY <1>1, CategoriesAssumption DEF TypeOK
    <3>2. last + 1 \in Id
      BY <2>4, <3>1 DEF Id
    <3>3. Len(s.row.key) # 1 /\ s.row.parent # None
      <4>2. \A n : n > 1 => n # 1
        OBVIOUS
      <4>3. Len(s.row.key) # 1
        BY <2>2, <4>2
      <4> QED
        BY <2>2, <3>1, <4>3 DEF Given, None
    <3>4. Inserted(s.row)
      BY <2>1, <2>2, <2>4, <3>2, <3>3 DEF Inserted, Sound
    <3>5. Tail(work[a].steps) = <<>>
      <4>1. work[a].steps \in Seq(Step) /\ work[a].steps # <<>>
        BY DEF WorkType
      <4>2. Tail(work[a].steps) \in Seq(Step) /\ Len(Tail(work[a].steps)) = 0
        BY <4>1, HeadTailProperties
      <4> QED
        BY <4>2, EmptySeq
    <3>6. work'[a] = Nothing
      BY <2>4, <3>5 DEF Found, GoesOn, WorkType
    <3> QED
      BY <2>1, <3>4, <3>6 DEF Changes
  <2> QED
    BY <1>5, <2>3, <2>4 DEF InsertRow
<1>6. CASE EditRow(a)
  <2>1. s.op = "edit" /\ s.id \in Id /\ s.parent \in Id /\ s.path \in Path
    BY <1>6, StepTypes DEF EditRow, Running
  <2>2. s.id \in Given /\ s.parent \in Given /\ Len(s.path) > 1
    BY <2>1 DEF Single
  <2>3. PICK row : row = NewRow(s.path, categories[s.id].market, s.parent)
    OBVIOUS
  <2>4. \/ Threw(a)
        \/ /\ Exists(s.id) /\ Admits(s.id, row) /\ Put(s.id, row) /\ Goes(a, <<>>)
           /\ edited' = edited \cup {s.id} /\ last' = last
    BY <1>6, <2>3 DEF EditRow
  <2>5. CASE /\ Exists(s.id) /\ Admits(s.id, row) /\ Put(s.id, row) /\ Goes(a, <<>>)
             /\ edited' = edited \cup {s.id} /\ last' = last
    <3>1. s.id \in DOMAIN categories /\ categories[s.id] \in Category
      BY <1>1, <2>5 DEF TypeOK, Exists
    <3>2. row \in Category /\ row.key = KeyOf(s.path) /\ row.parent = s.parent /\ row.market = categories[s.id].market
      BY <2>1, <2>3, <3>1, PathSeq, KeyNamed DEF Category, NewRow
    <3>3. row.parent # None /\ Len(row.key) # 1
      <4>1. \A n : n > 1 => n # 1
        OBVIOUS
      <4>2. Len(s.path) # 1
        BY <2>2, <4>1
      <4>3. Len(row.key) # 1
        BY <2>1, <3>2, <4>1, <4>2, KeyCut
      <4> QED
        BY <2>1, <3>2, <4>3 DEF Id, None
    <3>4. Replaced(s.id, row)
      BY <2>5, <3>1, <3>2, <3>3 DEF Replaced, Sound
    <3>5. Changes
      BY <3>1, <3>2, <3>4 DEF Changes
    <3> QED
      BY <2>5, <3>5, GoesOut
  <2> QED
    BY <1>4, <2>4, <2>5
<1>7. CASE RemoveRow(a)
  <2>1. PICK gone : gone = Below(categories, {s.id})
    OBVIOUS
  <2>2. \/ Threw(a)
        \/ /\ Exists(s.id) /\ ~ Refers(gone) /\ Goes(a, <<>>) /\ last' = last /\ edited' = edited
           /\ categories' = [d \in DOMAIN categories \ gone |-> categories[d]]
    BY <1>7, <2>1 DEF RemoveRow
  <2>3. gone \subseteq DOMAIN categories /\ Children(categories, gone) \subseteq gone
    BY <2>1, BelowFacts
  <2>4. CASE /\ Exists(s.id) /\ ~ Refers(gone) /\ Goes(a, <<>>) /\ last' = last /\ edited' = edited
             /\ categories' = [d \in DOMAIN categories \ gone |-> categories[d]]
    <3>1. Removed(gone)
      BY <2>3, <2>4 DEF Removed
    <3>2. Changes
      BY <2>3, <3>1 DEF Changes
    <3> QED
      BY <2>4, <3>2, GoesOut
  <2> QED
    BY <1>4, <2>2, <2>4
<1>8. CASE FileTemplate(a)
  <2>1. Threw(a) \/ (Goes(a, <<>>) /\ categories' = categories /\ last' = last /\ edited' = edited)
    BY <1>8 DEF FileTemplate
  <2>2. CASE Goes(a, <<>>) /\ categories' = categories /\ last' = last /\ edited' = edited
    BY <1>1, <2>2, Unchanged, GoesOut
  <2> QED
    BY <1>4, <2>1, <2>2
<1> QED
  BY <1>3, <1>5, <1>6, <1>7, <1>8

(* What a step changes of the programs: its own.                           *)
LEMMA WorkShape ==
  ASSUME WorkType, NEW a \in Actor, Proceed(a)
  PROVE  /\ work' = [work EXCEPT ![a] = work'[a]]
         /\ \/ work'[a] = Nothing
            \/ /\ work'[a] = [work[a] EXCEPT !.steps = work'[a].steps, !.found = work'[a].found]
               /\ work'[a].listing = work[a].listing
         /\ \A b \in Actor \ {a} : work'[b] = work[b]
<1> DEFINE Shape(v) == v = Nothing \/ \E st, f : v = [work[a] EXCEPT !.steps = st, !.found = f]
<1>1. ASSUME NEW v, work' = [work EXCEPT ![a] = v], Shape(v)
      PROVE  /\ work' = [work EXCEPT ![a] = work'[a]]
             /\ \/ work'[a] = Nothing
                \/ /\ work'[a] = [work[a] EXCEPT !.steps = work'[a].steps, !.found = work'[a].found]
                   /\ work'[a].listing = work[a].listing
             /\ \A b \in Actor \ {a} : work'[b] = work[b]
  <2>1. work'[a] = v
    BY <1>1 DEF WorkType
  <2>2. \A b \in Actor \ {a} : work'[b] = work[b]
    BY <1>1 DEF WorkType
  <2>3. work[a] \in [steps : Seq(Step), found : Seq(Id), listing : Nat]
    BY DEF WorkType
  <2>4. v = Nothing \/ /\ v = [work[a] EXCEPT !.steps = v.steps, !.found = v.found]
                       /\ v.listing = work[a].listing
    BY <1>1, <2>3
  <2> QED
    BY <1>1, <2>1, <2>2, <2>4
<1>2. \E v : work' = [work EXCEPT ![a] = v] /\ Shape(v)
  <2>1. ASSUME Threw(a)
        PROVE  \E v : work' = [work EXCEPT ![a] = v] /\ Shape(v)
    BY <2>1 DEF Threw
  <2>2. ASSUME NEW steps, NEW found, GoesOn(a, steps, found)
        PROVE  \E v : work' = [work EXCEPT ![a] = v] /\ Shape(v)
    <3>1. work' = [work EXCEPT ![a] = IF steps = <<>> THEN Nothing
                                      ELSE [work[a] EXCEPT !.steps = steps, !.found = found]]
      BY <2>2 DEF GoesOn, WorkType
    <3> QED
      BY <3>1
  <2>3. ASSUME NEW steps, Goes(a, steps)
        PROVE  \E v : work' = [work EXCEPT ![a] = v] /\ Shape(v)
    BY <2>2, <2>3 DEF Goes
  <2>4. ASSUME NEW path, NEW c, Found(a, path, c)
        PROVE  \E v : work' = [work EXCEPT ![a] = v] /\ Shape(v)
    BY <2>2, <2>4 DEF Found
  <2> HIDE DEF Shape
  <2>5. CASE InsertOrUpdate(a) \/ LookForRoot(a) \/ SendListing(a)
    BY <2>3, <2>5 DEF InsertOrUpdate, LookForRoot, SendListing
  <2>6. CASE UpdateRow(a)
    BY <2>3, <2>4, <2>6 DEF UpdateRow
  <2>7. CASE InsertRow(a)
    BY <2>1, <2>4, <2>7 DEF InsertRow
  <2>8. CASE FindOrCreate(a)
    BY <2>1, <2>3, <2>4, <2>8 DEF FindOrCreate
  <2>9. CASE EditRow(a) \/ RemoveRow(a) \/ FileTemplate(a) \/ CreateListing(a)
    BY <2>1, <2>3, <2>9 DEF EditRow, RemoveRow, FileTemplate, CreateListing
  <2>10. CASE CreateInformation(a)
    <3>1. Threw(a) \/ work' = [work EXCEPT ![a] = Nothing]
      BY <2>10 DEF CreateInformation
    <3> QED
      BY <2>1, <3>1 DEF Shape
  <2> QED
    BY <2>5, <2>6, <2>7, <2>8, <2>9, <2>10 DEF Proceed
<1> QED
  BY <1>1, <1>2

-----------------------------------------------------------------------------
(* The programs of all actors.                                             *)

(* While another actor takes a step: the boot goes on seeding ...          *)
LEMMA SeedingKept ==
  ASSUME Kept, NEW w, Seeding(w)
  PROVE  Seeding(w)'
<1>1. PICK cur \in Seq(Named) : Line(cur, w.found, NoMarket) /\ Thread(cur, w.steps, w.found, NoMarket)
  BY DEF Seeding
<1>2. Line(cur, w.found, NoMarket)' /\ Thread(cur, w.steps, w.found, NoMarket)'
  <2>1. PICK f, st : f = w.found /\ st = w.steps
    OBVIOUS
  <2>2. Line(cur, f, NoMarket)' /\ Thread(cur, st, f, NoMarket)'
    BY <1>1, <2>1, LineKept, ThreadKept
  <2> QED
    BY <2>1, <2>2
<1> QED
  BY <1>2 DEF Seeding

(* ... the client goes on with its command ...                             *)
LEMMA CommandingKept ==
  ASSUME Kept, joined \subseteq joined', NEW w, Commanding(w)
  PROVE  Commanding(w)'
<1>1. PICK f, st, h : f = w.found /\ st = w.steps /\ h = Head(w.steps)
  OBVIOUS
<1>2. CASE Len(w.steps) = 1 /\ Single(Head(w.steps))
  <2>1. Single(h)'
    BY <1>1, <1>2, SingleKept
  <2> QED
    BY <1>1, <1>2, <2>1 DEF Commanding
<1>3. CASE /\ w.steps \in Seq(Posts)
           /\ \E cur \in Seq(Named), m \in joined : Line(cur, w.found, m) /\ Thread(cur, w.steps, w.found, m)
  <2>1. PICK cur \in Seq(Named), m \in joined : Line(cur, f, m) /\ Thread(cur, st, f, m)
    BY <1>1, <1>3
  <2>2. Line(cur, f, m)' /\ Thread(cur, st, f, m)' /\ m \in joined'
    BY <2>1, LineKept, ThreadKept
  <2>3. Posts' = Posts
    OBVIOUS
  <2> QED
    BY <1>1, <1>3, <2>2, <2>3 DEF Commanding
<1> QED
  BY <1>2, <1>3 DEF Commanding

(* What has been found is sure as long as nobody changes it.               *)
LEMMA FirmSame ==
  ASSUME categories' = categories, NEW cur, NEW steps, NEW found, NEW m, Firm(cur, steps, found, m)
  PROVE  Firm(cur, steps, found, m)'
BY DEF Firm, At, Exists

(* ... and the received listing with its names, sure only if not shaken.   *)
LEMMA FilingKept ==
  ASSUME Kept, NEW w, Filing(w), sent'[w.listing] = sent[w.listing],
         w.listing \notin shaken' =>
           /\ w.listing \notin shaken /\ categories' = categories
           /\ w.listing \in DOMAIN listings => w.listing \in DOMAIN listings'
  PROVE  Filing(w)'
<1>1. PICK f, st, n, c, m, path : /\ f = w.found /\ st = w.steps /\ n = w.listing
                                  /\ c = Head(w.steps).category
                                  /\ m = sent[n].market /\ path = sent[n].path
  OBVIOUS
<1>2. m = sent'[n].market /\ path = sent'[n].path
  BY <1>1
<1>5. Calm(n)' => Calm(n) /\ categories' = categories /\ (n \in DOMAIN listings => n \in DOMAIN listings')
  BY <1>1 DEF Calm
<1>3. CASE /\ w.steps \in Seq(Files(path))
           /\ \E cur \in Seq(Named) :
                /\ Line(cur, w.found, m) /\ Thread(cur, w.steps, w.found, m)
                /\ Calm(n) => Firm(cur, w.steps, w.found, m)
  <2>1. PICK cur \in Seq(Named) :
          /\ Line(cur, f, m) /\ Thread(cur, st, f, m)
          /\ Calm(n) => Firm(cur, st, f, m)
    BY <1>1, <1>3
  <2>2. Line(cur, f, m)' /\ Thread(cur, st, f, m)'
    BY <2>1, LineKept, ThreadKept
  <2>3. Calm(n)' => Firm(cur, st, f, m)'
    BY <1>1, <1>5, <2>1, FirmSame
  <2>4. Files(path)' = Files(path)
    BY DEF Files
  <2>5. st \in Seq(Files(path))
    BY <1>1, <1>3
  <2> QED
    BY <1>1, <1>2, <2>2, <2>3, <2>4, <2>5 DEF Filing
<1>4. CASE /\ Head(w.steps).op = "inform" /\ c \in Given
           /\ Steady(c) => At(c, path, m)
           /\ Calm(n) => Exists(c) /\ n \in DOMAIN listings
  <2>1. c \in 1 .. last'
    BY <1>4 DEF Kept, Given
  <2>2. Steady(c)' => At(c, path, m)'
    <3> SUFFICES ASSUME Steady(c)' PROVE At(c, path, m)'
      OBVIOUS
    <3>1. Steady(c) /\ categories'[c].key = categories[c].key /\ categories'[c].market = categories[c].market
      BY <1>4 DEF Kept
    <3>2. c \in DOMAIN categories'
      BY DEF Steady
    <3> QED
      BY <1>4, <3>1, <3>2 DEF At, Exists
  <2>3. Calm(n)' => Exists(c)' /\ n \in DOMAIN listings'
    BY <1>1, <1>4, <1>5 DEF Exists
  <2> QED
    BY <1>1, <1>2, <1>4, <2>1, <2>2, <2>3 DEF Filing, Given
<1> QED
  BY <1>1, <1>3, <1>4 DEF Filing

(* What the invariant says of the actors' programs.                        *)
LEMMA IInvFacts ==
  ASSUME IInv
  PROVE  /\ Tree /\ TypeOK /\ WorkType /\ joined \subseteq Market
         /\ sent \in Seq([market : Market, path : Path, template : Nat])
         /\ DOMAIN sent = 1 .. Len(sent) /\ Len(sent) \in Nat
         /\ \A n \in DOMAIN sent :
              /\ sent[n].market \in joined /\ sent[n].market \in Market
              /\ sent[n].path \in Path /\ n \in Nat
<1>1. Tree /\ TypeOK /\ WorkType /\ joined \subseteq Market
  BY DEF IInv, Tree, Programs, WorkType, TypeOK
<1>2. /\ sent \in Seq([market : Market, path : Path, template : Nat])
      /\ DOMAIN sent = 1 .. Len(sent) /\ Len(sent) \in Nat
  BY LenProperties DEF IInv, SentRows
<1>3. ASSUME NEW n \in DOMAIN sent
      PROVE  /\ sent[n].market \in joined /\ sent[n].market \in Market
             /\ sent[n].path \in Path /\ n \in Nat
  <2>1. sent[n] \in [market : Market, path : Path, template : Nat]
    BY <1>2, <1>3, ElementOfSeq
  <2> QED
    BY <1>1, <1>2, <2>1 DEF TypeOK
<1> QED
  BY <1>1, <1>2, <1>3

(* What an actor is at, as it takes a step.                                *)
LEMMA ProceedNotIdle ==
  ASSUME NEW a, Proceed(a)
  PROVE  ~ Idle(a) /\ Moves
<1>1. ~ Idle(a)
  BY DEF Proceed, InsertOrUpdate, UpdateRow, InsertRow, LookForRoot, FindOrCreate, EditRow, RemoveRow,
         FileTemplate, SendListing, CreateListing, CreateInformation, Running
<1> QED
  BY <1>1 DEF Proceed, Moves

(* The steps of the boot are steps that a client may take ...              *)
LEMMA SeedsInStep == Seeds \subseteq Step /\ Seeds \subseteq Posts /\ Posts \subseteq Step
BY DEF Seeds, Posts

(* ... and that a received listing may take.                               *)
LEMMA SeedsInFiles ==
  ASSUME NEW path
  PROVE  Seeds \subseteq Files(path) /\ Files(path) \subseteq Step
BY DEF Seeds, Files

Made(w) == w.steps \in Seq(Step) /\ w.found \in Seq(Given)

(* The types of what a step leaves of its program.                         *)
LEMMA NothingMade == Nothing.steps = <<>> /\ Made(Nothing)'
BY DEF Nothing, Made

(* They hold of a thread that has advanced.                                *)
LEMMA AdvancedMade ==
  ASSUME NEW S, S \subseteq Step, NEW steps \in Seq(S), NEW cur, NEW found, NEW m, Line(cur, found, m)',
         NEW w, w.steps = steps, w.found = found
  PROVE  Made(w)'
<1>1. steps \in Seq(Step)
  OBVIOUS
<1>2. found \in Seq(Given)'
  BY DEF Line
<1> QED
  BY <1>1, <1>2 DEF Made

(* The boot seeds.                                                         *)
LEMMA BootResult ==
  ASSUME IInv, Proceed("boot"), NEW w, w = work'["boot"]
  PROVE  Changes /\ Seeding(w)' /\ Made(w)'
<1>1. PICK cur \in Seq(Named) :
        Line(cur, work["boot"].found, NoMarket) /\ Thread(cur, work["boot"].steps, work["boot"].found, NoMarket)
  BY DEF IInv, Programs, Seeding
<1>2. Ready("boot", cur, Seeds, NoMarket)
  BY <1>1, IInvFacts, ProceedNotIdle, SeedsInStep DEF Ready, IInv, Programs, Seeding, Actor
<1>3. Head(work["boot"].steps) \in Seeds
  BY <1>2, ReadyFacts
<1>4. Result("boot", cur, Seeds, NoMarket)
  BY <1>2, <1>3, ThreadResult DEF Seeds
<1>5. PICK cur2, steps2, found2 :
        /\ cur2 \in Seq(Named) /\ steps2 \in Seq(Seeds)
        /\ work'["boot"].steps = steps2 /\ work'["boot"].found = found2
        /\ Line(cur2, found2, NoMarket)' /\ Thread(cur2, steps2, found2, NoMarket)'
  BY <1>4 DEF Result, Advanced
<1>6. w.steps = steps2 /\ w.found = found2
  BY <1>5
<1>7. Made(w)'
  BY <1>5, <1>6, SeedsInStep, AdvancedMade
<1> QED
  BY <1>4, <1>5, <1>6, <1>7 DEF Result, Seeding

(* The client posts or takes a single step.                                *)
LEMMA ClientResult ==
  ASSUME IInv, Proceed("client"), NEW w, w = work'["client"]
  PROVE  Changes /\ (w.steps # <<>> => Commanding(w)') /\ Made(w)'
<1>1. "client" \in Actor /\ ~ Idle("client") /\ Commanding(work["client"])
  BY ProceedNotIdle DEF IInv, Programs, Actor
<1>2. CASE Len(work["client"].steps) = 1 /\ Single(Head(work["client"].steps))
  <2>1. PICK s : s = Head(work["client"].steps)
    OBVIOUS
  <2>2. s \in Step
    <3>1. work["client"].steps \in Seq(Step) /\ work["client"].steps # <<>>
      BY <1>1, IInvFacts DEF WorkType, Idle
    <3> QED
      BY <2>1, <3>1, HeadTailProperties
  <2>3. Changes /\ work'["client"] = Nothing
    BY <1>1, <1>2, <2>1, <2>2, IInvFacts, SingleResult
  <2>4. w = Nothing
    BY <2>3
  <2>5. Made(w)'
    BY <2>4, NothingMade
  <2> QED
    BY <2>3, <2>4, <2>5, NothingMade
<1>3. CASE /\ work["client"].steps \in Seq(Posts)
           /\ \E cur \in Seq(Named), m \in joined :
                Line(cur, work["client"].found, m) /\ Thread(cur, work["client"].steps, work["client"].found, m)
  <2>1. PICK cur \in Seq(Named), m \in joined :
          Line(cur, work["client"].found, m) /\ Thread(cur, work["client"].steps, work["client"].found, m)
    BY <1>3
  <2>2. Ready("client", cur, Posts, m)
    BY <1>1, <1>3, <2>1, IInvFacts, SeedsInStep DEF Ready
  <2>3. Head(work["client"].steps) \in Posts
    BY <2>2, ReadyFacts
  <2>4. Result("client", cur, Posts, m)
    BY <2>2, <2>3, ThreadResult DEF Posts
  <2>5. PICK cur2, steps2, found2 :
          /\ cur2 \in Seq(Named) /\ steps2 \in Seq(Posts)
          /\ work'["client"].steps = steps2 /\ work'["client"].found = found2
          /\ Line(cur2, found2, m)' /\ Thread(cur2, steps2, found2, m)'
    BY <2>4 DEF Result, Advanced
  <2>6. w.steps = steps2 /\ w.found = found2
    BY <2>5
  <2>7. m \in joined' /\ Posts' = Posts
    BY <2>1 DEF Proceed
  <2>8. Commanding(w)'
    BY <2>5, <2>6, <2>7 DEF Commanding
  <2>9. Made(w)'
    BY <2>5, <2>6, SeedsInStep, AdvancedMade
  <2> QED
    BY <2>4, <2>8, <2>9 DEF Result
<1> QED
  BY <1>1, <1>2, <1>3 DEF Commanding

(* The names a thread has found, down to the last, are there if it is sure. *)
LEMMA LastFound ==
  ASSUME NEW cur \in Seq(Named), cur # <<>>, NEW found \in Seq(Given), Len(found) = Len(cur), NEW m,
         \A k \in DOMAIN found : At(found[k], SubSeq(cur, 1, k), m)
  PROVE  \E c \in DOMAIN categories : At(c, cur, m)
<1>1. Len(cur) \in Nat \ {0}
  BY EmptySeq
<1>2. Len(cur) \in DOMAIN found
  BY <1>1, LenProperties
<1>3. SubSeq(cur, 1, Len(cur)) = cur
  BY SubSeqFull
<1> QED
  BY <1>2, <1>3 DEF At, Exists

NoNewFailure ==
  \A k \in DOMAIN fate' : fate'[k] = "failed" => k \in DOMAIN fate /\ fate[k] = "failed"

(* The listing's row is created, once its category is there.               *)
LEMMA ListResult ==
  ASSUME WorkType, NEW n \in Nat, NEW m \in Market, NEW path \in Path, NEW cur,
         n = work["inbox"].listing, m = sent[n].market, path = sent[n].path,
         Ready("inbox", cur, Files(path), m),
         Calm(n) => Firm(cur, work["inbox"].steps, work["inbox"].found, m),
         Head(work["inbox"].steps).op = "list", Proceed("inbox"),
         NEW w, w = work'["inbox"]
  PROVE  /\ Changes /\ Made(w)'
         /\ w.steps # <<>> => w.listing = n /\ Filing(w)'
         /\ Calm(n) => NoNewFailure
<1>1. PICK s, rest, found : Doing("inbox", s, rest, found)
  BY DEF Doing
<1>2. /\ s \in Files(path) /\ s \in Step /\ rest \in Seq(Step) /\ FirstStep(cur, s, found, m)
      /\ found \in Seq(Given) /\ Len(found) = Len(cur) /\ TypeOK
  BY <1>1, ReadyFacts DEF Doing
<1>3. s.op = "list" /\ s.path = cur /\ s.market = m /\ s.path = path /\ cur \in Seq(Named) /\ cur # <<>>
  BY <1>1, <1>2 DEF FirstStep, NextStep, Doing, Files, Ready, Path
<1>4. m # NoMarket
  BY CategoriesAssumption DEF NoMarket
<1>5. CreateListing("inbox")
  <2>1. /\ ~ InsertOrUpdate("inbox") /\ ~ UpdateRow("inbox") /\ ~ InsertRow("inbox") /\ ~ LookForRoot("inbox")
        /\ ~ FindOrCreate("inbox") /\ ~ EditRow("inbox") /\ ~ RemoveRow("inbox") /\ ~ FileTemplate("inbox")
        /\ ~ SendListing("inbox") /\ ~ CreateInformation("inbox")
    BY DEF InsertOrUpdate, UpdateRow, InsertRow, LookForRoot, FindOrCreate, EditRow, RemoveRow,
           FileTemplate, SendListing, CreateInformation, Running
  <2> QED
    BY <2>1 DEF Proceed
<1>6. categories' = categories /\ last' = last /\ edited' = edited /\ sent' = sent /\ shaken' = shaken
  BY <1>5 DEF CreateListing, Threw, Proceed
<1>7. Changes /\ Kept
  BY <1>6, ProceedNotIdle, Unchanged DEF Ready
<1>8. PICK c : c = FindOneByKeyAndMarket(KeyOf(path), m)
  OBVIOUS
<1>9. /\ c # None => c \in DOMAIN categories /\ At(c, path, m)
      /\ c = None => \A d \in DOMAIN categories : ~ At(d, path, m)
  BY <1>2, <1>4, <1>8, FindAt
<1>10. \/ c = None /\ Threw("inbox")
       \/ c # None /\ Goes("inbox", <<[op |-> "inform", category |-> c]>>) /\ ListingRow(n, None)
  BY <1>1, <1>3, <1>5, <1>8 DEF CreateListing, Doing
<1>11. CASE c = None /\ Threw("inbox")
  <2>0. w = Nothing
    BY <1>11, ThrewOut DEF Actor
  <2>1. w.steps = <<>> /\ Made(w)'
    BY <2>0, NothingMade
  <2>2. ~ Calm(n)
    <3> SUFFICES ASSUME Calm(n) PROVE FALSE
      OBVIOUS
    <3>1. \A k \in DOMAIN found : At(found[k], SubSeq(cur, 1, k), m)
      BY <1>1 DEF Firm, Doing
    <3>2. \E d \in DOMAIN categories : At(d, cur, m)
      BY <1>2, <1>3, <3>1, LastFound
    <3> QED
      BY <1>3, <1>9, <1>11, <3>2
  <2> QED
    BY <1>7, <2>1, <2>2
<1>12. CASE c # None /\ Goes("inbox", <<[op |-> "inform", category |-> c]>>) /\ ListingRow(n, None)
  <2>1. PICK x : x = [op |-> "inform", category |-> c]
    OBVIOUS
  <2>2. c \in Given /\ c \in Id
    BY <1>2, <1>9, <1>12, RowTypes
  <2>3. x \in Step
    BY <2>1, <2>2 DEF Step
  <2>4. PICK steps : steps = <<x>> \o rest
    OBVIOUS
  <2>5. steps # <<>> /\ Head(steps) = x
    BY <1>2, <2>3, <2>4, PutFirst
  <2>6. GoesOn("inbox", steps, found)
    BY <1>1, <1>12, <2>1, <2>4 DEF Goes, Doing
  <2>7. w.steps = steps /\ w.listing = n /\ fate' = fate /\ w.found = found
    BY <2>5, <2>6 DEF GoesOn, WorkType, Actor
  <2>14. Made(w)'
    <3>1. steps \in Seq(Step)
      BY <1>2, <2>3, <2>4, PutFirst
    <3>2. found \in Seq(Given)'
      BY <1>2, <1>6 DEF Given
    <3> QED
      BY <2>7, <3>1, <3>2 DEF Made
  <2>8. Head(w.steps).op = "inform" /\ Head(w.steps).category = c
    BY <2>1, <2>5, <2>7
  <2>9. n \in DOMAIN listings'
    BY <1>12 DEF ListingRow
  <2>10. At(c, path, m)' /\ Exists(c)'
    BY <1>6, <1>9, <1>12 DEF At, Exists
  <2>11. c \in 1 .. last'
    BY <1>6, <2>2 DEF Given
  <2>12. m = sent'[w.listing].market /\ path = sent'[w.listing].path
    BY <1>6, <2>7
  <2>13. Filing(w)'
    BY <2>7, <2>8, <2>9, <2>10, <2>11, <2>12 DEF Filing, Given
  <2> QED
    BY <1>7, <2>7, <2>13, <2>14 DEF NoNewFailure
<1> QED
  BY <1>10, <1>11, <1>12

(* The listing's information, too.                                         *)
LEMMA InformResult ==
  ASSUME IInv, NEW n \in Nat, n = work["inbox"].listing,
         Head(work["inbox"].steps).op = "inform", Proceed("inbox"),
         Calm(n) => Exists(Head(work["inbox"].steps).category) /\ n \in DOMAIN listings
  PROVE  /\ Changes /\ work'["inbox"] = Nothing
         /\ Calm(n) => NoNewFailure
<1>1. CreateInformation("inbox")
  <2>1. /\ ~ InsertOrUpdate("inbox") /\ ~ UpdateRow("inbox") /\ ~ InsertRow("inbox") /\ ~ LookForRoot("inbox")
        /\ ~ FindOrCreate("inbox") /\ ~ EditRow("inbox") /\ ~ RemoveRow("inbox") /\ ~ FileTemplate("inbox")
        /\ ~ SendListing("inbox") /\ ~ CreateListing("inbox")
    BY DEF InsertOrUpdate, UpdateRow, InsertRow, LookForRoot, FindOrCreate, EditRow, RemoveRow,
           FileTemplate, SendListing, CreateListing, Running
  <2> QED
    BY <2>1 DEF Proceed
<1>2. categories' = categories /\ last' = last /\ edited' = edited
  BY <1>1 DEF CreateInformation, Threw
<1>3. Changes
  BY <1>2, ProceedNotIdle, IInvFacts, Unchanged
<1>4. work'["inbox"] = Nothing
  BY <1>1, IInvFacts, ThrewOut DEF CreateInformation, WorkType, Actor
<1>5. Calm(n) => fate' = FateOf(n, "stored")
  BY <1>1 DEF CreateInformation
<1>6. fate' = FateOf(n, "stored") => NoNewFailure
  BY DEF FateOf, NoNewFailure
<1> QED
  BY <1>3, <1>4, <1>5, <1>6

(* A step for a received listing: a name, its row or its information.      *)
LEMMA InboxResult ==
  ASSUME IInv, Proceed("inbox"), NEW n, n = work["inbox"].listing, NEW w, w = work'["inbox"]
  PROVE  /\ Changes /\ Made(w)'
         /\ w.steps # <<>> => w.listing = n /\ Filing(w)'
         /\ Calm(n) => NoNewFailure
<1>1. /\ "inbox" \in Actor /\ ~ Idle("inbox") /\ n \in DOMAIN sent /\ Filing(work["inbox"])
      /\ WorkType /\ n \in Nat
  BY ProceedNotIdle, IInvFacts DEF IInv, Programs, Actor
<1>2. PICK m, path : m = sent[n].market /\ path = sent[n].path
  OBVIOUS
<1>3. m \in Market /\ path \in Path
  BY <1>1, <1>2, IInvFacts
<1>4. CASE /\ work["inbox"].steps \in Seq(Files(path))
           /\ \E cur \in Seq(Named) :
                /\ Line(cur, work["inbox"].found, m)
                /\ Thread(cur, work["inbox"].steps, work["inbox"].found, m)
                /\ Calm(n) => Firm(cur, work["inbox"].steps, work["inbox"].found, m)
  <2>1. PICK cur \in Seq(Named) :
          /\ Line(cur, work["inbox"].found, m)
          /\ Thread(cur, work["inbox"].steps, work["inbox"].found, m)
          /\ Calm(n) => Firm(cur, work["inbox"].steps, work["inbox"].found, m)
    BY <1>4
  <2>2. Ready("inbox", cur, Files(path), m)
    BY <1>1, <1>3, <1>4, <2>1, IInvFacts, SeedsInFiles DEF Ready
  <2>3. CASE Head(work["inbox"].steps).op = "list"
    BY <1>1, <1>2, <1>3, <2>1, <2>2, <2>3, ListResult
  <2>4. CASE Head(work["inbox"].steps).op # "list"
    <3>1. Result("inbox", cur, Files(path), m)
      BY <2>2, <2>4, ThreadResult
    <3>2. Head(work["inbox"].steps) \in Files(path)
      BY <2>2, ReadyFacts
    <3>3. Calm(n) => Sure("inbox", cur, m)
      BY <1>2, <1>3, <2>1, <3>2 DEF Sure, Files, Calm
    <3>4. PICK cur2, steps2, found2 :
            /\ cur2 \in Seq(Named) /\ steps2 \in Seq(Files(path))
            /\ work'["inbox"].steps = steps2 /\ work'["inbox"].found = found2
            /\ Line(cur2, found2, m)' /\ Thread(cur2, steps2, found2, m)'
            /\ Sure("inbox", cur, m) => Firm(cur2, steps2, found2, m)'
      BY <3>1 DEF Result, Advanced
    <3>5. w.steps = steps2 /\ w.found = found2
      BY <3>4
    <3>6. w.steps # <<>> => w.listing = n
      <4>1. work'["inbox"] = Nothing \/ work'["inbox"].listing = work["inbox"].listing
        BY <1>1, WorkShape
      <4>2. Nothing.steps = <<>>
        BY DEF Nothing
      <4> QED
        BY <4>1, <4>2
    <3>7. sent' = sent /\ shaken' = shaken
      <4>1. ~ SendListing("inbox")
        BY <3>2 DEF SendListing, Running, Files
      <4> QED
        BY <4>1 DEF Proceed, InsertOrUpdate, UpdateRow, InsertRow, LookForRoot, FindOrCreate, EditRow,
                    RemoveRow, FileTemplate, CreateListing, CreateInformation, Threw
    <3>8. w.listing = n => Filing(w)'
      <4> SUFFICES ASSUME w.listing = n PROVE Filing(w)'
        OBVIOUS
      <4>1. m = sent'[w.listing].market /\ path = sent'[w.listing].path
        BY <1>2, <3>7
      <4>2. Files(path)' = Files(path)
        BY DEF Files
      <4>3. Calm(w.listing)' => Firm(cur2, steps2, found2, m)'
        BY <3>3, <3>4, <3>7 DEF Calm
      <4> QED
        BY <3>4, <3>5, <4>1, <4>2, <4>3 DEF Filing
    <3>9. Calm(n) => NoNewFailure
      BY <3>1, <3>3 DEF Result, NoNewFailure
    <3>10. Made(w)'
      BY <3>4, <3>5, SeedsInFiles, AdvancedMade
    <3> QED
      BY <3>1, <3>6, <3>8, <3>9, <3>10 DEF Result
  <2> QED
    BY <2>3, <2>4
<1>5. CASE /\ Head(work["inbox"].steps).op = "inform"
           /\ Calm(n) => Exists(Head(work["inbox"].steps).category) /\ n \in DOMAIN listings
  <2>1. Changes /\ work'["inbox"] = Nothing /\ (Calm(n) => NoNewFailure)
    BY <1>1, <1>5, InformResult
  <2>2. w = Nothing
    BY <2>1
  <2>3. w.steps = <<>> /\ Made(w)'
    BY <2>2, NothingMade
  <2> QED
    BY <2>1, <2>3
<1> QED
  BY <1>1, <1>2, <1>4, <1>5 DEF Filing

-----------------------------------------------------------------------------
(* Every step of a program keeps the invariant.                            *)

(* Whoever takes it, a step changes the categories in one of the ways.     *)
LEMMA ProceedChanges ==
  ASSUME IInv, NEW a \in Actor, Proceed(a)
  PROVE  Changes /\ Moves /\ Kept /\ Rows' /\ MovedBelow' /\ Keyed'
<1>1. Changes
  <2>1. PICK w : w = work'[a]
    OBVIOUS
  <2>2. CASE a = "boot"
    BY <2>1, <2>2, BootResult
  <2>3. CASE a = "client"
    BY <2>1, <2>3, ClientResult
  <2>4. CASE a = "inbox"
    <3>1. PICK n : n = work["inbox"].listing
      OBVIOUS
    <3> QED
      BY <2>1, <2>4, <3>1, InboxResult
  <2> QED
    BY <2>2, <2>3, <2>4 DEF Actor
<1> QED
  BY <1>1, ProceedNotIdle, IInvFacts, ChangesKept, ChangesRows, ChangesKeyed, MovesFacts

(* Who lists and who sends.                                                *)
LEMMA OpsOf ==
  ASSUME IInv, NEW a \in Actor, ~ Idle(a), NEW s, s = Head(work[a].steps)
  PROVE  /\ s \in Step
         /\ s.op \in {"list", "inform"} => a = "inbox"
         /\ s.op = "send" => s.market \in joined /\ s.path \in Path
<1>1. WorkType /\ work[a].steps # <<>> /\ work[a].steps \in Seq(Step)
  BY IInvFacts DEF WorkType, Idle
<1>2. s \in Step
  BY <1>1, HeadTailProperties
<1>3. CASE a = "boot"
  <2>1. work["boot"].steps \in Seq(Seeds)
    BY DEF IInv, Programs, Seeding
  <2>2. s \in Seeds
    BY <1>1, <1>3, <2>1, HeadTailProperties
  <2> QED
    BY <1>2, <2>2 DEF Seeds
<1>4. CASE a = "client"
  <2>1. Commanding(work["client"])
    BY <1>4 DEF IInv, Programs
  <2>2. CASE Single(s)
    BY <1>2, <2>2 DEF Single
  <2>3. CASE /\ work["client"].steps \in Seq(Posts)
             /\ \E cur \in Seq(Named), m \in joined :
                  Line(cur, work["client"].found, m) /\ Thread(cur, work["client"].steps, work["client"].found, m)
    <3>1. s \in Posts
      BY <1>1, <1>4, <2>3, HeadTailProperties
    <3>2. PICK cur \in Seq(Named), m \in joined :
            Line(cur, work["client"].found, m) /\ Thread(cur, work["client"].steps, work["client"].found, m)
      BY <2>3
    <3>3. FirstStep(cur, s, work["client"].found, m)
      BY <1>1, <1>4, <3>2 DEF Thread
    <3>4. s.op # "list" /\ s.op # "inform"
      BY <3>1, <3>3 DEF Posts, FirstStep, NextStep
    <3>5. s.op = "send" => s.market \in joined /\ s.path \in Path
      <4> SUFFICES ASSUME s.op = "send" PROVE s.market \in joined /\ s.path \in Path
        OBVIOUS
      <4>1. s.market = m /\ s.path = cur
        BY <3>3 DEF FirstStep, NextStep
      <4>2. s.path \in Path
        BY <1>2, StepTypes
      <4> QED
        BY <4>1, <4>2
    <3> QED
      BY <1>2, <3>4, <3>5
  <2> QED
    BY <1>4, <2>1, <2>2, <2>3 DEF Commanding
<1>5. CASE a = "inbox"
  <2>1. Filing(work["inbox"])
    BY <1>5 DEF IInv, Programs
  <2>2. s.op # "send"
    <3>1. CASE s.op = "inform"
      BY <3>1
    <3>2. CASE s.op # "inform"
      <4>1. PICK path : work["inbox"].steps \in Seq(Files(path))
        BY <1>5, <2>1, <3>2 DEF Filing
      <4>2. s \in Files(path)
        BY <1>1, <1>5, <4>1, HeadTailProperties
      <4> QED
        BY <4>2 DEF Files
    <3> QED
      BY <3>1, <3>2
  <2> QED
    BY <1>2, <1>5, <2>2
<1> QED
  BY <1>3, <1>4, <1>5 DEF Actor

Posted2 == [market : Market, path : Path, template : Nat]
SentGrown ==
  \/ sent' = sent
  \/ \E x \in Posted2 : sent' = Append(sent, x) /\ x.market \in joined

(* Listings are added to those that were sent.                             *)
LEMMA SentGrownFacts ==
  ASSUME IInv, SentGrown, joined \subseteq joined'
  PROVE  /\ SentRows'
         /\ \A n \in DOMAIN sent : n \in DOMAIN sent' /\ sent'[n] = sent[n]
         /\ \A n \in DOMAIN sent' : sent'[n].market \in joined'
<1>1. sent \in Seq(Posted2) /\ DOMAIN sent = 1 .. Len(sent) /\ Len(sent) \in Nat
  BY IInvFacts DEF Posted2
<1>2. \A n \in DOMAIN sent : sent[n].market \in joined'
  BY IInvFacts
<1>3. CASE sent' = sent
  BY <1>1, <1>2, <1>3 DEF SentRows, Posted2
<1>4. ASSUME NEW x \in Posted2, sent' = Append(sent, x), x.market \in joined
      PROVE  /\ sent' \in Seq(Posted2)
             /\ \A n \in DOMAIN sent : n \in DOMAIN sent' /\ sent'[n] = sent[n]
             /\ \A n \in DOMAIN sent' : sent'[n].market \in joined'
  <2>1. /\ sent' \in Seq(Posted2) /\ Len(sent') = Len(sent) + 1
        /\ \A i \in 1 .. Len(sent) : sent'[i] = sent[i]
        /\ sent'[Len(sent) + 1] = x
    BY <1>1, <1>4, AppendProperties
  <2>2. DOMAIN sent' = 1 .. Len(sent) + 1
    BY <2>1, LenProperties
  <2>3. \A n \in 1 .. Len(sent) + 1 : n \in 1 .. Len(sent) \/ n = Len(sent) + 1
    BY <1>1
  <2>4. \A n \in 1 .. Len(sent) : n \in 1 .. Len(sent) + 1
    BY <1>1
  <2> QED
    BY <1>1, <1>2, <1>4, <2>1, <2>2, <2>3, <2>4
<1> QED
  BY <1>3, <1>4 DEF SentGrown, SentRows, Posted2

(* A listing goes out to a market that was joined.                         *)
LEMMA ProceedSent ==
  ASSUME IInv, NEW a \in Actor, Proceed(a)
  PROVE  SentGrown
<1>1. PICK s : s = Head(work[a].steps)
  OBVIOUS
<1>2. CASE SendListing(a)
  <2>1. s.op = "send"
    BY <1>1, <1>2 DEF SendListing, Running
  <2>2. s \in Step /\ s.market \in joined /\ s.path \in Path
    BY <1>1, <2>1, ProceedNotIdle, OpsOf
  <2>3. s.template \in Nat /\ s.market \in Market
    BY <2>1, <2>2, StepTypes
  <2>4. PICK x : x = [market |-> s.market, path |-> s.path, template |-> s.template]
    OBVIOUS
  <2>5. x \in Posted2 /\ x.market \in joined
    BY <2>2, <2>3, <2>4 DEF Posted2
  <2>6. sent' = Append(sent, x)
    BY <1>1, <1>2, <2>4 DEF SendListing
  <2> QED
    BY <2>5, <2>6 DEF SentGrown
<1>3. CASE ~ SendListing(a)
  BY <1>3 DEF SentGrown, Proceed, InsertOrUpdate, UpdateRow, InsertRow, LookForRoot, FindOrCreate, EditRow,
              RemoveRow, FileTemplate, CreateListing, CreateInformation, Threw
<1> QED
  BY <1>2, <1>3

(* What a step makes of templates and listings.                            *)
TemplateFiled(a) ==
  /\ categories' = categories /\ listings' = listings
  /\ \E t \in Nat, c \in DOMAIN categories : templates' = [templates EXCEPT ![t].category = c]
ListingFiled(a) ==
  /\ a = "inbox" /\ categories' = categories /\ templates' = templates
  /\ \/ ListingRow(work[a].listing, None)
     \/ /\ Head(work[a].steps).op = "inform"
        /\ Exists(Head(work[a].steps).category)
        /\ ListingRow(work[a].listing, Head(work[a].steps).category)

(* One template is filed, or one listing, or neither.                      *)
LEMMA ProceedReferences ==
  ASSUME IInv, NEW a \in Actor, Proceed(a)
  PROVE  \/ templates' = templates /\ listings' = listings
         \/ TemplateFiled(a)
         \/ ListingFiled(a)
<1>1. PICK s : s = Head(work[a].steps)
  OBVIOUS
<1>2. s \in Step /\ (s.op \in {"list", "inform"} => a = "inbox")
  BY <1>1, ProceedNotIdle, OpsOf
<1>3. CASE FileTemplate(a)
  <2>1. s.op = "file"
    BY <1>1, <1>3 DEF FileTemplate, Running
  <2>2. s.template \in Nat
    BY <1>2, <2>1 DEF Step
  <2>3. PICK c : c = IF s.market = NoMarket THEN FindOneDefaultByKey(s.key)
                     ELSE FindOneByKeyAndMarket(s.key, s.market)
    OBVIOUS
  <2>4. c # None => c \in DOMAIN categories
    <3>1. TypeOK
      BY DEF IInv
    <3>2. CASE s.market # NoMarket
      <4>1. PICK F : F = {d \in DOMAIN categories : categories[d].key = s.key /\ s.market \in {NoMarket, categories[d].market}}
        OBVIOUS
      <4>2. F \subseteq Nat /\ None \notin F /\ F \subseteq DOMAIN categories
        BY <3>1, <4>1, IdsAreNumbers
      <4>3. c = First(F)
        BY <2>3, <3>2, <4>1 DEF FindOneByKeyAndMarket
      <4> QED
        BY <4>2, <4>3, FirstIn
    <3>3. CASE s.market = NoMarket
      <4>1. PICK F : F = {d \in DOMAIN categories : categories[d].key = s.key /\ categories[d].market = NoMarket}
        OBVIOUS
      <4>2. F \subseteq Nat /\ None \notin F /\ F \subseteq DOMAIN categories
        BY <3>1, <4>1, IdsAreNumbers
      <4>3. c = First(F)
        BY <2>3, <3>3, <4>1 DEF FindOneDefaultByKey
      <4> QED
        BY <4>2, <4>3, FirstIn
    <3> QED
      BY <3>2, <3>3
  <2>5. \/ c = None /\ templates' = templates /\ listings' = listings
        \/ /\ c # None /\ categories' = categories /\ listings' = listings
           /\ templates' = [templates EXCEPT ![s.template].category = c]
    BY <1>1, <1>3, <2>3 DEF FileTemplate, Threw, references
  <2> QED
    BY <2>2, <2>4, <2>5 DEF TemplateFiled
<1>4. CASE CreateListing(a)
  <2>1. a = "inbox"
    BY <1>1, <1>2, <1>4 DEF CreateListing, Running
  <2> QED
    BY <1>4, <2>1 DEF CreateListing, Threw, references, ListingFiled
<1>5. CASE CreateInformation(a)
  <2>1. a = "inbox" /\ Head(work[a].steps).op = "inform"
    BY <1>1, <1>2, <1>5 DEF CreateInformation, Running
  <2> QED
    BY <1>5, <2>1 DEF CreateInformation, Threw, references, ListingFiled
<1>6. CASE ~ FileTemplate(a) /\ ~ CreateListing(a) /\ ~ CreateInformation(a)
  BY <1>6 DEF Proceed, InsertOrUpdate, UpdateRow, InsertRow, LookForRoot, FindOrCreate, EditRow,
              RemoveRow, SendListing, Threw, references
<1> QED
  BY <1>3, <1>4, <1>5, <1>6

(* What a step makes of the message's fate and of the boot.                *)
FateSet(a) ==
  \/ fate' = fate
  \/ a = "inbox" /\ fate' = FateOf(work[a].listing, "failed")
  \/ a = "inbox" /\ fate' = FateOf(work[a].listing, "stored")

(* Only the inbox decides what becomes of a message.                       *)
LEMMA ProceedFate ==
  ASSUME IInv, NEW a \in Actor, Proceed(a)
  PROVE  FateSet(a) /\ boot' \in {boot, "failed"}
<1>1. PICK s : s = Head(work[a].steps)
  OBVIOUS
<1>2. s.op = "inform" => a = "inbox"
  BY <1>1, ProceedNotIdle, OpsOf
<1>3. CASE Threw(a)
  BY <1>3 DEF Threw, FateSet
<1>4. ASSUME NEW steps, NEW found, GoesOn(a, steps, found) PROVE fate' = fate /\ boot' = boot
  BY <1>4 DEF GoesOn
<1>5. CASE CreateInformation(a)
  <2>1. a = "inbox"
    BY <1>1, <1>2, <1>5 DEF CreateInformation, Running
  <2> QED
    BY <1>3, <1>5, <2>1 DEF CreateInformation, FateSet
<1>6. CASE ~ CreateInformation(a)
  <2>1. \/ Threw(a)
        \/ \E steps : Goes(a, steps)
        \/ \E path, c : Found(a, path, c)
    BY <1>6 DEF Proceed, InsertOrUpdate, UpdateRow, InsertRow, LookForRoot, FindOrCreate, EditRow,
                RemoveRow, FileTemplate, SendListing, CreateListing
  <2> QED
    BY <1>3, <1>4, <2>1 DEF Goes, Found, FateSet
<1> QED
  BY <1>5, <1>6

(* A category that is referred to stays.                                   *)
LEMMA ReferredStay ==
  ASSUME Changes, NEW c \in DOMAIN categories,
         \/ \E t \in DOMAIN templates : templates[t].category = c
         \/ \E n \in DOMAIN listings : listings[n] = c
  PROVE  c \in DOMAIN categories'
<1>1. CASE \E row \in Category : Inserted(row)
  BY <1>1 DEF Inserted, Put
<1>2. CASE \E d \in DOMAIN categories, row \in Category : Replaced(d, row)
  BY <1>2 DEF Replaced, Put
<1>3. ASSUME NEW gone \in SUBSET DOMAIN categories, Removed(gone)
      PROVE  c \in DOMAIN categories'
  <2>1. c \notin gone
    BY <1>3 DEF Removed, Refers
  <2> QED
    BY <1>3, <2>1 DEF Removed
<1> QED
  BY <1>1, <1>2, <1>3 DEF Changes

(* Replacing one element of a sequence.                                    *)
LEMMA SeqExcept ==
  ASSUME NEW S, NEW s \in Seq(S), NEW t \in Nat, NEW e, t \in DOMAIN s => e \in S
  PROVE  [s EXCEPT ![t] = e] \in Seq(S)
<1>1. PICK n \in Nat : n = Len(s) /\ DOMAIN s = 1 .. n /\ s \in [1 .. n -> S]
  BY LenProperties
<1>2. [s EXCEPT ![t] = e] = [i \in 1 .. n |-> IF i = t THEN e ELSE s[i]]
  BY <1>1
<1>3. \A i \in 1 .. n : (IF i = t THEN e ELSE s[i]) \in S
  BY <1>1
<1>4. [i \in 1 .. n |-> IF i = t THEN e ELSE s[i]] \in Seq(S)
  BY <1>3
<1> QED
  BY <1>2, <1>4

(* The categories of templates are there after any step ...                *)
LEMMA ProceedTemplates ==
  ASSUME IInv, NEW a \in Actor, Proceed(a)
  PROVE  /\ TemplateRows'
         /\ \A t \in DOMAIN templates' :
              /\ templates'[t].market \in joined \cup {NoMarket}
              /\ templates'[t].category # None => templates'[t].category \in DOMAIN categories'
<1>1. /\ templates \in Seq([market : Market \cup {NoMarket}, category : Id \cup {None}])
      /\ TypeOK /\ Changes
  BY ProceedChanges DEF IInv, TemplateRows
<1>2. \A t \in DOMAIN templates :
        /\ templates[t].market \in joined \cup {NoMarket}
        /\ templates[t].category # None => templates[t].category \in DOMAIN categories
  BY <1>1 DEF TypeOK, Exists
<1>3. CASE templates' = templates
  <2>1. \A t \in DOMAIN templates : templates[t].category # None => templates[t].category \in DOMAIN categories'
    BY <1>1, <1>2, ReferredStay
  <2> QED
    BY <1>1, <1>2, <1>3, <2>1 DEF TemplateRows
<1>4. CASE TemplateFiled(a)
  <2>1. PICK t \in Nat, c \in DOMAIN categories : templates' = [templates EXCEPT ![t].category = c]
    BY <1>4 DEF TemplateFiled
  <2>2. categories' = categories /\ c \in Id
    BY <1>1, <1>4, RowTypes DEF TemplateFiled
  <2>3. /\ DOMAIN templates' = DOMAIN templates
        /\ \A u \in DOMAIN templates : u # t => templates'[u] = templates[u]
    BY <2>1
  <2>4. ASSUME t \in DOMAIN templates PROVE templates'[t] = [templates[t] EXCEPT !.category = c]
    BY <2>1, <2>4
  <2>5. \A u \in DOMAIN templates : templates[u] \in [market : Market \cup {NoMarket}, category : Id \cup {None}]
    BY <1>1, ElementOfSeq, LenProperties, ZenonT(90)
  <2>6. ASSUME t \in DOMAIN templates
        PROVE  /\ templates'[t] \in [market : Market \cup {NoMarket}, category : Id \cup {None}]
               /\ templates'[t].market = templates[t].market /\ templates'[t].category = c
    BY <2>2, <2>4, <2>5, <2>6
  <2>7. \A u \in DOMAIN templates : templates'[u] \in [market : Market \cup {NoMarket}, category : Id \cup {None}]
    BY <2>3, <2>5, <2>6
  <2>8. TemplateRows'
    <3>1. PICK e : e = [templates[t] EXCEPT !.category = c]
      OBVIOUS
    <3>2. t \in DOMAIN templates => e \in [market : Market \cup {NoMarket}, category : Id \cup {None}]
      BY <2>4, <2>6, <3>1
    <3>3. templates' = [templates EXCEPT ![t] = e]
      BY <2>1, <3>1
    <3>4. templates' \in Seq([market : Market \cup {NoMarket}, category : Id \cup {None}])
      BY <1>1, <3>2, <3>3, SeqExcept
    <3> QED
      BY <3>4 DEF TemplateRows
  <2> QED
    BY <1>2, <2>2, <2>3, <2>6, <2>8
<1>5. CASE ListingFiled(a)
  BY <1>1, <1>2, <1>5 DEF ListingFiled, TemplateRows
<1> QED
  BY <1>3, <1>4, <1>5, ProceedReferences

(* ... and those of listings.                                              *)
LEMMA ProceedListings ==
  ASSUME IInv, NEW a \in Actor, Proceed(a)
  PROVE  /\ DOMAIN listings' \subseteq DOMAIN sent'
         /\ DOMAIN listings \subseteq DOMAIN listings'
         /\ \A n \in DOMAIN listings' : listings'[n] # None => listings'[n] \in DOMAIN categories'
<1>1. /\ TypeOK /\ Changes
      /\ DOMAIN sent \subseteq DOMAIN sent'
  <2>1. SentGrown /\ joined' = joined
    BY ProceedSent DEF Proceed
  <2> QED
    BY <2>1, SentGrownFacts, ProceedChanges DEF IInv
<1>2. /\ DOMAIN listings \subseteq DOMAIN sent
      /\ \A n \in DOMAIN listings : listings[n] # None => listings[n] \in DOMAIN categories
  BY <1>1 DEF TypeOK, Exists
<1>3. CASE listings' = listings
  <2>1. \A n \in DOMAIN listings : listings[n] # None => listings[n] \in DOMAIN categories'
    BY <1>1, <1>2, ReferredStay
  <2> QED
    BY <1>1, <1>2, <1>3, <2>1
<1>4. CASE ListingFiled(a)
  <2>1. PICK n, c : /\ n = work["inbox"].listing /\ ListingRow(n, c)
                    /\ c = None \/ c \in DOMAIN categories
    BY <1>4 DEF ListingFiled, Exists
  <2>2. n \in DOMAIN sent /\ categories' = categories
    BY <1>4, <2>1, ProceedNotIdle DEF ListingFiled, IInv, Programs
  <2>3. DOMAIN listings' = DOMAIN listings \cup {n} /\ \A k \in DOMAIN listings' : listings'[k] = IF k = n THEN c ELSE listings[k]
    BY <2>1 DEF ListingRow
  <2> QED
    BY <1>1, <1>2, <2>1, <2>2, <2>3
<1> QED
  BY <1>3, <1>4, ProceedReferences DEF TemplateFiled

(* A message fails only if it was shaken.                                  *)
LEMMA ProceedFates ==
  ASSUME IInv, NEW a \in Actor, Proceed(a)
  PROVE  /\ DOMAIN fate' \subseteq DOMAIN sent'
         /\ \A n \in DOMAIN fate' : fate'[n] \in {"stored", "refused", "failed", "lost"}
         /\ shaken \subseteq shaken' /\ shaken' \subseteq DOMAIN sent'
         /\ StoredUnlessShaken'
<1>1. TypeOK /\ DOMAIN sent \subseteq DOMAIN sent'
  <2>1. SentGrown /\ joined' = joined
    BY ProceedSent DEF Proceed
  <2> QED
    BY <2>1, SentGrownFacts DEF IInv
<1>2. PICK n : n = work["inbox"].listing
  OBVIOUS
<1>3. ~ Idle("inbox") => n \in DOMAIN sent
  BY <1>2 DEF IInv, Programs
<1>4. shaken \subseteq shaken' /\ shaken' \subseteq DOMAIN sent'
  <2>1. shaken' = shaken \/ (~ Idle("inbox") /\ shaken' = shaken \cup {n})
    BY <1>2 DEF Proceed
  <2> QED
    BY <1>1, <1>3, <2>1 DEF TypeOK
<1>5. /\ DOMAIN fate \subseteq DOMAIN sent
      /\ \A k \in DOMAIN fate : fate[k] \in {"stored", "refused", "failed", "lost"}
      /\ \A k \in DOMAIN fate : fate[k] = "failed" => ~ Calm(k)
  BY <1>1 DEF TypeOK, IInv, StoredUnlessShaken, Calm
<1>8. \A k \in DOMAIN sent : ~ Calm(k) => (sent'[k].path[1] = RootName => k \in shaken')
  <2>1. SentGrown /\ joined' = joined
    BY ProceedSent DEF Proceed
  <2>2. \A k \in DOMAIN sent : sent'[k] = sent[k]
    BY <2>1, SentGrownFacts
  <2> QED
    BY <1>4, <2>2 DEF Calm
<1>6. CASE fate' = fate
  BY <1>1, <1>4, <1>5, <1>6, <1>8 DEF StoredUnlessShaken
<1>7. ASSUME NEW what \in {"failed", "stored"}, a = "inbox", fate' = FateOf(n, what)
      PROVE  /\ DOMAIN fate' \subseteq DOMAIN sent'
             /\ \A k \in DOMAIN fate' : fate'[k] \in {"stored", "refused", "failed", "lost"}
             /\ StoredUnlessShaken'
  <2>1. n \in DOMAIN sent
    BY <1>3, <1>7, ProceedNotIdle
  <2>2. DOMAIN fate' = DOMAIN fate \cup {n} /\ \A k \in DOMAIN fate' : fate'[k] = IF k = n THEN what ELSE fate[k]
    BY <1>7 DEF FateOf
  <2>3. Calm(n) => NoNewFailure
    <3>1. PICK w : w = work'["inbox"]
      OBVIOUS
    <3> QED
      BY <1>2, <1>7, <3>1, InboxResult
  <2>4. StoredUnlessShaken'
    <3>1. CASE ~ Calm(n)
      BY <1>4, <1>5, <1>8, <2>1, <2>2, <3>1 DEF StoredUnlessShaken
    <3>2. CASE Calm(n)
      BY <1>4, <1>5, <1>8, <2>1, <2>2, <2>3, <3>2 DEF StoredUnlessShaken, NoNewFailure
    <3> QED
      BY <3>1, <3>2
  <2> QED
    BY <1>1, <1>5, <1>7, <2>1, <2>2, <2>4
<1> QED
  BY <1>2, <1>4, <1>6, <1>7, ProceedFate DEF FateSet

(* The type invariant, put together.                                       *)
LEMMA ProceedTyped ==
  ASSUME IInv, NEW a \in Actor, Proceed(a)
  PROVE  TypeOK'
<1>1. TypeOK /\ Tree /\ Changes /\ Moves /\ SentGrown /\ joined' = joined /\ stops' = stops
  BY ProceedChanges, ProceedSent, IInvFacts DEF Proceed
<1>2. /\ DOMAIN categories' \subseteq 1 .. last' /\ last' \in 0 .. MaxCategories
  BY <1>1, NewDomain
<1>3. \A c \in DOMAIN categories' :
        /\ categories'[c] \in Category
        /\ categories'[c].parent # None => categories'[c].parent \in DOMAIN categories'
  BY <1>1, ChangesTyped
<1>4. \A n \in DOMAIN sent' : sent'[n].market \in joined'
  BY <1>1, SentGrownFacts
<1>5. boot' \in {"up", "seeding", "started", "failed"}
  BY <1>1, ProceedFate DEF TypeOK
<1>6. DOMAIN work' = Actor
  BY <1>1, IInvFacts, WorkShape DEF WorkType, TypeOK
<1>7. edited' \subseteq Id
  <2>1. edited' = edited \/ \E c \in DOMAIN categories : edited' \in {edited, edited \cup {c}}
    BY <1>1 DEF Changes, Inserted, Replaced, Removed
  <2>2. edited \subseteq Id /\ \A c \in DOMAIN categories : c \in Id
    BY <1>1, RowTypes DEF TypeOK
  <2> QED
    BY <2>1, <2>2
<1>8. moved' \subseteq DOMAIN categories'
  BY <1>1, MovesFacts
<1>9. /\ joined \subseteq Market /\ stops \in 0 .. MaxStops
  BY <1>1 DEF TypeOK
<1>10. /\ \A t \in DOMAIN templates' :
            /\ templates'[t].market \in joined' \cup {NoMarket}
            /\ templates'[t].category # None => templates'[t].category \in DOMAIN categories'
  BY <1>1, ProceedTemplates
<1>11. /\ DOMAIN listings' \subseteq DOMAIN sent'
       /\ \A n \in DOMAIN listings' : listings'[n] # None => listings'[n] \in DOMAIN categories'
  BY ProceedListings
<1>12. /\ DOMAIN fate' \subseteq DOMAIN sent'
       /\ \A n \in DOMAIN fate' : fate'[n] \in {"stored", "refused", "failed", "lost"}
       /\ shaken' \subseteq DOMAIN sent'
  BY ProceedFates
<1> QED
  BY <1>1, <1>2, <1>3, <1>4, <1>5, <1>6, <1>7, <1>8, <1>9, <1>10, <1>11, <1>12 DEF TypeOK, Exists

(* Filed listings stay as they are when their categories do ...            *)
LEMMA FiledStays ==
  ASSUME TypeOK, Filed, Kept, DOMAIN categories' \subseteq 1 .. last',
         NEW n \in DOMAIN listings, NEW c, c = listings[n],
         NEW path, path = sent[n].path, NEW m, m = sent[n].market, Steady(c)'
  PROVE  At(c, path, m)'
<1>1. c \in DOMAIN categories' /\ c # None
  <2>1. c \in DOMAIN categories' /\ None \notin 1 .. last'
    BY DEF Steady, None
  <2> QED
    BY <2>1
<1>2. c \in DOMAIN categories /\ c \in Given
  <2>1. c \in DOMAIN categories
    BY <1>1 DEF TypeOK, Exists
  <2> QED
    BY <2>1, RowTypes
<1>3. Steady(c) /\ categories'[c].key = categories[c].key /\ categories'[c].market = categories[c].market
  BY <1>2 DEF Kept
<1>4. At(c, path, m)
  BY <1>3 DEF Filed
<1> QED
  BY <1>1, <1>3, <1>4 DEF At, Exists

(* ... and a listing's information refers to the category of its names.    *)
LEMMA FilingInforms ==
  ASSUME NEW w, Filing(w), w.steps # <<>>, Head(w.steps).op = "inform"
  PROVE  LET c == Head(w.steps).category
         IN /\ c \in Given
            /\ Steady(c) => At(c, sent[w.listing].path, sent[w.listing].market)
<1>1. ASSUME NEW cur, NEW found, NEW m, Thread(cur, w.steps, found, m) PROVE FALSE
  <2>1. FirstStep(cur, Head(w.steps), found, m)
    BY <1>1 DEF Thread
  <2> QED
    BY <2>1 DEF FirstStep, NextStep
<1> QED
  BY <1>1 DEF Filing

(* After any step listings that are not moved have the key they were sent with.*)
LEMMA ProceedFiled ==
  ASSUME IInv, NEW a \in Actor, Proceed(a)
  PROVE  Filed'
<1>1. TypeOK /\ Filed /\ Kept /\ DOMAIN categories' \subseteq 1 .. last'
  BY ProceedChanges, NewDomain DEF IInv
<1>2. \A n \in DOMAIN sent : sent'[n] = sent[n]
  <2>1. SentGrown /\ joined' = joined
    BY ProceedSent DEF Proceed
  <2> QED
    BY <2>1, SentGrownFacts
<1>3. DOMAIN listings \subseteq DOMAIN sent
  BY <1>1 DEF TypeOK
<1>4. ASSUME NEW n \in DOMAIN listings, NEW c, c = listings[n], Steady(c)'
      PROVE  At(c, sent[n].path, sent[n].market)'
  <2>1. PICK path, m : path = sent[n].path /\ m = sent[n].market
    OBVIOUS
  <2>2. At(c, path, m)'
    BY <1>1, <1>4, <2>1, FiledStays
  <2> QED
    BY <1>2, <1>3, <2>1, <2>2 DEF At
<1>5. CASE listings' = listings
  BY <1>4, <1>5 DEF Filed
<1>6. CASE ListingFiled(a)
  <2>1. PICK n, c : /\ n = work["inbox"].listing /\ ListingRow(n, c)
                    /\ \/ c = None
                       \/ /\ Head(work["inbox"].steps).op = "inform"
                          /\ c = Head(work["inbox"].steps).category
    BY <1>6 DEF ListingFiled
  <2>2. /\ n \in DOMAIN sent /\ categories' = categories /\ Filing(work["inbox"])
        /\ work["inbox"].steps # <<>>
    BY <1>6, <2>1, ProceedNotIdle DEF ListingFiled, IInv, Programs, Idle
  <2>3. PICK path, m : path = sent[n].path /\ m = sent[n].market
    OBVIOUS
  <2>4. ASSUME Steady(c)' PROVE At(c, path, m)'
    <3>1. c # None
      <4>1. c \in DOMAIN categories' /\ None \notin 1 .. last'
        BY <2>4 DEF Steady, None
      <4> QED
        BY <1>1, <4>1
    <3>2. c \in Given /\ (Steady(c) => At(c, path, m))
      BY <2>1, <2>2, <2>3, <3>1, FilingInforms
    <3>3. Steady(c)
      BY <1>1, <2>4, <3>2 DEF Kept
    <3> QED
      BY <2>2, <3>2, <3>3 DEF At, Exists
  <2>5. DOMAIN listings' = DOMAIN listings \cup {n} /\ \A k \in DOMAIN listings' : listings'[k] = IF k = n THEN c ELSE listings[k]
    BY <2>1 DEF ListingRow
  <2>6. ASSUME NEW k \in DOMAIN listings', NEW d, d = listings'[k], d \in DOMAIN categories' \ moved'
        PROVE  /\ d \in DOMAIN categories' /\ categories'[d].key = KeyOf(sent'[k].path)
               /\ categories'[d].market = sent'[k].market
    <3>1. CASE k = n
      <4>1. d = c /\ path = sent'[k].path /\ m = sent'[k].market
        BY <1>2, <2>2, <2>3, <2>5, <2>6, <3>1
      <4>2. Steady(c)'
        BY <2>6, <4>1 DEF Steady
      <4> QED
        BY <2>4, <4>1, <4>2 DEF At, Exists
    <3>2. CASE k # n
      <4>1. k \in DOMAIN listings /\ d = listings[k]
        BY <2>5, <2>6, <3>2
      <4>2. Steady(d)'
        BY <2>6 DEF Steady
      <4>3. At(d, sent[k].path, sent[k].market)'
        BY <1>4, <4>1, <4>2
      <4>4. sent'[k] = sent[k]
        BY <1>2, <1>3, <4>1
      <4> QED
        BY <4>3, <4>4 DEF At, Exists
    <3> QED
      BY <3>1, <3>2
  <2>7. \A k \in DOMAIN listings' :
          listings'[k] \in DOMAIN categories' \ moved' =>
            /\ listings'[k] \in DOMAIN categories' /\ categories'[listings'[k]].key = KeyOf(sent'[k].path)
            /\ categories'[listings'[k]].market = sent'[k].market
    BY <2>6
  <2> QED
    BY <2>7 DEF Filed, Steady, At, Exists
<1> QED
  BY <1>5, <1>6, ProceedReferences DEF TemplateFiled

(* After any step every actor is at one of its programs.                   *)
LEMMA ProceedPrograms ==
  ASSUME IInv, NEW a \in Actor, Proceed(a)
  PROVE  Programs'
<1>1. WorkType /\ TypeOK /\ Changes /\ Kept /\ joined' = joined
  BY ProceedChanges, IInvFacts DEF Proceed
<1>2. /\ work' = [work EXCEPT ![a] = work'[a]]
      /\ \A b \in Actor \ {a} : work'[b] = work[b]
  BY <1>1, WorkShape
<1>3. PICK w : w = work'[a]
  OBVIOUS
<1>4. Made(w)'
  <2>1. CASE a = "boot"
    BY <1>3, <2>1, BootResult
  <2>2. CASE a = "client"
    BY <1>3, <2>2, ClientResult
  <2>3. CASE a = "inbox"
    <3>1. PICK n : n = work["inbox"].listing
      OBVIOUS
    <3> QED
      BY <1>3, <2>3, <3>1, InboxResult
  <2> QED
    BY <2>1, <2>2, <2>3 DEF Actor
<1>5. work' \in [Actor -> [steps : Seq(Step), found : Seq(Id), listing : Nat]]
  <2>1. w.steps \in Seq(Step) /\ w.found \in Seq(1 .. last')
    BY <1>4 DEF Made, Given
  <2>2. 1 .. last' \subseteq Id
    <3>1. last' \in 0 .. MaxCategories /\ MaxCategories \in Nat
      BY <1>1, NewDomain, CategoriesAssumption
    <3> QED
      BY <3>1 DEF Id
  <2>3. w.found \in Seq(Id)
    <3>1. PICK S : S = 1 .. last'
      OBVIOUS
    <3>2. w.found \in Seq(S) /\ S \subseteq Id
      BY <2>1, <2>2, <3>1
    <3> QED
      BY <3>2
  <2>4. w \in [steps : Seq(Step), found : Seq(Id), listing : Nat]
    <3>1. CASE w = Nothing
      BY <3>1 DEF Nothing, None
    <3>2. CASE w = [work[a] EXCEPT !.steps = w.steps, !.found = w.found]
      <4>1. PICK r \in [steps : Seq(Step), found : Seq(Id), listing : Nat] : r = work[a]
        BY <1>1 DEF WorkType
      <4>2. PICK st \in Seq(Step), f \in Seq(Id) : st = w.steps /\ f = w.found
        BY <2>1, <2>3
      <4>3. w = [r EXCEPT !.steps = st, !.found = f]
        BY <3>2, <4>1, <4>2
      <4> QED
        BY <4>3
    <3> QED
      BY <1>1, <1>3, <3>1, <3>2, WorkShape
  <2>5. work \in [Actor -> [steps : Seq(Step), found : Seq(Id), listing : Nat]]
    BY <1>1 DEF WorkType
  <2>6. work' = [work EXCEPT ![a] = w]
    BY <1>2, <1>3
  <2> QED
    BY <2>4, <2>5, <2>6
<1>6. Seeding(work["boot"])'
  <2>1. CASE a = "boot"
    <3>1. Seeding(w)'
      BY <1>3, <2>1, BootResult
    <3> QED
      BY <1>3, <2>1, <3>1 DEF Seeding
  <2>2. CASE a # "boot"
    <3>1. PICK v : v = work["boot"] /\ v = work'["boot"]
      BY <1>2, <2>2 DEF Actor
    <3>2. Seeding(v)'
      BY <1>1, <3>1, SeedingKept DEF IInv, Programs
    <3> QED
      BY <3>1, <3>2 DEF Seeding
  <2> QED
    BY <2>1, <2>2
<1>7. ~ Idle("client")' => Commanding(work["client"])'
  <2> SUFFICES ASSUME work'["client"].steps # <<>> PROVE Commanding(work["client"])'
    BY DEF Idle
  <2>1. CASE a = "client"
    <3>1. Commanding(w)'
      BY <1>3, <2>1, ClientResult
    <3> QED
      BY <1>3, <2>1, <3>1 DEF Commanding
  <2>2. CASE a # "client"
    <3>1. PICK v : v = work["client"] /\ v = work'["client"]
      BY <1>2, <2>2 DEF Actor
    <3>2. Commanding(v)
      BY <3>1 DEF IInv, Programs, Idle
    <3>3. Commanding(v)'
      BY <1>1, <3>2, CommandingKept
    <3> QED
      BY <3>1, <3>3 DEF Commanding
  <2> QED
    BY <2>1, <2>2
<1>8. ~ Idle("inbox")' => work'["inbox"].listing \in DOMAIN sent' /\ Filing(work["inbox"])'
  <2> SUFFICES ASSUME work'["inbox"].steps # <<>>
               PROVE  work'["inbox"].listing \in DOMAIN sent' /\ Filing(work["inbox"])'
    BY DEF Idle
  <2>0. \A k \in DOMAIN sent : k \in DOMAIN sent' /\ sent'[k] = sent[k]
    BY <1>1, ProceedSent, SentGrownFacts
  <2>1. CASE a = "inbox"
    <3>1. PICK n : n = work["inbox"].listing
      OBVIOUS
    <3>2. w.listing = n /\ Filing(w)'
      BY <1>3, <2>1, <3>1, InboxResult
    <3>3. n \in DOMAIN sent
      BY <2>1, <3>1, ProceedNotIdle DEF IInv, Programs
    <3> QED
      BY <1>3, <2>0, <2>1, <3>2, <3>3 DEF Filing, Calm
  <2>2. CASE a # "inbox"
    <3>1. PICK v : v = work["inbox"] /\ v = work'["inbox"]
      BY <1>2, <2>2 DEF Actor
    <3>2. Filing(v) /\ v.listing \in DOMAIN sent /\ ~ Idle("inbox")
      BY <3>1 DEF IInv, Programs, Idle
    <3>3. v.listing \notin shaken' => v.listing \notin shaken /\ categories' = categories
      BY <2>2, <3>1, <3>2 DEF Proceed
    <3>4. v.listing \in DOMAIN listings => v.listing \in DOMAIN listings'
      BY ProceedListings
    <3>5. sent'[v.listing] = sent[v.listing]
      BY <2>0, <3>2
    <3>6. Filing(v)'
      BY <1>1, <3>2, <3>3, <3>4, <3>5, FilingKept
    <3> QED
      BY <2>0, <3>1, <3>2, <3>6 DEF Filing, Calm
  <2> QED
    BY <2>1, <2>2
<1> QED
  BY <1>5, <1>6, <1>7, <1>8 DEF Programs

(* A step of any program keeps the invariant.                              *)
LEMMA ProceedInvariance ==
  ASSUME IInv, NEW a \in Actor, Proceed(a)
  PROVE  IInv'
<1>1. SentRows'
  BY ProceedSent, SentGrownFacts DEF Proceed
<1> QED
  BY <1>1, ProceedTyped, ProceedTemplates, ProceedChanges, ProceedPrograms, ProceedFiled, ProceedFates DEF IInv

-----------------------------------------------------------------------------
(* The other actions leave the categories as they are.                     *)

Quiet ==
  /\ UNCHANGED <<categories, last, moved, edited>>
  /\ joined \subseteq joined' /\ shaken \subseteq shaken'
  /\ \A n \in DOMAIN sent : n \in DOMAIN sent' /\ sent'[n] = sent[n]
  /\ \A n \in DOMAIN listings' : n \in DOMAIN listings /\ listings'[n] = listings[n]
  /\ \A n \in DOMAIN listings : n \in DOMAIN listings' \/ n # work["inbox"].listing \/ n \in shaken'

(* What was kept stays kept when nothing happens to it ...                 *)
LEMMA QuietRows ==
  ASSUME IInv, Quiet
  PROVE  Kept /\ Rows' /\ MovedBelow' /\ Keyed'
<1>1. TypeOK /\ Rows /\ MovedBelow /\ Keyed /\ categories' = categories /\ last' = last /\ moved' = moved /\ edited' = edited
  BY DEF IInv, Quiet
<1>6. Whole' = Whole
  BY <1>1 DEF Whole
<1>2. Kept
  <2>1. last \in Nat
    BY <1>1, CategoriesAssumption DEF TypeOK
  <2> QED
    BY <1>1, <1>6, <2>1 DEF Kept, Steady
<1>3. Rows'
  BY <1>1 DEF Rows
<1>4. MovedBelow'
  BY <1>1 DEF MovedBelow, Misnamed, Children
<1>5. Keyed'
  BY <1>1, <1>6 DEF Keyed, Joins, Ends
<1> QED
  BY <1>2, <1>3, <1>4, <1>5

(* ... and so do the listings, fewer or not.                               *)
LEMMA QuietFiled ==
  ASSUME IInv, Quiet
  PROVE  Filed'
<1>1. Filed /\ DOMAIN listings \subseteq DOMAIN sent
  BY DEF IInv, TypeOK
<1>2. ASSUME NEW n \in DOMAIN listings', listings'[n] \in DOMAIN categories' \ moved'
      PROVE  /\ listings'[n] \in DOMAIN categories'
             /\ categories'[listings'[n]].key = KeyOf(sent'[n].path)
             /\ categories'[listings'[n]].market = sent'[n].market
  <2>1. n \in DOMAIN listings /\ listings'[n] = listings[n] /\ sent'[n] = sent[n] /\ categories' = categories /\ moved' = moved
    BY <1>1, <1>2 DEF Quiet
  <2>2. Steady(listings[n])
    BY <1>2, <2>1 DEF Steady
  <2>3. At(listings[n], sent[n].path, sent[n].market)
    BY <1>1, <2>1, <2>2 DEF Filed
  <2> QED
    BY <2>1, <2>3 DEF At, Exists
<1> QED
  BY <1>2 DEF Filed, Steady, At, Exists

(* Programs that go on, have ended or have just begun.                     *)
LEMMA QuietPrograms ==
  ASSUME IInv, Quiet,
         work' \in [Actor -> [steps : Seq(Step), found : Seq(Id), listing : Nat]],
         work'["boot"] = work["boot"] \/ Seeding(work["boot"])',
         \/ work'["client"] = work["client"] \/ work'["client"].steps = <<>>
         \/ Commanding(work["client"])',
         \/ work'["inbox"] = work["inbox"] \/ work'["inbox"].steps = <<>>
         \/ work'["inbox"].listing \in DOMAIN sent' /\ Filing(work["inbox"])'
  PROVE  Programs'
<1>1. Kept /\ joined \subseteq joined'
  BY QuietRows DEF Quiet
<1>2. Seeding(work["boot"])'
  <2>1. CASE work'["boot"] = work["boot"]
    <3>1. PICK v : v = work["boot"] /\ v = work'["boot"]
      BY <2>1
    <3>2. Seeding(v)'
      BY <1>1, <3>1, SeedingKept DEF IInv, Programs
    <3> QED
      BY <3>1, <3>2 DEF Seeding
  <2> QED
    BY <2>1
<1>3. ~ Idle("client")' => Commanding(work["client"])'
  <2> SUFFICES ASSUME work'["client"].steps # <<>> PROVE Commanding(work["client"])'
    BY DEF Idle
  <2>1. CASE work'["client"] = work["client"]
    <3>1. PICK v : v = work["client"] /\ v = work'["client"]
      BY <2>1
    <3>2. Commanding(v)
      BY <3>1 DEF IInv, Programs, Idle
    <3>3. Commanding(v)'
      BY <1>1, <3>2, CommandingKept
    <3> QED
      BY <3>1, <3>3 DEF Commanding
  <2> QED
    BY <2>1
<1>4. ~ Idle("inbox")' => work'["inbox"].listing \in DOMAIN sent' /\ Filing(work["inbox"])'
  <2> SUFFICES ASSUME work'["inbox"].steps # <<>>
               PROVE  work'["inbox"].listing \in DOMAIN sent' /\ Filing(work["inbox"])'
    BY DEF Idle
  <2>1. CASE work'["inbox"] = work["inbox"]
    <3>1. PICK v : v = work["inbox"] /\ v = work'["inbox"]
      BY <2>1
    <3>2. Filing(v) /\ v.listing \in DOMAIN sent
      BY <3>1 DEF IInv, Programs, Idle
    <3>3. sent'[v.listing] = sent[v.listing] /\ v.listing \in DOMAIN sent' /\ categories' = categories
      BY <3>2 DEF Quiet
    <3>4. v.listing \notin shaken' =>
            /\ v.listing \notin shaken
            /\ v.listing \in DOMAIN listings => v.listing \in DOMAIN listings'
      BY <3>1 DEF Quiet
    <3>5. Filing(v)'
      BY <1>1, <3>2, <3>3, <3>4, FilingKept
    <3> QED
      BY <3>1, <3>3, <3>5 DEF Filing, Calm
  <2> QED
    BY <2>1
<1> QED
  BY <1>2, <1>3, <1>4 DEF Programs

(* Nothing that was stored, refused or under way comes to fail.            *)
QuietFate ==
  /\ DOMAIN fate' \subseteq DOMAIN sent'
  /\ \A n \in DOMAIN fate' : fate'[n] \in {"stored", "refused", "failed", "lost"}
  /\ NoNewFailure

(* A message that is refused or lost has not failed.                       *)
LEMMA FateStays ==
  ASSUME IInv, Quiet,
         \/ fate' = fate
         \/ \E n \in DOMAIN sent, what \in {"refused", "lost"} : fate' = FateOf(n, what)
  PROVE  QuietFate
<1>1. /\ DOMAIN fate \subseteq DOMAIN sent /\ DOMAIN sent \subseteq DOMAIN sent'
      /\ \A n \in DOMAIN fate : fate[n] \in {"stored", "refused", "failed", "lost"}
  BY DEF IInv, TypeOK, Quiet
<1>2. CASE fate' = fate
  BY <1>1, <1>2 DEF QuietFate, NoNewFailure
<1>3. ASSUME NEW n \in DOMAIN sent, NEW what \in {"refused", "lost"}, fate' = FateOf(n, what)
      PROVE  QuietFate
  <2>1. DOMAIN fate' = DOMAIN fate \cup {n} /\ \A k \in DOMAIN fate' : fate'[k] = IF k = n THEN what ELSE fate[k]
    BY <1>3 DEF FateOf
  <2>2. what # "failed" /\ what \in {"stored", "refused", "failed", "lost"}
    OBVIOUS
  <2> QED
    BY <1>1, <1>3, <2>1, <2>2 DEF QuietFate, NoNewFailure
<1> QED
  BY <1>2, <1>3

(* Such an action keeps the invariant if the programs that begin are programs.*)
LEMMA QuietInvariance ==
  ASSUME IInv, Quiet, QuietFate, SentGrown, Programs',
         joined' \subseteq Market, stops' \in 0 .. MaxStops, boot' \in {"up", "seeding", "started", "failed"},
         shaken' \subseteq DOMAIN sent,
         \/ templates' = templates
         \/ \E m \in joined \cup {NoMarket}, c \in DOMAIN categories \cup {None} :
              templates' = Append(templates, [market |-> m, category |-> c])
  PROVE  IInv'
<1>1. /\ TypeOK /\ joined \subseteq joined' /\ joined \subseteq Market
      /\ DOMAIN sent \subseteq DOMAIN sent' /\ DOMAIN listings' \subseteq DOMAIN listings
      /\ \A n \in DOMAIN listings' : listings'[n] = listings[n]
  BY DEF IInv, Quiet, TypeOK
<1>2. /\ TemplateRows'
      /\ \A t \in DOMAIN templates' :
           /\ templates'[t].market \in joined \cup {NoMarket}
           /\ templates'[t].category # None => templates'[t].category \in DOMAIN categories
  <2>1. /\ templates \in Seq([market : Market \cup {NoMarket}, category : Id \cup {None}])
        /\ \A t \in DOMAIN templates :
             /\ templates[t].market \in joined \cup {NoMarket}
             /\ templates[t].category # None => templates[t].category \in DOMAIN categories
    BY DEF IInv, TemplateRows, TypeOK, Exists
  <2>2. CASE templates' = templates
    BY <2>1, <2>2 DEF TemplateRows
  <2>3. ASSUME NEW m \in joined \cup {NoMarket}, NEW c \in DOMAIN categories \cup {None},
               templates' = Append(templates, [market |-> m, category |-> c])
        PROVE  /\ TemplateRows'
               /\ \A t \in DOMAIN templates' :
                    /\ templates'[t].market \in joined \cup {NoMarket}
                    /\ templates'[t].category # None => templates'[t].category \in DOMAIN categories
    <3>1. PICK x : x = [market |-> m, category |-> c]
      OBVIOUS
    <3>2. c \in Id \cup {None}
      BY <1>1, RowTypes
    <3>3. x \in [market : Market \cup {NoMarket}, category : Id \cup {None}] /\ x.market = m /\ x.category = c
      BY <1>1, <3>1, <3>2
    <3>4. PICK k \in Nat : k = Len(templates) /\ DOMAIN templates = 1 .. k
      BY <2>1, LenProperties
    <3>5. /\ templates' \in Seq([market : Market \cup {NoMarket}, category : Id \cup {None}])
          /\ Len(templates') = k + 1
          /\ \A t \in 1 .. k : templates'[t] = templates[t]
          /\ templates'[k + 1] = x
      BY <2>1, <2>3, <3>1, <3>3, <3>4, AppendProperties
    <3>6. DOMAIN templates' = 1 .. k + 1
      BY <3>5, LenProperties
    <3>7. \A t \in 1 .. k + 1 : t \in 1 .. k \/ t = k + 1
      OBVIOUS
    <3> QED
      BY <2>1, <3>3, <3>4, <3>5, <3>6, <3>7 DEF TemplateRows
  <2> QED
    BY <2>2, <2>3
<1>3. /\ SentRows' /\ \A n \in DOMAIN sent' : sent'[n].market \in joined'
  BY <1>1, SentGrownFacts
<1>4. StoredUnlessShaken'
  <2>1. DOMAIN fate \subseteq DOMAIN sent /\ \A n \in DOMAIN fate : fate[n] = "failed" => ~ Calm(n)
    BY <1>1 DEF TypeOK, StoredUnlessShaken, IInv, Calm
  <2>2. \A n \in DOMAIN sent : sent'[n] = sent[n]
    BY DEF Quiet
  <2>3. shaken \subseteq shaken' /\ NoNewFailure
    BY DEF Quiet, QuietFate
  <2> QED
    BY <2>1, <2>2, <2>3 DEF StoredUnlessShaken, NoNewFailure, Calm
<1>5. categories' = categories /\ last' = last /\ moved' = moved /\ edited' = edited
  BY DEF Quiet
<1>6. DOMAIN work' = Actor
  BY DEF Programs
<1>7. TypeOK'
  <2>1. /\ DOMAIN categories' \subseteq 1 .. last' /\ last' \in 0 .. MaxCategories
        /\ \A c \in DOMAIN categories' :
             /\ categories'[c] \in Category
             /\ categories'[c].parent # None => categories'[c].parent \in DOMAIN categories'
        /\ edited' \subseteq Id /\ moved' \subseteq DOMAIN categories'
    BY <1>1, <1>5 DEF TypeOK, Exists
  <2>2. /\ DOMAIN listings' \subseteq DOMAIN sent'
        /\ \A n \in DOMAIN listings' : listings'[n] # None => listings'[n] \in DOMAIN categories'
    BY <1>1, <1>5 DEF TypeOK, Exists
  <2>3. \A t \in DOMAIN templates' :
          /\ templates'[t].market \in joined' \cup {NoMarket}
          /\ templates'[t].category # None => templates'[t].category \in DOMAIN categories'
    BY <1>1, <1>2, <1>5
  <2>4. /\ DOMAIN fate' \subseteq DOMAIN sent'
        /\ \A n \in DOMAIN fate' : fate'[n] \in {"stored", "refused", "failed", "lost"}
        /\ shaken' \subseteq DOMAIN sent'
    BY <1>1 DEF QuietFate
  <2> QED
    BY <1>3, <1>6, <2>1, <2>2, <2>3, <2>4 DEF TypeOK, Exists
<1> QED
  BY <1>2, <1>3, <1>4, <1>7, QuietRows, QuietFiled DEF IInv

(* The programs that begin.                                                *)
LEMMA LineNothing ==
  ASSUME NEW m
  PROVE  Line(<<>>, <<>>, m)' /\ <<>> \in Seq(Named)
BY EmptySeq DEF Line

(* A command of one step.                                                  *)
LEMMA BeginSingle ==
  ASSUME NEW s \in Step, Single(s)', NEW w, w = [Nothing EXCEPT !.steps = <<s>>]
  PROVE  w \in [steps : Seq(Step), found : Seq(Id), listing : Nat] /\ Commanding(w)'
<1>1. <<s>> \in Seq(Step) /\ Len(<<s>>) = 1 /\ Head(<<s>>) = s
  OBVIOUS
<1>2. w.steps = <<s>> /\ w.found = <<>> /\ w.listing = 0 /\ w \in [steps : Seq(Step), found : Seq(Id), listing : Nat]
  BY <1>1, EmptySeq DEF Nothing, None
<1> QED
  BY <1>1, <1>2 DEF Commanding

(* The ROOT of a market that was added.                                    *)
LEMMA BeginRoot ==
  ASSUME NEW m \in Market, m \in joined', NEW w, w = [Nothing EXCEPT !.steps = <<Upsert(ROOT, m)>>]
  PROVE  w \in [steps : Seq(Step), found : Seq(Id), listing : Nat] /\ Commanding(w)'
<1>1. PICK s : s = Upsert(ROOT, m)
  OBVIOUS
<1>2. s.op = "upsert" /\ s.path = ROOT /\ s.market = m /\ s \in Posts /\ s \in Step
  BY <1>1, RootPath DEF Upsert, Posts, Step
<1>3. PICK rest : rest = <<>> /\ rest \in Seq(Step) /\ rest \in Seq(Posts)
  BY EmptySeq
<1>4. PICK steps : steps = <<s>> \o rest
  OBVIOUS
<1>5. steps = <<s>> /\ steps \in Seq(Posts) /\ steps \in Seq(Step)
  <2>1. steps = <<s>>
    BY <1>2, <1>3, <1>4, ConcatEmptySeq
  <2> QED
    BY <1>2, <2>1
<1>6. NextStep(<<>>, s, m)
  BY <1>2, RootPath DEF NextStep
<1>7. Follows(ROOT, rest, m)
  BY <1>3, EmptySeq DEF Follows
<1>8. Thread(<<>>, steps, <<>>, m)'
  <2>1. FirstStep(<<>>, s, <<>>, m)'
    BY <1>6 DEF FirstStep
  <2>2. PathOf(s) = ROOT
    BY <1>2 DEF PathOf
  <2> QED
    BY <1>2, <1>3, <1>4, <1>7, <2>1, <2>2, ThreadPut
<1>9. w.steps = steps /\ w.found = <<>> /\ w.listing = 0 /\ w \in [steps : Seq(Step), found : Seq(Id), listing : Nat]
  BY <1>1, <1>5, EmptySeq DEF Nothing, None
<1>10. Posts' = Posts
  OBVIOUS
<1> QED
  BY <1>5, <1>8, <1>9, <1>10, LineNothing DEF Commanding

(* The names that come one after another.                                  *)
LEMMA GoesOnNames ==
  ASSUME NEW path \in Path, NEW k \in 2 .. Len(path)
  PROVE  GoesOnFrom(SubSeq(path, 1, k - 1), SubSeq(path, 1, k))
<1>1. path \in Seq(Named) /\ Len(path) \in Nat
  BY PathSeq
<1>2. k \in 0 .. Len(path) /\ k - 1 \in 0 .. Len(path) /\ k - 1 \in 1 .. k /\ k - 1 \in 1 .. k - 1 /\ k - 1 + 1 = k
  BY <1>1
<1>3. Len(SubSeq(path, 1, k)) = k /\ Len(SubSeq(path, 1, k - 1)) = k - 1
  BY <1>1, <1>2, Cut
<1>4. SubSeq(SubSeq(path, 1, k), 1, k - 1) = SubSeq(path, 1, k - 1)
  BY <1>1, <1>2, CutTwice
<1>5. SubSeq(SubSeq(path, 1, k - 1), 1, k - 1) = SubSeq(path, 1, k - 1)
  BY <1>1, <1>2, CutTwice
<1> QED
  BY <1>2, <1>3, <1>4, <1>5 DEF GoesOnFrom

(* A beginning of a path is a path, and the first name follows nothing.    *)
LEMMA CutPath ==
  ASSUME NEW path \in Path, NEW k \in 1 .. Len(path)
  PROVE  SubSeq(path, 1, k) \in Path /\ SubSeq(path, 1, k)[1] = path[1] /\ GoesOnFrom(<<>>, SubSeq(path, 1, 1))
<1>1. path \in Seq(Named) /\ Len(path) \in Nat \ {0}
  BY PathSeq
<1>2. k \in 0 .. Len(path) /\ 1 \in 1 .. k /\ 1 \in 0 .. Len(path)
  BY <1>1
<1>3. /\ SubSeq(path, 1, k) \in Seq(Named) /\ Len(SubSeq(path, 1, k)) = k
      /\ SubSeq(path, 1, k)[1] = path[1] /\ Len(SubSeq(path, 1, 1)) = 1
  BY <1>1, <1>2, Cut
<1>4. SubSeq(path, 1, k) # <<>>
  BY <1>2, <1>3, EmptySeq
<1>5. SubSeq(SubSeq(path, 1, 1), 1, 0) = <<>> /\ SubSeq(<<>>, 1, 0) = <<>>
  BY SubSeqEmpty
<1>6. GoesOnFrom(<<>>, SubSeq(path, 1, 1))
  BY <1>3, <1>5, EmptySeq DEF GoesOnFrom
<1> QED
  BY <1>3, <1>4, <1>6 DEF Path

(* Steps of S: ROOT, a category for every name, and what they are for.     *)
Begun(S, path, m, x, steps) ==
  /\ path \in Path /\ m \in Market
  /\ x \in Step /\ x.op \in {"list", "send"} /\ x.market = m /\ x.path = path
  /\ S \subseteq Step /\ x \in S /\ [op |-> "root", market |-> m] \in S
  /\ \A k \in 1 .. Len(path) : Ensure(SubSeq(path, 1, k), m) \in S
  /\ steps = CreateMarketCategories(m, path) \o <<x>>

(* They lead from nothing found down to the whole path.                    *)
LEMMA BeginNames ==
  ASSUME NEW S, NEW path, NEW m, NEW x, NEW steps, Begun(S, path, m, x, steps)
  PROVE  /\ steps \in Seq(S) /\ steps # <<>> /\ Head(steps).op = "root"
         /\ Thread(<<>>, steps, <<>>, m)'
<1>0. /\ path \in Path /\ m \in Market
      /\ x \in Step /\ x.op \in {"list", "send"} /\ x.market = m /\ x.path = path
      /\ S \subseteq Step /\ x \in S /\ [op |-> "root", market |-> m] \in S
      /\ \A k \in 1 .. Len(path) : Ensure(SubSeq(path, 1, k), m) \in S
      /\ steps = CreateMarketCategories(m, path) \o <<x>>
  BY DEF Begun
<1> USE <1>0
<1>1. PICK n \in Nat \ {0} : n = Len(path) /\ path \in Seq(Named) /\ DOMAIN path = 1 .. n
  BY PathSeq, LenProperties
<1>2. PICK r : r = [op |-> "root", market |-> m]
  OBVIOUS
<1>3. r.op = "root" /\ r.market = m /\ r \in S /\ r \in Step
  BY <1>2
<1>4. PICK e : e = [k \in 1 .. n |-> Ensure(SubSeq(path, 1, k), m)]
  OBVIOUS
<1>5. e \in Seq(S) /\ Len(e) = n
  <2>1. \A k \in 1 .. n : e[k] \in S
    BY <1>1, <1>4
  <2>2. e \in [1 .. n -> S]
    BY <1>4, <2>1
  <2> QED
    BY <2>2
<1>6. PICK q : q = <<x>>
  OBVIOUS
<1>17. q \in Seq(S) /\ Len(q) = 1 /\ q[1] = x
  BY <1>6
<1>7. PICK rest : rest = e \o q
  OBVIOUS
<1>8. /\ rest \in Seq(S) /\ Len(rest) = n + 1
      /\ \A i \in 1 .. n + 1 : rest[i] = IF i <= n THEN e[i] ELSE q[i - n]
  <2>1. /\ e \o q \in Seq(S) /\ Len(e \o q) = Len(e) + Len(q)
        /\ \A i \in 1 .. Len(e) + Len(q) : (e \o q)[i] = IF i <= Len(e) THEN e[i] ELSE q[i - Len(e)]
    BY <1>5, <1>17, ConcatProperties
  <2> QED
    BY <1>5, <1>7, <1>17, <2>1
<1>9. steps = <<r>> \o rest
  <2>1. CreateMarketCategories(m, path) = <<r>> \o e
    BY <1>1, <1>2, <1>4 DEF CreateMarketCategories
  <2>2. PICK p : p = <<r>>
    OBVIOUS
  <2>3. p \in Seq(S)
    BY <1>3, <2>2
  <2>4. (p \o e) \o q = p \o (e \o q)
    BY <1>5, <1>17, <2>3, ConcatAssociative
  <2> QED
    BY <1>6, <1>7, <2>1, <2>2, <2>4
<1>10. steps \in Seq(S) /\ steps # <<>> /\ Head(steps) = r
  <2>1. r \in S /\ rest \in Seq(S)
    BY <1>3, <1>8
  <2>2. <<r>> \o rest \in Seq(S) /\ <<r>> \o rest # <<>> /\ Head(<<r>> \o rest) = r
    BY <2>1, PutFirst
  <2> QED
    BY <1>9, <2>2
<1>11. ASSUME NEW k \in 1 .. n
       PROVE  /\ rest[k].op = "ensure" /\ rest[k].market = m /\ rest[k].path = SubSeq(path, 1, k)
              /\ PathOf(rest[k]) = SubSeq(path, 1, k)
  <2>1. k \in 1 .. n + 1 /\ k <= n
    OBVIOUS
  <2>2. rest[k] = e[k]
    BY <1>8, <2>1
  <2>3. PICK t : t = Ensure(SubSeq(path, 1, k), m) /\ t = rest[k]
    BY <1>4, <2>2
  <2>4. t.op = "ensure" /\ t.market = m /\ t.path = SubSeq(path, 1, k)
    BY <2>3 DEF Ensure
  <2> QED
    BY <2>3, <2>4 DEF PathOf
<1>12. rest[n + 1] = x
  <2>1. n + 1 \in 1 .. n + 1 /\ ~ (n + 1 <= n) /\ n + 1 - n = 1
    OBVIOUS
  <2> QED
    BY <1>8, <1>17, <2>1
<1>13. NextStep(<<>>, rest[1], m)
  <2>1. 1 \in 1 .. n /\ 1 \in 1 .. Len(path)
    BY <1>1
  <2>2. GoesOnFrom(<<>>, SubSeq(path, 1, 1))
    BY <2>1, CutPath
  <2> QED
    BY <1>11, <2>1, <2>2 DEF NextStep
<1>14. ASSUME NEW i \in 2 .. Len(rest) PROVE NextStep(PathOf(rest[i - 1]), rest[i], m)
  <2>1. i \in 2 .. n + 1 /\ i - 1 \in 1 .. n
    BY <1>8
  <2>2. PathOf(rest[i - 1]) = SubSeq(path, 1, i - 1)
    BY <1>11, <2>1
  <2>3. CASE i <= n
    <3>1. i \in 1 .. n /\ i \in 2 .. Len(path)
      BY <1>1, <2>1, <2>3
    <3>2. GoesOnFrom(SubSeq(path, 1, i - 1), SubSeq(path, 1, i))
      BY <3>1, GoesOnNames
    <3> QED
      BY <1>11, <2>2, <3>1, <3>2 DEF NextStep
  <2>4. CASE ~ (i <= n)
    <3>1. i = n + 1 /\ i - 1 = n
      BY <2>1, <2>4
    <3>2. SubSeq(path, 1, i - 1) = path
      BY <1>1, <3>1, SubSeqFull
    <3> QED
      BY <1>12, <2>2, <3>1, <3>2 DEF NextStep
  <2> QED
    BY <2>3, <2>4
<1>15. Follows(<<>>, rest, m)
  BY <1>13, <1>14 DEF Follows
<1>16. Thread(<<>>, steps, <<>>, m)'
  <2>1. FirstStep(<<>>, r, <<>>, m)' /\ PathOf(r) = <<>>
    BY <1>3 DEF FirstStep, PathOf
  <2>2. rest \in Seq(Step)
    BY <1>8
  <2> QED
    BY <1>3, <1>9, <1>15, <2>1, <2>2, ThreadPut
<1> QED
  BY <1>3, <1>10, <1>16

(* The default categories, one after another.                              *)
LEMMA DefaultNames ==
  ASSUME NEW k \in DOMAIN Default
  PROVE  /\ Default[k] \in Path /\ Default[k][1] = RootName
         /\ k > 1 => GoesOnFrom(Default[k - 1], Default[k])
<1>1. Default \in Seq(Path) /\ Len(Default) \in Nat /\ DOMAIN Default = 1 .. Len(Default)
  BY CategoriesAssumption, LenProperties
<1>2. \A j \in DOMAIN Default : Default[j] \in Path /\ Default[j] \in Seq(Named) /\ Len(Default[j]) \in Nat
  BY <1>1, ElementOfSeq, PathSeq
<1>3. ASSUME NEW j \in DOMAIN Default, j > 1
      PROVE  /\ j - 1 \in DOMAIN Default
             /\ Len(Default[j]) \in 2 .. Len(Default[j - 1]) + 1
             /\ SubSeq(Default[j], 1, Len(Default[j]) - 1) = SubSeq(Default[j - 1], 1, Len(Default[j]) - 1)
  <2>1. j \in 2 .. Len(Default) /\ j - 1 \in DOMAIN Default
    BY <1>1, <1>3
  <2>2. /\ Len(Default[j]) \in 2 .. Len(Default[j - 1]) + 1
        /\ Front(Default[j]) = SubSeq(Default[j - 1], 1, Len(Default[j]) - 1)
    BY <2>1, CategoriesAssumption
  <2> QED
    BY <2>1, <2>2 DEF Front
<1>4. ASSUME NEW j \in DOMAIN Default, j > 1, Default[j - 1][1] = RootName
      PROVE  Default[j][1] = RootName
  <2>1. PICK s \in Seq(Named), t \in Seq(Named) : s = Default[j] /\ t = Default[j - 1]
    BY <1>2, <1>3, <1>4
  <2>2. PICK l : l = Len(s)
    OBVIOUS
  <2>3. l \in Nat /\ Len(t) \in Nat /\ l \in 2 .. Len(t) + 1 /\ SubSeq(s, 1, l - 1) = SubSeq(t, 1, l - 1)
    BY <1>3, <1>4, <2>1, <2>2, LenProperties
  <2>4. l - 1 \in 0 .. Len(s) /\ l - 1 \in 0 .. Len(t) /\ 1 \in 1 .. l - 1
    BY <2>2, <2>3
  <2>5. SubSeq(s, 1, l - 1)[1] = s[1] /\ SubSeq(t, 1, l - 1)[1] = t[1]
    BY <2>1, <2>4, Cut
  <2> QED
    BY <1>4, <2>1, <2>3, <2>5
<1>5. ASSUME Default[k][1] # RootName PROVE FALSE
  <2>1. PICK T : T = {j \in DOMAIN Default : Default[j][1] # RootName}
    OBVIOUS
  <2>2. T \subseteq Nat /\ T # {}
    BY <1>1, <1>5, <2>1
  <2>3. PICK j \in T : \A i \in T : j <= i
    BY <2>2, Least
  <2>4. j \in DOMAIN Default /\ Default[j][1] # RootName /\ j \in Nat
    BY <1>1, <2>1, <2>3
  <2>5. j # 1
    BY <2>4, CategoriesAssumption, RootPath
  <2>6. j > 1
    BY <1>1, <2>4, <2>5
  <2>7. j - 1 \notin T
    BY <2>3, <2>4, <2>6
  <2>8. Default[j - 1][1] = RootName
    BY <1>3, <2>1, <2>4, <2>6, <2>7
  <2> QED
    BY <1>4, <2>4, <2>6, <2>8
<1>6. k > 1 => GoesOnFrom(Default[k - 1], Default[k])
  BY <1>2, <1>3 DEF GoesOnFrom
<1> QED
  BY <1>2, <1>5, <1>6

(* The boot begins to seed.                                                *)
LEMMA BeginSeeds ==
  ASSUME NEW w, w = [Nothing EXCEPT !.steps = [k \in DOMAIN Default |-> Upsert(Default[k], NoMarket)]]
  PROVE  w \in [steps : Seq(Step), found : Seq(Id), listing : Nat] /\ Seeding(w)'
<1>1. PICK n \in Nat \ {0} : n = Len(Default) /\ DOMAIN Default = 1 .. n
  BY CategoriesAssumption, EmptySeq, LenProperties
<1>2. PICK steps : steps = [k \in 1 .. n |-> Upsert(Default[k], NoMarket)]
  OBVIOUS
<1>3. ASSUME NEW k \in 1 .. n
      PROVE  /\ steps[k].op = "upsert" /\ steps[k].path = Default[k] /\ steps[k].market = NoMarket
             /\ steps[k] \in Seeds /\ PathOf(steps[k]) = Default[k] /\ Default[k][1] = RootName
             /\ k > 1 => GoesOnFrom(Default[k - 1], Default[k])
  <2>1. steps[k] = Upsert(Default[k], NoMarket) /\ Default[k] \in Path
    BY <1>1, <1>2, DefaultNames
  <2> QED
    BY <1>1, <2>1, DefaultNames DEF Upsert, Seeds, Step, PathOf
<1>4. steps \in Seq(Seeds) /\ Len(steps) = n /\ steps # <<>>
  <2>1. steps \in [1 .. n -> Seeds]
    BY <1>2, <1>3
  <2>2. steps \in Seq(Seeds) /\ Len(steps) = n
    BY <2>1
  <2> QED
    BY <2>2, EmptySeq
<1>5. steps \in Seq(Step)
  BY <1>4, SeedsInStep
<1>6. w.steps = steps /\ w.found = <<>> /\ w \in [steps : Seq(Step), found : Seq(Id), listing : Nat]
  BY <1>1, <1>2, <1>5, EmptySeq DEF Nothing, None
<1>7. /\ Head(steps) = steps[1] /\ Tail(steps) \in Seq(Seeds) /\ Len(Tail(steps)) = n - 1
      /\ \A i \in 1 .. n - 1 : Tail(steps)[i] = steps[i + 1]
  BY <1>4, HeadTailProperties
<1>8. ASSUME NEW k \in 2 .. n PROVE NextStep(PathOf(steps[k - 1]), steps[k], NoMarket)
  <2>1. k \in 1 .. n /\ k - 1 \in 1 .. n /\ k > 1
    BY <1>1
  <2> QED
    BY <1>3, <2>1 DEF NextStep
<1>9. Follows(PathOf(steps[1]), Tail(steps), NoMarket)
  <2>1. ASSUME Tail(steps) # <<>> PROVE NextStep(PathOf(steps[1]), Tail(steps)[1], NoMarket)
    <3>1. n - 1 \in Nat \ {0}
      BY <1>7, <2>1, EmptySeq
    <3>2. 1 \in 1 .. n - 1 /\ 2 \in 2 .. n /\ 1 + 1 = 2 /\ 2 - 1 = 1
      BY <3>1
    <3> QED
      BY <1>7, <1>8, <3>2
  <2>2. ASSUME NEW i \in 2 .. Len(Tail(steps))
        PROVE  NextStep(PathOf(Tail(steps)[i - 1]), Tail(steps)[i], NoMarket)
    <3>1. i \in 1 .. n - 1 /\ i - 1 \in 1 .. n - 1 /\ i + 1 \in 2 .. n /\ i - 1 + 1 = i /\ i + 1 - 1 = i
      BY <1>7
    <3> QED
      BY <1>7, <1>8, <3>1
  <2> QED
    BY <2>1, <2>2 DEF Follows
<1>10. Thread(<<>>, steps, <<>>, NoMarket)'
  <2>1. NextStep(<<>>, steps[1], NoMarket)
    <3>1. 1 \in 1 .. n
      BY <1>1
    <3>2. Default[1] = ROOT
      BY CategoriesAssumption
    <3> QED
      BY <1>3, <3>1, <3>2, RootPath DEF NextStep, NoMarket
  <2>2. FirstStep(<<>>, steps[1], <<>>, NoMarket)'
    BY <2>1 DEF FirstStep
  <2> QED
    BY <1>7, <1>9, <2>2 DEF Thread, FirstStep
<1> QED
  BY <1>4, <1>6, <1>10, LineNothing DEF Seeding

-----------------------------------------------------------------------------
(* Every other action keeps the invariant.                                 *)

(* A command that begins a program of the client.                          *)
LEMMA CommandInvariance ==
  ASSUME IInv, NEW steps, Command(steps),
         NEW w, w = [Nothing EXCEPT !.steps = steps],
         w \in [steps : Seq(Step), found : Seq(Id), listing : Nat], Commanding(w)'
  PROVE  IInv'
<1>1. WorkType /\ TypeOK
  BY IInvFacts
<1>2. work' = [work EXCEPT !["client"] = w]
  BY DEF Command, Begin
<1>3. work' \in [Actor -> [steps : Seq(Step), found : Seq(Id), listing : Nat]]
  BY <1>1, <1>2 DEF WorkType
<1>4. work'["client"] = w /\ work'["boot"] = work["boot"] /\ work'["inbox"] = work["inbox"]
  BY <1>1, <1>2 DEF WorkType, Actor
<1>5. Quiet /\ fate' = fate /\ sent' = sent /\ templates' = templates /\ joined' = joined /\ boot' = boot
        /\ stops' = stops /\ shaken' = shaken
  BY DEF Command, Quiet, references
<1>6. Commanding(work["client"])'
  BY <1>4 DEF Commanding
<1>7. Programs'
  BY <1>3, <1>4, <1>5, <1>6, QuietPrograms
<1>8. QuietFate /\ SentGrown
  BY <1>5, FateStays DEF SentGrown
<1> QED
  BY <1>1, <1>5, <1>7, <1>8, QuietInvariance DEF TypeOK

(* The names of the parent and one more: where the row will fit.           *)
LEMMA CategoryAddInvariance ==
  ASSUME IInv, NEW p \in DOMAIN categories, NEW name \in Name, CategoryAdd(p, name)
  PROVE  IInv'
<1>1. PICK m, g, path : m = categories[p].market /\ g = GetArray(p, Levels) /\ path = Append(g, name)
  OBVIOUS
<1>2. PICK row : row = NewRow(path, m, p)
  OBVIOUS
<1>3. PICK s : s = Insert(path, row)
  OBVIOUS
<1>4. Command(<<s>>) /\ categories' = categories /\ moved' = moved /\ last' = last
  BY <1>1, <1>2, <1>3 DEF CategoryAdd, Command
<1>5. Tree /\ TypeOK /\ Levels \in Nat
  BY IInvFacts, CategoriesAssumption
<1>6. g \in Path /\ g \in Seq(Named) /\ Len(g) \in Nat \ {0}
  BY <1>1, <1>5, ArrayPath, PathSeq
<1>7. path \in Path /\ Len(path) > 1 /\ Len(path) # 1
  <2>1. name \in Named
    BY CategoriesAssumption
  <2>2. path \in Path /\ Len(path) = Len(g) + 1
    BY <1>1, <1>6, <2>1, KeyAppend, AppendProperties
  <2> QED
    BY <1>6, <2>2
<1>15. Last(path) \in Named /\ KeyOf(path) \in Named /\ Len(KeyOf(path)) > 1
  BY <1>7, KeyCut, KeyNamed
<1>8. p \in Given /\ p \in Id /\ m \in Market \cup {NoMarket}
  BY <1>1, <1>5, RowTypes
<1>9. row \in Category /\ row.key = KeyOf(path) /\ row.parent = p
  BY <1>2, <1>8, <1>15 DEF Category, NewRow
<1>10. s \in Step /\ s.op = "insert" /\ s.path = path /\ s.row = row
  BY <1>3, <1>7, <1>9 DEF Insert, Step
<1>11. Steady(p) => FitsBelow(row, p)
  BY <1>1, <1>2, <1>5, AddFits DEF Steady
<1>12. Single(s)
  BY <1>8, <1>9, <1>10, <1>11, <1>15 DEF Single
<1>13. Single(s)'
  <2>1. s.row = row /\ s.row.parent = p /\ s.op = "insert" /\ Len(s.row.key) > 1
    BY <1>9, <1>10, <1>15
  <2>2. Whole' = Whole
    BY <1>4 DEF Whole
  <2>3. Steady(p)' => FitsBelow(row, p)'
    BY <1>4, <1>11, <2>2 DEF Steady, FitsBelow, Ends
  <2>4. p \in Given'
    BY <1>4, <1>8 DEF Given
  <2> QED
    BY <2>1, <2>3, <2>4 DEF Single
<1>14. PICK w : w = [Nothing EXCEPT !.steps = <<s>>]
  OBVIOUS
<1> QED
  BY <1>4, <1>10, <1>13, <1>14, BeginSingle, CommandInvariance

(* A category will be given another name or parent.                        *)
LEMMA CategoryUpdateInvariance ==
  ASSUME IInv, NEW c \in DOMAIN categories, NEW p \in DOMAIN categories, NEW name \in Name,
         CategoryUpdate(c, p, name)
  PROVE  IInv'
<1>1. PICK g, path : g = GetArray(p, Levels) /\ path = Append(g, name)
  OBVIOUS
<1>2. PICK s : s = [op |-> "edit", id |-> c, parent |-> p, path |-> path]
  OBVIOUS
<1>3. Command(<<s>>) /\ last' = last
  BY <1>1, <1>2 DEF CategoryUpdate, Command
<1>4. TypeOK /\ Levels \in Nat
  BY IInvFacts, CategoriesAssumption
<1>5. g \in Path /\ g \in Seq(Named) /\ Len(g) \in Nat \ {0}
  BY <1>1, <1>4, ArrayPath, PathSeq
<1>6. path \in Path /\ Len(path) > 1
  <2>1. name \in Named
    BY CategoriesAssumption
  <2>2. path \in Path /\ Len(path) = Len(g) + 1
    BY <1>1, <1>5, <2>1, KeyAppend, AppendProperties
  <2> QED
    BY <1>5, <2>2
<1>7. c \in Given /\ c \in Id /\ p \in Given /\ p \in Id
  BY <1>4, RowTypes
<1>8. s \in Step /\ Single(s)'
  BY <1>2, <1>3, <1>6, <1>7 DEF Step, Single, Given
<1>9. PICK w : w = [Nothing EXCEPT !.steps = <<s>>]
  OBVIOUS
<1> QED
  BY <1>3, <1>8, <1>9, BeginSingle, CommandInvariance

(* A category will be removed.                                             *)
LEMMA CategoryRemoveInvariance ==
  ASSUME IInv, NEW c \in DOMAIN categories, CategoryRemove(c)
  PROVE  IInv'
<1>1. PICK s : s = [op |-> "remove", id |-> c]
  OBVIOUS
<1>2. Command(<<s>>) /\ c \in Id
  BY <1>1, IInvFacts, RowTypes DEF CategoryRemove
<1>3. s \in Step /\ Single(s)'
  BY <1>1, <1>2 DEF Step, Single
<1>4. PICK w : w = [Nothing EXCEPT !.steps = <<s>>]
  OBVIOUS
<1> QED
  BY <1>2, <1>3, <1>4, BeginSingle, CommandInvariance

(* A template will be filed.                                               *)
LEMMA ItemInformationUpdateInvariance ==
  ASSUME IInv, NEW c \in DOMAIN categories, NEW t \in DOMAIN templates, ItemInformationUpdate(t, c)
  PROVE  IInv'
<1>1. PICK key, m : key = categories[c].key /\ m = categories[c].market
  OBVIOUS
<1>2. PICK s : s = [op |-> "file", template |-> t, key |-> key, market |-> m]
  OBVIOUS
<1>3. Command(<<s>>)
  BY <1>1, <1>2 DEF ItemInformationUpdate
<1>4. key \in Named /\ m \in Market \cup {NoMarket}
  BY <1>1, IInvFacts, RowTypes
<1>5. t \in Nat
  BY LenProperties DEF IInv, TemplateRows
<1>6. s \in Step /\ Single(s)'
  BY <1>2, <1>4, <1>5 DEF Step, Single
<1>7. PICK w : w = [Nothing EXCEPT !.steps = <<s>>]
  OBVIOUS
<1> QED
  BY <1>3, <1>6, <1>7, BeginSingle, CommandInvariance

(* The names loaded with the template will be found or made in the market. *)
LEMMA TemplatePostInvariance ==
  ASSUME IInv, NEW t \in DOMAIN templates, TemplatePost(t)
  PROVE  IInv'
<1>1. PICK m, c : m = templates[t].market /\ c = templates[t].category
  OBVIOUS
<1>2. PICK path : path = GetArray(c, Levels)
  OBVIOUS
<1>3. PICK x : x = [op |-> "send", market |-> m, path |-> path, template |-> t]
  OBVIOUS
<1>4. PICK steps : steps = CreateMarketCategories(m, path) \o <<x>>
  OBVIOUS
<1>5. Command(steps) /\ m # NoMarket /\ c # None /\ joined' = joined
  BY <1>1, <1>2, <1>3, <1>4 DEF TemplatePost, Command
<1>6. TypeOK /\ Levels \in Nat /\ joined \subseteq Market
  BY IInvFacts, CategoriesAssumption
<1>7. m \in joined /\ m \in Market /\ c \in DOMAIN categories
  BY <1>1, <1>5, <1>6 DEF TypeOK, Exists
<1>8. path \in Path
  BY <1>2, <1>6, <1>7, ArrayPath
<1>9. t \in Nat
  BY LenProperties DEF IInv, TemplateRows
<1>10. x \in Step /\ x \in Posts /\ x.op = "send" /\ x.market = m /\ x.path = path
  BY <1>3, <1>7, <1>8, <1>9 DEF Step, Posts
<1>11. Posts \subseteq Step /\ [op |-> "root", market |-> m] \in Posts
  BY <1>7 DEF Posts, Step
<1>12. \A k \in 1 .. Len(path) : Ensure(SubSeq(path, 1, k), m) \in Posts
  <2>1. ASSUME NEW k \in 1 .. Len(path) PROVE Ensure(SubSeq(path, 1, k), m) \in Posts
    <3>1. PICK q \in Path : q = SubSeq(path, 1, k)
      BY <1>8, CutPath
    <3>2. Ensure(q, m) \in Posts
      BY <1>7 DEF Ensure, Posts, Step
    <3> QED
      BY <3>1, <3>2
  <2> QED
    BY <2>1
<1>13. steps \in Seq(Posts) /\ steps # <<>> /\ Thread(<<>>, steps, <<>>, m)'
  <2>1. Begun(Posts, path, m, x, steps)
    BY <1>4, <1>7, <1>8, <1>10, <1>11, <1>12 DEF Begun
  <2> QED
    BY <2>1, BeginNames
<1>14. PICK w : w = [Nothing EXCEPT !.steps = steps]
  OBVIOUS
<1>15. w.steps = steps /\ w.found = <<>> /\ w \in [steps : Seq(Step), found : Seq(Id), listing : Nat]
  <2>1. steps \in Seq(Step)
    BY <1>11, <1>13
  <2> QED
    BY <1>14, <2>1, EmptySeq DEF Nothing, None
<1>16. Commanding(w)'
  <2>1. m \in joined' /\ Posts' = Posts
    BY <1>5, <1>7
  <2> QED
    BY <1>13, <1>15, <2>1, LineNothing DEF Commanding
<1> QED
  BY <1>5, <1>14, <1>15, <1>16, CommandInvariance

(* Programs that go on as they are.                                        *)
LEMMA SamePrograms ==
  ASSUME IInv, Quiet, work' = work
  PROVE  Programs'
BY IInvFacts, QuietPrograms DEF WorkType

(* A template more.                                                        *)
LEMMA TemplateAddInvariance ==
  ASSUME IInv, NEW m \in joined \cup {NoMarket}, NEW c \in DOMAIN categories \cup {None}, TemplateAdd(m, c)
  PROVE  IInv'
<1>1. /\ Quiet /\ work' = work /\ fate' = fate /\ sent' = sent /\ joined' = joined /\ boot' = boot
      /\ stops' = stops /\ shaken' = shaken
      /\ templates' = Append(templates, [market |-> m, category |-> c])
  BY DEF TemplateAdd, Quiet, outside
<1>2. TypeOK /\ SentGrown
  BY <1>1 DEF IInv, SentGrown
<1> QED
  BY <1>1, <1>2, SamePrograms, FateStays, QuietInvariance DEF TypeOK

(* A listing of another seller.                                            *)
LEMMA OtherPostsInvariance ==
  ASSUME IInv, NEW p \in Posted, OtherPosts(p)
  PROVE  IInv'
<1>1. PICK x : x = [market |-> p.market, path |-> p.path, template |-> None]
  OBVIOUS
<1>2. p \in [market : Market, path : Path]
  BY CategoriesAssumption
<1>3. x \in Posted2 /\ x.market \in joined /\ sent' = Append(sent, x)
  BY <1>1, <1>2 DEF OtherPosts, Posted2, None
<1>4. SentGrown
  BY <1>3 DEF SentGrown
<1>5. /\ work' = work /\ fate' = fate /\ joined' = joined /\ boot' = boot /\ stops' = stops
      /\ shaken' = shaken /\ templates' = templates /\ listings' = listings
      /\ UNCHANGED <<categories, last, moved, edited>>
  BY DEF OtherPosts, references
<1>6. Quiet
  BY <1>4, <1>5, SentGrownFacts DEF Quiet
<1>7. TypeOK
  BY DEF IInv
<1> QED
  BY <1>4, <1>5, <1>6, <1>7, SamePrograms, FateStays, QuietInvariance DEF TypeOK

(* A listing less, which counts as shaken if it is being processed.        *)
LEMMA ExpireListingInvariance ==
  ASSUME IInv, NEW n \in DOMAIN listings, ExpireListing(n)
  PROVE  IInv'
<1>1. /\ work' = work /\ fate' = fate /\ sent' = sent /\ joined' = joined /\ boot' = boot
      /\ stops' = stops /\ templates' = templates
      /\ UNCHANGED <<categories, last, moved, edited>>
      /\ listings' = [k \in DOMAIN listings \ {n} |-> listings[k]]
      /\ shaken' = shaken \cup ({n} \cap {work["inbox"].listing})
  BY DEF ExpireListing, outside
<1>2. Quiet
  <2>1. \A k \in DOMAIN listings : k \in DOMAIN listings' \/ k # work["inbox"].listing \/ k \in shaken'
    BY <1>1
  <2> QED
    BY <1>1, <2>1 DEF Quiet
<1>3. TypeOK /\ SentGrown
  BY <1>1 DEF IInv, SentGrown
<1>4. shaken' \subseteq DOMAIN sent
  BY <1>1, <1>3 DEF TypeOK
<1> QED
  BY <1>1, <1>2, <1>3, <1>4, SamePrograms, FateStays, QuietInvariance DEF TypeOK

(* The boot is over, and the default market is joined.                     *)
LEMMA FinishBootInvariance ==
  ASSUME IInv, FinishBoot
  PROVE  IInv'
<1>1. /\ work' = work /\ fate' = fate /\ sent' = sent /\ joined' = joined \cup {Home} /\ boot' = "started"
      /\ stops' = stops /\ templates' = templates /\ shaken' = shaken
      /\ Quiet
  BY DEF FinishBoot, references, Quiet
<1>2. TypeOK /\ SentGrown /\ Home \in Market
  BY <1>1, CategoriesAssumption DEF IInv, SentGrown
<1> QED
  BY <1>1, <1>2, SamePrograms, FateStays, QuietInvariance DEF TypeOK

(* All programs end where they are, and the message is lost.               *)
LEMMA StopInvariance ==
  ASSUME IInv, Stop
  PROVE  IInv'
<1>1. /\ work' = [a \in Actor |-> Nothing] /\ sent' = sent /\ joined' = joined /\ boot' = "up"
      /\ stops < MaxStops /\ stops' = stops + 1 /\ templates' = templates /\ shaken' = shaken
      /\ Quiet
  BY DEF Stop, references, Quiet
<1>2. TypeOK /\ SentGrown
  BY <1>1 DEF IInv, SentGrown
<1>3. stops' \in 0 .. MaxStops
  BY <1>1, <1>2, CategoriesAssumption DEF TypeOK
<1>4. \/ fate' = fate
      \/ \E n \in DOMAIN sent, what \in {"refused", "lost"} : fate' = FateOf(n, what)
  <2>1. ~ Idle("inbox") => work["inbox"].listing \in DOMAIN sent
    BY DEF IInv, Programs
  <2>2. fate' = IF Idle("inbox") THEN fate ELSE FateOf(work["inbox"].listing, "lost")
    BY DEF Stop
  <2> QED
    BY <2>1, <2>2
<1>5. Nothing \in [steps : Seq(Step), found : Seq(Id), listing : Nat] /\ Nothing.steps = <<>> /\ Nothing.found = <<>>
  BY EmptySeq DEF Nothing, None
<1>6. Seeding(work["boot"])'
  <2>1. work'["boot"].steps = <<>> /\ work'["boot"].found = <<>>
    BY <1>1, <1>5 DEF Actor
  <2>2. <<>> \in Seq(Seeds)
    BY EmptySeq
  <2>3. Thread(<<>>, <<>>, <<>>, NoMarket)'
    BY DEF Thread
  <2> QED
    BY <2>1, <2>2, <2>3, LineNothing DEF Seeding
<1>7. work'["client"].steps = <<>> /\ work'["inbox"].steps = <<>>
  BY <1>1, <1>5 DEF Actor
<1>8. Programs'
  BY <1>1, <1>5, <1>6, <1>7, QuietPrograms
<1> QED
  BY <1>1, <1>2, <1>3, <1>4, <1>8, FateStays, QuietInvariance DEF TypeOK

(* The boot begins.                                                        *)
LEMMA SeedDefaultCategoriesInvariance ==
  ASSUME IInv, SeedDefaultCategories
  PROVE  IInv'
<1>1. PICK w : w = [Nothing EXCEPT !.steps = [k \in DOMAIN Default |-> Upsert(Default[k], NoMarket)]]
  OBVIOUS
<1>2. /\ work' = [work EXCEPT !["boot"] = w] /\ fate' = fate /\ sent' = sent /\ joined' = joined
      /\ boot' = "seeding" /\ stops' = stops /\ templates' = templates /\ shaken' = shaken
      /\ Quiet
  BY <1>1 DEF SeedDefaultCategories, Begin, references, Quiet
<1>3. TypeOK /\ SentGrown /\ WorkType
  BY <1>2, IInvFacts DEF SentGrown
<1>4. w \in [steps : Seq(Step), found : Seq(Id), listing : Nat] /\ Seeding(w)'
  BY <1>1, BeginSeeds
<1>5. /\ work' \in [Actor -> [steps : Seq(Step), found : Seq(Id), listing : Nat]]
      /\ work'["boot"] = w /\ work'["client"] = work["client"] /\ work'["inbox"] = work["inbox"]
  BY <1>2, <1>3, <1>4 DEF WorkType, Actor
<1>6. Seeding(work["boot"])'
  BY <1>4, <1>5 DEF Seeding
<1>7. Programs'
  BY <1>2, <1>5, <1>6, QuietPrograms
<1> QED
  BY <1>2, <1>3, <1>7, FateStays, QuietInvariance DEF TypeOK

(* A market is joined; core has joined or not.                             *)
LEMMA MarketAddInvariance ==
  ASSUME IInv, NEW m \in Market, MarketAdd(m)
  PROVE  IInv'
<1>1. PICK steps \in {<<>>, <<Upsert(ROOT, m)>>} : Begin("client", steps)
  BY DEF MarketAdd
<1>2. PICK w : w = [Nothing EXCEPT !.steps = steps]
  OBVIOUS
<1>3. /\ work' = [work EXCEPT !["client"] = w] /\ fate' = fate /\ sent' = sent /\ joined' = joined \cup {m}
      /\ boot' = boot /\ stops' = stops /\ templates' = templates /\ shaken' = shaken
      /\ Quiet
  BY <1>1, <1>2 DEF MarketAdd, Begin, references, Quiet
<1>4. TypeOK /\ SentGrown /\ WorkType
  BY <1>3, IInvFacts DEF SentGrown
<1>5. w \in [steps : Seq(Step), found : Seq(Id), listing : Nat] /\ (w.steps = <<>> \/ Commanding(w)')
  <2>1. CASE steps = <<>>
    <3>1. w.steps = <<>> /\ w \in [steps : Seq(Step), found : Seq(Id), listing : Nat]
      BY <1>2, <2>1, EmptySeq DEF Nothing, None
    <3> QED
      BY <3>1
  <2>2. CASE steps = <<Upsert(ROOT, m)>>
    <3>1. m \in joined' /\ w = [Nothing EXCEPT !.steps = <<Upsert(ROOT, m)>>]
      BY <1>2, <1>3, <2>2
    <3> QED
      BY <3>1, BeginRoot
  <2> QED
    BY <1>1, <2>1, <2>2
<1>6. /\ work' \in [Actor -> [steps : Seq(Step), found : Seq(Id), listing : Nat]]
      /\ work'["client"] = w /\ work'["boot"] = work["boot"] /\ work'["inbox"] = work["inbox"]
  BY <1>3, <1>4, <1>5 DEF WorkType, Actor
<1>7. work'["client"].steps = <<>> \/ Commanding(work["client"])'
  BY <1>5, <1>6 DEF Commanding
<1>8. Programs'
  BY <1>3, <1>6, <1>7, QuietPrograms
<1> QED
  BY <1>3, <1>4, <1>8, FateStays, QuietInvariance DEF TypeOK

(* The steps that file a listing are steps.                                *)
LEMMA FilesAreSteps ==
  ASSUME NEW path \in Path, NEW steps \in Seq(Files(path))
  PROVE  steps \in Seq(Step)
<1>1. Files(path) \subseteq Step
  BY DEF Files, Step
<1> QED
  BY <1>1, SeqMonotonic

(* What a listing starts: the program goes down the names of its path.     *)
LEMMA BeginFiles ==
  ASSUME NEW path \in Path, NEW m \in Market,
         NEW x \in Files(path), x \in Step, x.op = "list", x.market = m, x.path = path,
         NEW steps, steps = CreateMarketCategories(m, path) \o <<x>>
  PROVE  /\ steps \in Seq(Files(path)) /\ steps # <<>> /\ Head(steps).op = "root"
         /\ Thread(<<>>, steps, <<>>, m)'
<1>1. Files(path) \subseteq Step /\ [op |-> "root", market |-> m] \in Files(path)
  BY DEF Files, Step
<1>2. ASSUME NEW k \in 1 .. Len(path) PROVE Ensure(SubSeq(path, 1, k), m) \in Files(path)
  <2>1. PICK q \in Path : q = SubSeq(path, 1, k) /\ q[1] = path[1]
    BY CutPath, ZenonT(60)
  <2>2. Ensure(q, m) \in Files(path)
    BY <2>1 DEF Ensure, Files, Step
  <2> QED
    BY <2>1, <2>2
<1>3. PICK S : S = Files(path)
  OBVIOUS
<1>4. /\ S \subseteq Step /\ x \in S /\ [op |-> "root", market |-> m] \in S
      /\ \A k \in 1 .. Len(path) : Ensure(SubSeq(path, 1, k), m) \in S
  BY <1>1, <1>2, <1>3
<1>5. Begun(S, path, m, x, steps)
  BY <1>4 DEF Begun
<1>6. /\ steps \in Seq(S) /\ steps # <<>> /\ Head(steps).op = "root"
      /\ Thread(<<>>, steps, <<>>, m)'
  BY <1>5, BeginNames
<1> QED
  BY <1>3, <1>6

(* A listing comes in: its names are for finding or making from the ROOT down.*)
LEMMA ReceiveListingInvariance ==
  ASSUME IInv, NEW n \in DOMAIN sent, ReceiveListing(n)
  PROVE  IInv'
<1>1. PICK m, path : m = sent[n].market /\ path = sent[n].path
  OBVIOUS
<1>2. PICK x : x = [op |-> "list", path |-> path, market |-> m]
  OBVIOUS
<1>3. PICK steps : steps = CreateMarketCategories(m, path) \o <<x>>
  OBVIOUS
<1>4. PICK w : w = [[Nothing EXCEPT !.steps = steps] EXCEPT !.listing = n]
  OBVIOUS
<1>5. /\ sent' = sent /\ joined' = joined /\ boot' = boot /\ stops' = stops /\ templates' = templates
      /\ shaken' = shaken /\ categories' = categories /\ Quiet
      /\ \/ fate' = FateOf(n, "refused") /\ work' = work
         \/ fate' = fate /\ work' = [work EXCEPT !["inbox"] = [Nothing EXCEPT !.steps = steps, !.listing = n]]
  BY <1>1, <1>2, <1>3 DEF ReceiveListing, references, outside, Quiet
<1>6. TypeOK /\ SentGrown /\ WorkType
  BY <1>5, IInvFacts DEF SentGrown
<1>7. QuietFate
  BY <1>5, FateStays
<1>8. CASE work' = work
  BY <1>5, <1>6, <1>7, <1>8, SamePrograms, QuietInvariance DEF TypeOK
<1>9. CASE work' = [work EXCEPT !["inbox"] = [Nothing EXCEPT !.steps = steps, !.listing = n]]
  <2>1. m \in Market /\ path \in Path /\ n \in Nat
    BY <1>1, IInvFacts
  <2>2. x \in Step /\ x \in Files(path) /\ x.op = "list" /\ x.market = m /\ x.path = path
    BY <1>2, <2>1 DEF Step, Files
  <2>3. /\ steps \in Seq(Files(path)) /\ steps # <<>> /\ Head(steps).op = "root"
        /\ Thread(<<>>, steps, <<>>, m)'
    BY <1>3, <2>1, <2>2, BeginFiles, ZenonT(60)
  <2>4. /\ w.steps = steps /\ w.found = <<>> /\ w.listing = n
        /\ w = [Nothing EXCEPT !.steps = steps, !.listing = n]
        /\ w \in [steps : Seq(Step), found : Seq(Id), listing : Nat]
    <3>1. steps \in Seq(Step)
      BY <2>1, <2>3, FilesAreSteps
    <3> QED
      BY <1>4, <2>1, <3>1, EmptySeq DEF Nothing
  <2>5. Firm(<<>>, steps, <<>>, m)'
    <3>1. DOMAIN <<>> = {}
      OBVIOUS
    <3> QED
      BY <2>3, <3>1 DEF Firm
  <2>6. Filing(w)'
    <3>1. m = sent'[w.listing].market /\ path = sent'[w.listing].path
      BY <1>1, <1>5, <2>4
    <3>2. Files(path)' = Files(path)
      BY DEF Files
    <3>3. <<>> \in Seq(Named) /\ Line(<<>>, w.found, m)' /\ Thread(<<>>, w.steps, w.found, m)'
      BY <2>3, <2>4, LineNothing
    <3>4. Firm(<<>>, w.steps, w.found, m)'
      BY <2>4, <2>5
    <3>5. w.steps \in Seq(Files(path))'
      BY <2>3, <2>4, <3>2
    <3> QED
      BY <3>1, <3>3, <3>4, <3>5 DEF Filing
  <2>7. /\ work' \in [Actor -> [steps : Seq(Step), found : Seq(Id), listing : Nat]]
        /\ work'["inbox"] = w /\ work'["boot"] = work["boot"] /\ work'["client"] = work["client"]
    BY <1>6, <1>9, <2>4 DEF WorkType, Actor
  <2>8. work'["inbox"].listing \in DOMAIN sent' /\ Filing(work["inbox"])'
    BY <1>5, <2>4, <2>6, <2>7 DEF Filing, Calm
  <2>9. Programs'
    BY <1>5, <2>7, <2>8, QuietPrograms
  <2> QED
    BY <1>5, <1>6, <1>7, <2>9, QuietInvariance DEF TypeOK
<1> QED
  BY <1>5, <1>8, <1>9

-----------------------------------------------------------------------------
(* Before the first boot there are no categories, and nothing is under way. *)
LEMMA InitInvariance ==
  ASSUME Init
  PROVE  IInv
<1>1. /\ categories = <<>> /\ templates = <<>> /\ sent = <<>> /\ listings = <<>> /\ fate = <<>>
      /\ last = 0 /\ stops = 0 /\ joined = {} /\ shaken = {} /\ edited = {} /\ moved = {}
      /\ boot = "up" /\ work = [a \in Actor |-> Nothing]
  BY DEF Init
<1>2. DOMAIN <<>> = {}
  OBVIOUS
<1>3. TypeOK
  BY <1>1, <1>2, CategoriesAssumption DEF TypeOK
<1>4. SentRows /\ TemplateRows
  BY <1>1, EmptySeq DEF SentRows, TemplateRows
<1>5. Rows /\ MovedBelow /\ Keyed
  <2>1. DOMAIN categories \ moved = {}
    BY <1>1, <1>2
  <2>2. Joins(<<>>, categories, {})
    <3>1. <<>> \in [{} -> Named]
      OBVIOUS
    <3> QED
      BY <3>1 DEF Joins
  <2>3. Joins(Whole, categories, {})
    BY <2>1, <2>2 DEF Whole, Joined
  <2> QED
    BY <1>1, <1>2, <2>1, <2>3 DEF Rows, MovedBelow, Keyed, Misnamed, Children
<1>6. Nothing \in [steps : Seq(Step), found : Seq(Id), listing : Nat] /\ Nothing.steps = <<>> /\ Nothing.found = <<>>
  BY EmptySeq DEF Nothing, None
<1>7. Programs
  <2>1. work["boot"].steps = <<>> /\ work["boot"].found = <<>>
    BY <1>1, <1>6 DEF Actor
  <2>2. <<>> \in Seq(Seeds) /\ <<>> \in Seq(Named)
    BY EmptySeq
  <2>3. Thread(<<>>, <<>>, <<>>, NoMarket)
    BY DEF Thread
  <2>4. Line(<<>>, <<>>, NoMarket)
    BY EmptySeq DEF Line
  <2>5. Seeding(work["boot"])
    BY <2>1, <2>2, <2>3, <2>4 DEF Seeding
  <2>6. Idle("client") /\ Idle("inbox")
    BY <1>1, <1>6 DEF Idle, Actor
  <2>7. work \in [Actor -> [steps : Seq(Step), found : Seq(Id), listing : Nat]]
    BY <1>1, <1>6
  <2> QED
    BY <2>5, <2>6, <2>7 DEF Programs
<1>8. Filed /\ StoredUnlessShaken
  BY <1>1, <1>2 DEF Filed, StoredUnlessShaken
<1> QED
  BY <1>3, <1>4, <1>5, <1>7, <1>8 DEF IInv

(* Nothing happens.                                                        *)
LEMMA StutteringInvariance ==
  ASSUME IInv, UNCHANGED vars
  PROVE  IInv'
<1>1. Quiet /\ QuietFate /\ SentGrown /\ work' = work /\ fate' = fate
  <2>1. Quiet /\ fate' = fate /\ SentGrown /\ work' = work
    BY DEF vars, Quiet, SentGrown
  <2> QED
    BY <2>1, FateStays
<1>2. /\ joined' = joined /\ stops' = stops /\ boot' = boot /\ shaken' = shaken /\ templates' = templates
      /\ TypeOK
  BY DEF vars, IInv
<1>3. Programs'
  BY <1>1, SamePrograms
<1> QED
  BY <1>1, <1>2, <1>3, QuietInvariance DEF TypeOK

(* Every step of the specification keeps the invariant.                    *)
LEMMA NextInvariance ==
  ASSUME IInv, [Next]_vars
  PROVE  IInv'
<1>1. CASE \E m \in Market : MarketAdd(m)
  BY <1>1, MarketAddInvariance
<1>2. CASE SeedDefaultCategories
  BY <1>2, SeedDefaultCategoriesInvariance
<1>3. CASE FinishBoot
  BY <1>3, FinishBootInvariance
<1>4. CASE Stop
  BY <1>4, StopInvariance
<1>5. CASE \E c \in DOMAIN categories, name \in Name : CategoryAdd(c, name)
  BY <1>5, CategoryAddInvariance
<1>6. CASE \E c \in DOMAIN categories, parent \in DOMAIN categories, name \in Name : CategoryUpdate(c, parent, name)
  BY <1>6, CategoryUpdateInvariance
<1>7. CASE \E c \in DOMAIN categories : CategoryRemove(c)
  BY <1>7, CategoryRemoveInvariance
<1>8. CASE \E c \in DOMAIN categories, t \in DOMAIN templates : ItemInformationUpdate(t, c)
  BY <1>8, ItemInformationUpdateInvariance
<1>9. CASE \E m \in joined \cup {NoMarket}, c \in DOMAIN categories \cup {None} : TemplateAdd(m, c)
  BY <1>9, TemplateAddInvariance
<1>10. CASE \E t \in DOMAIN templates : TemplatePost(t)
  BY <1>10, TemplatePostInvariance
<1>11. CASE \E p \in Posted : OtherPosts(p)
  BY <1>11, OtherPostsInvariance
<1>12. CASE \E n \in DOMAIN sent : ReceiveListing(n)
  BY <1>12, ReceiveListingInvariance
<1>13. CASE \E n \in DOMAIN listings : ExpireListing(n)
  BY <1>13, ExpireListingInvariance
<1>14. CASE \E a \in Actor : Proceed(a)
  BY <1>14, ProceedInvariance
<1>15. CASE UNCHANGED vars
  BY <1>15, StutteringInvariance
<1> QED
  BY <1>1, <1>2, <1>3, <1>4, <1>5, <1>6, <1>7, <1>8, <1>9, <1>10, <1>11, <1>12, <1>13, <1>14, <1>15 DEF Next

-----------------------------------------------------------------------------
(* The invariant of the categories and of the programs that find, make,    *)
(* move and remove them, for any markets, defaults and bounds.             *)
THEOREM Invariance == Spec => []IInv
<1>1. Init => IInv
  BY InitInvariance
<1>2. IInv /\ [Next]_vars => IInv'
  BY NextInvariance
<1> QED
  BY <1>1, <1>2, PTL DEF Spec

(* Whoever stops, throws or removes in between: parents are there, and so  *)
(* are the categories that templates and listings refer to.                *)
THEOREM TypeCorrect == Spec => []TypeOK
<1>1. IInv => TypeOK
  BY DEF IInv
<1> QED
  BY <1>1, Invariance, PTL

(* A stored listing is in a category of its market, where the names from   *)
(* ROOT down, joined, are those it was sent with, joined, unless the       *)
(* seller updated that category or one above it, or it is below a second   *)
(* ROOT; what was sent without ROOT is where the names end that way.       *)
THEOREM FiledAsSentHolds == Spec => []FiledAsSent
<1>1. IInv => FiledAsSent
  BY FiledByKey
<1> QED
  BY <1>1, Invariance, PTL

(* Processing fails for a listing that was let in and whose names begin    *)
(* with ROOT only if another actor changed the categories, or the listing  *)
(* expired, while it went on.                                              *)
THEOREM StoredUnlessShakenHolds == Spec => []StoredUnlessShaken
<1>1. IInv => StoredUnlessShaken
  BY DEF IInv
<1> QED
  BY <1>1, Invariance, PTL
=============================================================================
