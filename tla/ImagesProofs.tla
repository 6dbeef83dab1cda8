---------------------------- MODULE ImagesProofs ----------------------------
(***************************************************************************)
(* Type correctness and the safety properties of Images, proved for every  *)
(* set of hashes, listings, markets and observers and every bound.  Rows   *)
(* and files are in no transaction, so the invariant speaks of what the    *)
(* actors have still to do: a file that a row names is there, or the actor *)
(* that removed it is about to delete the row; an image that has no        *)
(* original is about to get it or to go; an image that no post shows is    *)
(* about to be linked, by the one message that is processed.               *)
(***************************************************************************)
EXTENDS Images, FiniteSetTheorems, SequenceTheorems, WellFoundedInduction,
  NaturalsInduction, TLAPS

-----------------------------------------------------------------------------
(* Sequences made of sets and of sequences.                                *)

(* A set of numbers has a least one.                                       *)
LEMMA Least ==
  ASSUME NEW T, T \subseteq Nat, T # {}
  PROVE  \E n \in T : \A m \in T : n <= m
<1> DEFINE R == OpToRel(<, Nat)
<1>1. IsWellFoundedOn(R, Nat)
  BY NatLessThanWellFounded
<1>2. \A m, n \in Nat : m < n => <<m, n>> \in R
  BY DEF OpToRel
<1> HIDE DEF R
<1>3. PICK n \in T : \A m \in T : ~ (<<m, n>> \in R)
  BY <1>1, WFMin
<1>4. \A m \in T : ~ (m < n)
  BY <1>2, <1>3
<1>5. \A m \in T : n <= m
  BY <1>4
<1> QED
  BY <1>3, <1>5

(* s lists the elements of S, each once.                                   *)
Lists(s, S) ==
  /\ s \in Seq(S) /\ Len(s) = Cardinality(S)
  /\ \A x \in S : \E n \in 1 .. Len(s) : s[n] = x
  /\ \A m, n \in 1 .. Len(s) : s[m] = s[n] => m = n

(* SetToSeq() lists a finite set.                                          *)
LEMMA SetToSeqLists ==
  ASSUME NEW S, IsFiniteSet(S)
  PROVE  Cardinality(S) \in Nat /\ Lists(SetToSeq(S), S)
<1> DEFINE n == Cardinality(S)
           s == SetToSeq(S)
<1>1. n \in Nat /\ ExistsBijection(1 .. n, S)
  BY FS_CardinalityType
<1>2. PICK f \in Bijection(1 .. n, S) : TRUE
  BY <1>1 DEF ExistsBijection
<1>3. f \in [1 .. n -> S] /\ IsInjective(f)
  BY <1>2 DEF Bijection, Injection
<1>4. s \in [1 .. n -> S] /\ IsInjective(s)
  BY <1>3 DEF SetToSeq
<1>5. s \in Injection(1 .. n, S) /\ IsFiniteSet(1 .. n) /\ Cardinality(1 .. n) = n
  BY <1>1, <1>4, FS_Interval DEF Injection
<1>6. s \in Surjection(1 .. n, S)
  BY <1>5, FS_Injection
<1>7. \A x \in S : \E m \in 1 .. n : s[m] = x
  BY <1>6 DEF Surjection
<1>8. s \in Seq(S) /\ Len(s) = n
  BY <1>1, <1>4
<1>9. \A l, m \in 1 .. n : s[l] = s[m] => l = m
  BY <1>4 DEF IsInjective
<1> HIDE DEF n, s
<1> QED
  BY <1>1, <1>7, <1>8, <1>9 DEF Lists, n, s

(* InOrder() lists a finite set of numbers.                                *)
LEMMA InOrderLists ==
  ASSUME NEW S, S \subseteq Nat, IsFiniteSet(S)
  PROVE  Cardinality(S) \in Nat /\ Lists(InOrder(S), S)
<1> DEFINE n == Cardinality(S)
           s == SetToSeq(S)
           Below(i) == {j \in 1 .. n : s[j] <= s[i]}
           rank == [i \in 1 .. n |-> Cardinality(Below(i))]
<1>1. n \in Nat /\ Lists(s, S)
  BY SetToSeqLists
<1> HIDE DEF s
<1>2. /\ s \in [1 .. n -> S] /\ s \in [1 .. n -> Nat]
      /\ \A l, m \in 1 .. n : s[l] = s[m] => l = m
      /\ \A x \in S : \E l \in 1 .. n : s[l] = x
  <2>1. s \in Seq(S) /\ Len(s) = n
    BY <1>1 DEF Lists
  <2>2. s \in [1 .. n -> S]
    BY <1>1, <2>1
  <2> QED
    BY <1>1, <2>1, <2>2 DEF Lists
<1>3. IsFiniteSet(1 .. n) /\ Cardinality(1 .. n) = n
  BY <1>1, FS_Interval
<1> HIDE DEF n
<1>4. ASSUME NEW i \in 1 .. n PROVE IsFiniteSet(Below(i)) /\ Cardinality(Below(i)) \in 1 .. n
  <2>1. Below(i) \in SUBSET (1 .. n) /\ i \in Below(i)
    BY <1>2
  <2>2. IsFiniteSet(Below(i)) /\ Cardinality(Below(i)) <= n
    BY <1>3, <2>1, FS_Subset
  <2>3. Cardinality(Below(i)) \in Nat /\ Cardinality(Below(i)) # 0
    BY <2>1, <2>2, FS_CardinalityType, FS_EmptySet
  <2> QED
    BY <1>1, <2>2, <2>3
<1>5. ASSUME NEW i \in 1 .. n, NEW j \in 1 .. n, s[i] < s[j] PROVE rank[i] < rank[j]
  <2>1. Below(i) \in SUBSET Below(j) /\ j \in Below(j) /\ j \notin Below(i)
    BY <1>2, <1>5
  <2>2. Cardinality(Below(i)) <= Cardinality(Below(j)) /\ Cardinality(Below(i)) # Cardinality(Below(j))
    <3>1. IsFiniteSet(Below(j))
      BY <1>4
    <3> HIDE DEF Below
    <3> QED
      BY <2>1, <3>1, FS_Subset
  <2> QED
    BY <1>4, <2>2
<1>6. rank \in [1 .. n -> 1 .. n]
  BY <1>4
<1> HIDE DEF rank, Below
<1>7. \A i, j \in 1 .. n : rank[i] = rank[j] => i = j
  <2> SUFFICES ASSUME NEW i \in 1 .. n, NEW j \in 1 .. n, rank[i] = rank[j] PROVE i = j
    OBVIOUS
  <2>1. rank[i] \in Nat /\ ~ (rank[i] < rank[j]) /\ ~ (rank[j] < rank[i])
    BY <1>6
  <2>2. s[i] = s[j]
    BY <1>2, <1>5, <2>1
  <2> QED
    BY <1>2, <2>2
<1>8. rank \in Surjection(1 .. n, 1 .. n)
  <2>1. rank \in Injection(1 .. n, 1 .. n)
    BY <1>6, <1>7 DEF Injection, IsInjective
  <2> QED
    BY <1>3, <2>1, FS_Injection
<1> DEFINE p == [k \in 1 .. n |-> CHOOSE i \in 1 .. n : rank[i] = k]
<1>9. \A k \in 1 .. n : p[k] \in 1 .. n /\ rank[p[k]] = k
  BY <1>8 DEF Surjection
<1>10. \A i \in 1 .. n : p[rank[i]] = i
  BY <1>6, <1>7, <1>9
<1> HIDE DEF p
<1> DEFINE Sorted(r) == \A i, j \in DOMAIN r : i < j => r[i] < r[j]
           q == [k \in 1 .. n |-> s[p[k]]]
           r == CHOOSE t \in [1 .. n -> S] : Sorted(t)
<1>11. q \in [1 .. n -> S] /\ Sorted(q)
  <2> SUFFICES ASSUME NEW i \in 1 .. n, NEW j \in 1 .. n, i < j PROVE s[p[i]] < s[p[j]]
    BY <1>2, <1>9
  <2>1. p[i] \in 1 .. n /\ p[j] \in 1 .. n /\ rank[p[i]] = i /\ rank[p[j]] = j
    BY <1>9
  <2>2. ~ (s[p[j]] < s[p[i]]) /\ p[i] # p[j]
    BY <1>5, <2>1
  <2>3. s[p[i]] # s[p[j]] /\ s[p[i]] \in Nat /\ s[p[j]] \in Nat
    BY <1>2, <2>1, <2>2
  <2> QED
    BY <2>2, <2>3
<1> HIDE DEF q
<1>12. r \in [1 .. n -> S] /\ Sorted(r)
  BY <1>11
<1>13. InOrder(S) = r
  BY DEF InOrder, n
<1> HIDE DEF r
<1>14. \A k, l \in 1 .. n : r[k] = r[l] => k = l
  <2> SUFFICES ASSUME NEW k \in 1 .. n, NEW l \in 1 .. n, r[k] = r[l] PROVE k = l
    OBVIOUS
  <2>1. r[k] \in Nat /\ r[l] \in Nat
    BY <1>12
  <2>2. ~ (r[k] < r[l]) /\ ~ (r[l] < r[k])
    BY <2>1
  <2>3. ~ (k < l) /\ ~ (l < k)
    BY <1>12, <2>2
  <2> QED
    BY <2>3
<1>15. ASSUME NEW x \in S PROVE \E k \in 1 .. n : r[k] = x
  <2> DEFINE f == [k \in 1 .. n |-> r[k]]
  <2>1. f \in Injection(1 .. n, S)
    BY <1>12, <1>14 DEF Injection, IsInjective
  <2>2. f \in Surjection(1 .. n, S)
    BY <1>1, <1>3, <2>1, FS_Injection DEF n
  <2>3. \E k \in 1 .. n : f[k] = x
    BY <2>2 DEF Surjection
  <2> QED
    BY <2>3
<1>16. r \in Seq(S) /\ Len(r) = n
  BY <1>1, <1>12
<1>17. Lists(r, S)
  BY <1>14, <1>15, <1>16 DEF Lists, n
<1> QED
  BY <1>1, <1>13, <1>17 DEF n

(* The concatenation of N sequences of S, one after the other.             *)
Joins(f, seqs, N) ==
  f = [i \in 1 .. N |-> IF i = 1 THEN seqs[i] ELSE f[i - 1] \o seqs[i]]

(* The recursion of FlattenSeq() has a solution.                           *)
LEMMA JoinsExists ==
  ASSUME NEW N \in Nat, NEW seqs
  PROVE  \E f : Joins(f, seqs, N)
<1> DEFINE T == {n \in Nat : ~ \E f : Joins(f, seqs, n)}
<1> SUFFICES ASSUME T # {} PROVE FALSE
  OBVIOUS
<1>1. PICK n \in T : \A m \in T : n <= m
  BY Least
<1>2. n \in Nat /\ ~ \E f : Joins(f, seqs, n)
  BY <1>1
<1>3. CASE n = 0
  <2> DEFINE f == [i \in 1 .. 0 |-> seqs[i]]
  <2>1. Joins(f, seqs, 0)
    BY DEF Joins
  <2> QED
    BY <1>2, <1>3, <2>1
<1>4. CASE n # 0
  <2>1. n - 1 \in Nat /\ ~ (n <= n - 1)
    BY <1>2, <1>4
  <2>2. n - 1 \notin T
    BY <1>1, <2>1
  <2>3. PICK f : Joins(f, seqs, n - 1)
    BY <2>1, <2>2
  <2> DEFINE g == [i \in 1 .. n |-> IF i = n THEN IF n = 1 THEN seqs[n] ELSE f[n - 1] \o seqs[n]
                                   ELSE f[i]]
  <2>4. ASSUME NEW i \in 1 .. n PROVE g[i] = IF i = 1 THEN seqs[i] ELSE g[i - 1] \o seqs[i]
    <3>1. CASE i = n
      <4>1. CASE n = 1
        BY <3>1, <4>1
      <4>2. CASE n # 1
        <5>1. n - 1 \in 1 .. n /\ n - 1 # n
          BY <2>1, <1>2, <4>2
        <5>2. g[n - 1] = f[n - 1]
          BY <5>1
        <5> QED
          BY <3>1, <4>2, <5>2
      <4> QED
        BY <4>1, <4>2
    <3>2. CASE i # n
      <4>1. i \in 1 .. n - 1 /\ g[i] = f[i]
        BY <2>1, <3>2
      <4>2. f[i] = IF i = 1 THEN seqs[i] ELSE f[i - 1] \o seqs[i]
        BY <2>3, <4>1 DEF Joins
      <4>3. i # 1 => i - 1 \in 1 .. n /\ i - 1 # n
        BY <1>2
      <4>4. i # 1 => g[i - 1] = f[i - 1]
        BY <4>3
      <4> QED
        BY <4>1, <4>2, <4>4
    <3> QED
      BY <3>1, <3>2
  <2>5. Joins(g, seqs, n)
    <3> DEFINE G(i) == IF i = 1 THEN seqs[i] ELSE g[i - 1] \o seqs[i]
    <3>1. \A i \in 1 .. n : g[i] = G(i)
      BY <2>4
    <3>2. g = [i \in 1 .. n |-> g[i]]
      OBVIOUS
    <3> HIDE DEF g, G
    <3>3. g = [i \in 1 .. n |-> G(i)]
      BY <3>1, <3>2
    <3> QED
      BY <3>3 DEF Joins, G
  <2> QED
    BY <1>2, <2>5
<1> QED
  BY <1>3, <1>4

-----------------------------------------------------------------------------
(* What programs are made of.                                              *)

OfImage ==
  {"create", "insert", "update", "unlink", "delete", "load", "drop", "refresh", "resize", "link"}
OfFile == {"write", "insert", "update", "unlink", "delete"}
OfPost == {"post", "link", "unlist"}
Whole == {"load", "refresh", "resize"}  \* these become steps when they are reached

Ahead(a) == {work[a][k] : k \in DOMAIN work[a]}

Typed(x) ==
  /\ x.op \in Operation
  /\ x.op \notin {"post", "unlist"} => x.hash \in Hash
  /\ x.op \in OfImage => x.image \in Id /\ x.image <= last
  /\ x.op \in OfPost => x.post \in Id /\ x.post <= last
  /\ x.op \in OfFile => x.version \in ImageVersions
  /\ x.op = "create" => x.row \in ImageRow /\ x.row.hash = x.hash
  /\ x.op \in {"write", "refresh"} => x.data \in {"whole", "small"}
  /\ x.op = "insert" => x.stored \in BOOLEAN
  /\ x.op = "post" => x.target \in Target
  /\ x.op = "unlist" => x.target \in Listing

(* Who does what: only messages and the user's commands bring images, only *)
(* commands make the RESIZED version, and their images have no target.     *)
Duty(a, x) ==
  IF a = "inbox"
  THEN /\ x.op \in {"create", "write", "insert", "unlink", "delete", "refresh", "post", "link"}
       /\ x.op = "insert" => x.version # "RESIZED"
  ELSE IF a = "user"
  THEN /\ x.op \in OfFile \cup {"create", "load", "drop", "resize"}
       /\ x.op = "create" => x.row.owner = Template /\ x.row.target = NoTarget
  ELSE x.op \in {"unlink", "delete", "load", "drop", "unlist"}

Saves(x) == (x.op = "insert" /\ x.stored) \/ x.op = "update"
SameFile(x, y) == x.hash = y.hash /\ x.version = y.version
SameData(x, y) == x.image = y.image /\ x.version = y.version
Drops(x, i) == x.op = "drop" /\ x.image = i
Brings(x, i) == x.op = "insert" /\ x.image = i /\ x.version = "ORIGINAL" /\ x.stored

(* The step at k has its partner next to it: a file is written just before *)
(* its row is saved, and removed just before the row goes or the file is   *)
(* written again.                                                          *)
Paired(s, k) ==
  /\ s[k].op = "write" =>
       k + 1 \in DOMAIN s /\ SameFile(s[k], s[k + 1]) /\ Saves(s[k + 1])
  /\ s[k].op = "unlink" =>
       /\ k + 1 \in DOMAIN s /\ SameFile(s[k], s[k + 1])
       /\ \/ s[k + 1].op = "delete" /\ s[k + 1].image = s[k].image
          \/ /\ s[k + 1].op = "write" /\ k + 2 \in DOMAIN s
             /\ s[k + 2].op = "update" /\ s[k + 2].image = s[k].image
  /\ k > 1 /\ Saves(s[k]) => s[k - 1].op = "write"
  /\ k > 1 /\ s[k].op = "delete" => s[k - 1].op = "unlink"

(* What else the program has: an image that names its target comes alone,  *)
(* operations that are steps only when they are reached come last, and no  *)
(* image is created, no row brought twice.                                 *)
Ordered(s, k) ==
  /\ s[k].op = "create" /\ s[k].row.target # NoTarget =>
       k = 1 /\ \A l \in DOMAIN s : l > 1 => s[l].op \in {"write", "insert"}
  /\ s[k].op = "post" => k = 1
  /\ s[k].op \in Whole => \A l \in DOMAIN s : l > k => s[l].op \in Whole \cup {"unlist"}
  /\ s[k].op = "insert" =>
       \A l \in DOMAIN s : l > k => ~ (s[l].op = "insert" /\ SameData(s[k], s[l]))
  /\ s[k].op = "create" =>
       \A l \in DOMAIN s : l > k => ~ (s[l].op = "create" /\ s[l].image = s[k].image)

(* An original that goes is followed by a new one or by the end of the     *)
(* image, an image that names its target gets its original.                *)
Fulfilled(s, k) ==
  /\ s[k].op = "delete" /\ s[k].version = "ORIGINAL" =>
       \E l \in DOMAIN s : l > k /\ (Brings(s[l], s[k].image) \/ Drops(s[l], s[k].image))
  /\ s[k].op = "create" /\ s[k].row.target # NoTarget =>
       \E l \in DOMAIN s : l > k /\ Brings(s[l], s[k].image)

Formed(s) == \A k \in DOMAIN s : Paired(s, k) /\ Ordered(s, k) /\ Fulfilled(s, k)

Programs ==
  \A a \in Actor :
    /\ work[a] \in Seq(Ahead(a)) /\ Formed(work[a])
    /\ \A x \in Ahead(a) : Typed(x) /\ Duty(a, x)

-----------------------------------------------------------------------------
(* The inductive invariant.                                                *)

(* Steps know the hash of the image they are about.                        *)
SameHash ==
  \A a \in Actor : \A x \in Ahead(a) : x.op \in OfImage =>
    /\ x.image \in DOMAIN images => images[x.image].hash = x.hash
    /\ \A b \in Actor : \A y \in Ahead(b) :
         y.op \in OfImage /\ y.image = x.image => y.hash = x.hash

(* The ids of images and posts to be created are nobody else's.            *)
NewIds ==
  \A a \in Actor : \A x \in Ahead(a) :
    /\ x.op = "create" =>
         /\ x.image \notin DOMAIN images \cup DOMAIN posts
         /\ \A b \in Actor : \A y \in Ahead(b) :
              /\ y.op \in OfImage /\ y.image = x.image => a = b /\ y.op # "refresh"
              /\ y.op = "post" => y.post # x.image
    /\ x.op = "post" => x.post \notin DOMAIN images \cup DOMAIN posts

(* The user's commands and the messages save data of different images, or  *)
(* different versions.                                                     *)
OwnImages ==
  /\ \A x \in Ahead("user") :
       x.op = "insert" /\ x.version # "RESIZED" /\ x.image \in DOMAIN images
         => images[x.image].target = NoTarget
  /\ \A x \in Ahead("inbox") :
       x.op = "refresh" /\ x.image \in DOMAIN images => images[x.image].target # NoTarget

(* An image has one row for a version: what is inserted is not there, or   *)
(* is deleted before, and nobody else inserts it.                          *)
OneRow ==
  /\ IsFiniteSet(datas)
  /\ \A d, e \in datas : SameData(d, e) => d = e
  /\ \A a \in Actor : \A k \in DOMAIN work[a] : work[a][k].op = "insert" =>
       /\ \A d \in datas : SameData(d, work[a][k]) =>
            \E j \in DOMAIN work[a] :
              j < k /\ work[a][j].op = "delete" /\ SameData(d, work[a][j])
       /\ \A b \in Actor : \A y \in Ahead(b) :
            y.op = "insert" /\ SameData(y, work[a][k]) => a = b

AtFile(a, h, v) ==
  /\ work[a] # <<>> /\ work[a][1].op \in OfFile
  /\ work[a][1].hash = h /\ work[a][1].version = v
Saving(a, h, v) == AtFile(a, h, v) /\ Saves(work[a][1])
Deleting(a, h, v) == AtFile(a, h, v) /\ work[a][1].op = "delete"
(* The file of the row is gone: the row goes next, or it is written again. *)
Replacing(a, d, h) ==
  /\ AtFile(a, h, d.version)
  /\ \/ work[a][1].op = "delete" /\ work[a][1].image = d.image
     \/ /\ work[a][1].op = "write" /\ work[a][2].op = "update" /\ work[a][2].image = d.image

(* The rows and the file of an undisturbed hash, and who is between them.  *)
FileOK(h, v) ==
  /\ \A a \in Actor : Saving(a, h, v) => files[h][v] # "none"
  /\ \A a, b \in Actor : Deleting(a, h, v) /\ Deleting(b, h, v) => a = b
  /\ \A d \in RowsFor(h, v) :
       d.stored => files[h][v] # "none" \/ \E a \in Actor : Replacing(a, d, h)
  /\ files[h][v] # "none" => RowsFor(h, v) # {} \/ \E a \in Actor : Saving(a, h, v)
  /\ \A a \in Actor : Deleting(a, h, v) =>
       /\ \E d \in datas : SameData(d, work[a][1])
       /\ files[h][v] # "none" =>
            \/ \E d \in RowsFor(h, v) : d.image # work[a][1].image
            \/ \E b \in Actor : Saving(b, h, v)
Files == \A h \in Hash \ disturbed, v \in ImageVersions : FileOK(h, v)

(* An image that names its target has its original, or gets it.            *)
HasOriginal(i) == \E d \in datas : d.image = i /\ d.version = "ORIGINAL" /\ d.stored
AwaitsOriginal(i) ==
  \E a \in Actor : \E x \in Ahead(a) : Brings(x, i) \/ Drops(x, i)
Originals ==
  \A i \in DOMAIN images :
    images[i].target # NoTarget /\ images[i].hash \notin disturbed
      => HasOriginal(i) \/ AwaitsOriginal(i)

(* One image for a hash that a listing or a market announces.              *)
Targets ==
  /\ \A i \in DOMAIN images : images[i].target # NoTarget =>
       /\ images[i].hash \in Depicts[images[i].target]
       /\ \A j \in DOMAIN images :
            images[i].target = images[j].target /\ images[i].hash = images[j].hash => i = j
  /\ \A x \in Ahead("inbox") : x.op = "create" /\ x.row.target # NoTarget =>
       /\ x.hash \in Depicts[x.row.target]
       /\ \A j \in WithTarget(x.row.target) : images[j].hash # x.hash
       /\ \A p \in DOMAIN posts : p < x.image

(* The post with id p is one of t, or is about to be.                      *)
Posts(p, t) ==
  \/ p \in DOMAIN posts /\ posts[p].hash = t
  \/ \E y \in Ahead("inbox") : y.op = "post" /\ y.post = p /\ y.target = t

(* What the message links to its post.                                     *)
Linking ==
  /\ \A x \in Ahead("inbox") : x.op \in {"post", "link"} =>
       \A p \in DOMAIN posts : p <= x.post
  /\ \A x \in Ahead("inbox") : x.op = "link" =>
       /\ \A y \in Ahead("inbox") : y.op = "post" => y.post = x.post
       /\ \A t \in Target : Posts(x.post, t) =>
            /\ x.image \in DOMAIN images /\ images[x.image].target # NoTarget
                 => images[x.image].target = t
            /\ t \in Market => \A i \in WithTarget(t) : i = x.image
  /\ \A y \in Ahead("inbox") : y.op = "post" =>
       \A i \in WithTarget(y.target) : images[i].hash \notin disturbed =>
         \E x \in Ahead("inbox") : x.op = "link" /\ x.image = i /\ x.post = y.post

(* Images that came before a post are linked to it, to be linked to it, or *)
(* linked to a newer listing with the same hash.                           *)
Linked(i, p) ==
  \/ \E x \in Ahead("inbox") : x.op = "link" /\ x.image = i /\ x.post = p
  \/ /\ posts[p].hash \in Listing /\ images[i].owner \in DOMAIN posts
     /\ images[i].owner >= p /\ posts[images[i].owner].hash = posts[p].hash
  \/ posts[p].hash \in Market /\ posts[p].image = i
Early ==
  \A p \in DOMAIN posts : \A i \in WithTarget(posts[p].hash) :
    i < p /\ images[i].hash \notin disturbed => Linked(i, p)

(* Image i is the post's, or is to become one of its images.               *)
Claims(p, i, h) ==
  \/ i \in DOMAIN images /\ images[i].owner = p /\ images[i].hash = h
  \/ \E x \in Ahead("inbox") :
       /\ \/ x.op = "link" /\ x.post = p
          \/ x.op = "create" /\ x.row.owner = p
       /\ x.image = i /\ x.hash = h
Owners ==
  /\ \A i \in DOMAIN images : images[i].owner \in Id =>
       images[i].owner \in DOMAIN posts /\ posts[images[i].owner].hash \in Listing
  /\ \A p \in DOMAIN posts : posts[p].hash \in Listing => posts[p].image = NoImage
  /\ \A x \in Ahead("inbox") : x.op = "create" /\ x.row.owner \in Id =>
       /\ x.row.owner <= last
       /\ \A t \in Target : Posts(x.row.owner, t) => t \in Listing
  /\ \A p, i, j \in Id : \A h \in Hash : Claims(p, i, h) /\ Claims(p, j, h) => i = j

(* What is said of ids, of hashes and of the posts.                        *)
Identity == SameHash /\ NewIds /\ OwnImages
Announced == Targets /\ Linking /\ Early /\ Owners

IInv ==
  TypeOK /\ Programs /\ Identity /\ OneRow /\ Files /\ Originals /\ Announced
-----------------------------------------------------------------------------
(* Programs that are well formed.                                          *)

(* What is left of a sequence without its first element.                   *)
LEMMA Rest ==
  ASSUME NEW S, NEW s \in Seq(S), s # <<>>
  PROVE  /\ Head(s) = s[1] /\ s[1] \in S /\ 1 \in DOMAIN s /\ Len(s) \in Nat \ {0}
         /\ Tail(s) \in Seq(S) /\ Len(Tail(s)) = Len(s) - 1
         /\ \A k \in DOMAIN Tail(s) : k + 1 \in DOMAIN s /\ Tail(s)[k] = s[k + 1]
         /\ \A k \in DOMAIN s : k > 1 => k - 1 \in DOMAIN Tail(s) /\ Tail(s)[k - 1] = s[k]
<1>1. Head(s) = s[1] /\ s[1] \in S /\ Len(s) \in Nat \ {0} /\ Tail(s) \in Seq(S) /\ Len(Tail(s)) = Len(s) - 1
  BY HeadTailProperties, EmptySeq
<1>2. DOMAIN s = 1 .. Len(s) /\ DOMAIN Tail(s) = 1 .. Len(s) - 1
  BY <1>1
<1>3. \A k \in 1 .. Len(s) - 1 : Tail(s)[k] = s[k + 1]
  BY <1>1, HeadTailProperties
<1>4. ASSUME NEW k \in DOMAIN s, k > 1 PROVE k - 1 \in DOMAIN Tail(s) /\ Tail(s)[k - 1] = s[k]
  <2>1. k - 1 \in 1 .. Len(s) - 1 /\ (k - 1) + 1 = k
    BY <1>1, <1>2, <1>4
  <2> QED
    BY <1>2, <1>3, <2>1
<1>5. \A k \in DOMAIN Tail(s) : k + 1 \in DOMAIN s /\ Tail(s)[k] = s[k + 1]
  BY <1>1, <1>2, <1>3
<1> QED
  BY <1>1, <1>2, <1>4, <1>5

(* The elements of two sequences, one after the other.                     *)
LEMMA Joined ==
  ASSUME NEW S, NEW s \in Seq(S), NEW t \in Seq(S)
  PROVE  /\ s \o t \in Seq(S) /\ Len(s \o t) = Len(s) + Len(t)
         /\ Len(s) \in Nat /\ Len(t) \in Nat
         /\ DOMAIN s = 1 .. Len(s) /\ DOMAIN t = 1 .. Len(t)
         /\ DOMAIN (s \o t) = 1 .. Len(s) + Len(t)
         /\ \A k \in DOMAIN s : k \in DOMAIN (s \o t) /\ (s \o t)[k] = s[k]
         /\ \A k \in DOMAIN t : Len(s) + k \in DOMAIN (s \o t) /\ (s \o t)[Len(s) + k] = t[k]
         /\ \A k \in DOMAIN (s \o t) : k \in DOMAIN s \/ k - Len(s) \in DOMAIN t
<1>1. s \o t \in Seq(S) /\ Len(s \o t) = Len(s) + Len(t) /\ Len(s) \in Nat /\ Len(t) \in Nat
  OBVIOUS
<1>2. DOMAIN s = 1 .. Len(s) /\ DOMAIN t = 1 .. Len(t) /\ DOMAIN (s \o t) = 1 .. Len(s) + Len(t)
  BY <1>1
<1>3. \A k \in 1 .. Len(s) : (s \o t)[k] = s[k]
  OBVIOUS
<1>4. ASSUME NEW k \in 1 .. Len(t) PROVE (s \o t)[Len(s) + k] = t[k]
  OBVIOUS
<1> QED
  BY <1>1, <1>2, <1>3, <1>4

(* A sequence is one of its own elements.                                  *)
LEMMA OfItsOwn ==
  ASSUME NEW S, NEW s \in Seq(S)
  PROVE  /\ s \in Seq({s[k] : k \in DOMAIN s})
         /\ DOMAIN s = 1 .. Len(s) /\ Len(s) \in Nat /\ {s[k] : k \in DOMAIN s} \subseteq S
<1>1. DOMAIN s = 1 .. Len(s) /\ Len(s) \in Nat /\ s = [k \in 1 .. Len(s) |-> s[k]]
  OBVIOUS
<1> DEFINE T == {s[k] : k \in DOMAIN s}
<1>2. \A k \in 1 .. Len(s) : s[k] \in T
  BY <1>1
<1>3. T \subseteq S
  BY <1>1
<1> HIDE DEF T
<1>4. s \in [1 .. Len(s) -> T]
  BY <1>1, <1>2
<1>5. s \in Seq(T)
  BY <1>1, <1>4
<1> QED
  BY <1>1, <1>3, <1>5 DEF T

(* A program whose first step is done is well formed.                      *)
LEMMA FormedTail ==
  ASSUME NEW S, NEW s \in Seq(S), s # <<>>, Formed(s)
  PROVE  Formed(Tail(s))
<1> DEFINE t == Tail(s)
<1>1. /\ DOMAIN s = 1 .. Len(s) /\ DOMAIN t = 1 .. Len(s) - 1 /\ Len(s) \in Nat
      /\ \A k \in DOMAIN t : k \in Nat \ {0} /\ k + 1 \in DOMAIN s /\ k + 1 > 1 /\ t[k] = s[k + 1]
      /\ \A k \in DOMAIN s : k > 1 => k - 1 \in DOMAIN t /\ t[k - 1] = s[k]
  BY Rest
<1> HIDE DEF t
<1> SUFFICES ASSUME NEW k \in DOMAIN t PROVE Paired(t, k) /\ Ordered(t, k) /\ Fulfilled(t, k)
  BY DEF Formed, t
<1>2. Paired(s, k + 1) /\ Ordered(s, k + 1) /\ Fulfilled(s, k + 1)
  BY <1>1 DEF Formed
<1>3. t[k] = s[k + 1] /\ k + 1 \in DOMAIN s /\ k \in Nat \ {0}
  BY <1>1
<1>4. Paired(t, k)
  <2>1. /\ (k + 1) + 1 \in DOMAIN s => k + 1 \in DOMAIN t /\ t[k + 1] = s[(k + 1) + 1]
        /\ (k + 1) + 2 \in DOMAIN s => k + 2 \in DOMAIN t /\ t[k + 2] = s[(k + 1) + 2]
        /\ k > 1 => t[k - 1] = s[(k + 1) - 1] /\ k + 1 > 1
    BY <1>1, <1>3
  <2> QED
    BY <1>2, <1>3, <2>1 DEF Paired
<1>5. Ordered(t, k)
  <2>1. \A l \in DOMAIN t : l > k => l + 1 \in DOMAIN s /\ l + 1 > k + 1 /\ t[l] = s[l + 1]
    BY <1>1, <1>3
  <2>2. s[k + 1].op = "create" => s[k + 1].row.target = NoTarget
    BY <1>2, <1>3 DEF Ordered
  <2>3. s[k + 1].op # "post"
    BY <1>2, <1>3 DEF Ordered
  <2> QED
    BY <1>2, <1>3, <2>1, <2>2, <2>3 DEF Ordered
<1>6. Fulfilled(t, k)
  <2>1. \A l \in DOMAIN s : l > k + 1 => l - 1 \in DOMAIN t /\ l - 1 > k /\ t[l - 1] = s[l]
    BY <1>1, <1>3
  <2> QED
    BY <1>2, <1>3, <2>1 DEF Fulfilled
<1> QED
  BY <1>4, <1>5, <1>6

(* Nothing in s has its partner outside of s.                              *)
Closed(s) ==
  \A k \in DOMAIN s : Paired(s, k) /\ (k = 1 => ~ Saves(s[k]) /\ s[k].op # "delete")

(* Two of these, one after the other, are one.                             *)
LEMMA ClosedJoined ==
  ASSUME NEW S, NEW s \in Seq(S), NEW t \in Seq(S), Closed(s), Closed(t)
  PROVE  Closed(s \o t)
<1> DEFINE u == s \o t
           n == Len(s)
<1>1. /\ n \in Nat /\ Len(t) \in Nat
      /\ DOMAIN s = 1 .. n /\ DOMAIN t = 1 .. Len(t) /\ DOMAIN u = 1 .. n + Len(t)
      /\ \A k \in DOMAIN s : k \in DOMAIN u /\ u[k] = s[k]
      /\ \A k \in DOMAIN t : n + k \in DOMAIN u /\ u[n + k] = t[k]
      /\ \A k \in DOMAIN u : k \in DOMAIN s \/ k - n \in DOMAIN t
  BY Joined
<1> HIDE DEF u, n
<1> SUFFICES ASSUME NEW k \in DOMAIN u
             PROVE  Paired(u, k) /\ (k = 1 => ~ Saves(u[k]) /\ u[k].op # "delete")
  BY DEF Closed, u
<1>2. CASE k \in DOMAIN s
  <2>1. u[k] = s[k] /\ Paired(s, k) /\ (k = 1 => ~ Saves(s[k]) /\ s[k].op # "delete")
    BY <1>1, <1>2 DEF Closed
  <2>2. /\ k + 1 \in DOMAIN s => k + 1 \in DOMAIN u /\ u[k + 1] = s[k + 1]
        /\ k + 2 \in DOMAIN s => k + 2 \in DOMAIN u /\ u[k + 2] = s[k + 2]
        /\ k > 1 => u[k - 1] = s[k - 1]
    BY <1>1, <1>2
  <2> QED
    BY <2>1, <2>2 DEF Paired
<1>3. CASE k \notin DOMAIN s
  <2> DEFINE j == k - n
  <2>1. j \in DOMAIN t /\ u[k] = t[j] /\ j \in Nat \ {0} /\ k = n + j
    BY <1>1, <1>3
  <2>2. Paired(t, j) /\ (j = 1 => ~ Saves(t[j]) /\ t[j].op # "delete")
    BY <2>1 DEF Closed
  <2> HIDE DEF j
  <2>3. /\ j + 1 \in DOMAIN t => k + 1 \in DOMAIN u /\ u[k + 1] = t[j + 1]
        /\ j + 2 \in DOMAIN t => k + 2 \in DOMAIN u /\ u[k + 2] = t[j + 2]
        /\ k = 1 => j = 1
        /\ j > 1 \/ j = 1
    <3>1. k + 1 = n + (j + 1) /\ k + 2 = n + (j + 2)
      BY <1>1, <2>1
    <3> QED
      BY <1>1, <2>1, <3>1
  <2>4. j > 1 => u[k - 1] = t[j - 1]
    <3>1. k - 1 = n + (j - 1) /\ (j > 1 => j - 1 \in DOMAIN t)
      BY <1>1, <2>1, SMTT(30)
    <3> QED
      BY <1>1, <3>1
  <2> QED
    BY <2>1, <2>2, <2>3, <2>4 DEF Paired
<1> QED
  BY <1>2, <1>3

(* The steps of t may come after those of s.                               *)
Compatible(s, t) ==
  \A k \in DOMAIN s, l \in DOMAIN t :
    /\ t[l].op # "post" /\ (t[l].op = "create" => t[l].row.target = NoTarget)
    /\ s[k].op = "create" /\ s[k].row.target # NoTarget => t[l].op \in {"write", "insert"}
    /\ s[k].op \in Whole => t[l].op \in Whole \cup {"unlist"}
    /\ s[k].op = "insert" /\ t[l].op = "insert" => ~ SameData(s[k], t[l])
    /\ s[k].op = "create" /\ t[l].op = "create" => s[k].image # t[l].image

(* Two programs, one after the other, are in order when these are.         *)
LEMMA OrderedJoined ==
  ASSUME NEW S, NEW s \in Seq(S), NEW t \in Seq(S), Compatible(s, t),
         \A k \in DOMAIN s : Ordered(s, k), \A k \in DOMAIN t : Ordered(t, k)
  PROVE  \A k \in DOMAIN (s \o t) : Ordered(s \o t, k)
<1> DEFINE u == s \o t
           n == Len(s)
<1>1. /\ n \in Nat /\ Len(t) \in Nat
      /\ DOMAIN s = 1 .. n /\ DOMAIN t = 1 .. Len(t) /\ DOMAIN u = 1 .. n + Len(t)
      /\ \A k \in DOMAIN s : k \in DOMAIN u /\ u[k] = s[k]
      /\ \A k \in DOMAIN t : n + k \in DOMAIN u /\ u[n + k] = t[k]
      /\ \A k \in DOMAIN u : k \in DOMAIN s \/ k - n \in DOMAIN t
  BY Joined
<1> HIDE DEF u, n
<1> SUFFICES ASSUME NEW k \in DOMAIN u PROVE Ordered(u, k)
  BY DEF u
<1>2. CASE k \in DOMAIN s
  <2>1. u[k] = s[k] /\ Ordered(s, k)
    BY <1>1, <1>2
  <2>2. \A l \in DOMAIN u : \/ l \in DOMAIN s /\ u[l] = s[l]
                            \/ l - n \in DOMAIN t /\ u[l] = t[l - n]
    BY <1>1
  <2>3. \A l \in DOMAIN t :
          /\ s[k].op = "create" /\ s[k].row.target # NoTarget => t[l].op \in {"write", "insert"}
          /\ s[k].op \in Whole => t[l].op \in Whole \cup {"unlist"}
          /\ s[k].op = "insert" /\ t[l].op = "insert" => ~ SameData(s[k], t[l])
          /\ s[k].op = "create" /\ t[l].op = "create" => s[k].image # t[l].image
    BY <1>2 DEF Compatible
  <2> QED
    BY <2>1, <2>2, <2>3 DEF Ordered
<1>3. CASE k \notin DOMAIN s
  <2> DEFINE j == k - n
  <2>1. j \in DOMAIN t /\ u[k] = t[j] /\ j \in Nat \ {0} /\ k = n + j
    BY <1>1, <1>3
  <2>2. Ordered(t, j)
    BY <2>1
  <2>3. \A l \in DOMAIN u : l > k => l - n \in DOMAIN t /\ l - n > j /\ u[l] = t[l - n]
    BY <1>1, <2>1
  <2>4. CASE DOMAIN s = {}
    <3>0. 1 \notin 1 .. n
      BY <1>1, <2>4
    <3>1. n = 0 /\ k = j
      BY <1>1, <2>1, <3>0
    <3>2. \A l \in DOMAIN u : l \in DOMAIN t /\ u[l] = t[l]
      BY <1>1, <3>1
    <3> HIDE DEF j
    <3> QED
      BY <2>1, <2>2, <3>1, <3>2 DEF Ordered
  <2>5. CASE DOMAIN s # {}
    <3>1. t[j].op # "post" /\ (t[j].op = "create" => t[j].row.target = NoTarget)
      BY <2>1, <2>5 DEF Compatible
    <3> HIDE DEF j
    <3> QED
      BY <2>1, <2>2, <2>3, <3>1 DEF Ordered
  <2> QED
    BY <2>4, <2>5
<1> QED
  BY <1>2, <1>3

(* Programs that are complete are complete one after the other.            *)
LEMMA FulfilledJoined ==
  ASSUME NEW S, NEW s \in Seq(S), NEW t \in Seq(S),
         \A k \in DOMAIN s : Fulfilled(s, k), \A k \in DOMAIN t : Fulfilled(t, k)
  PROVE  \A k \in DOMAIN (s \o t) : Fulfilled(s \o t, k)
<1> DEFINE u == s \o t
           n == Len(s)
<1>1. /\ n \in Nat /\ Len(t) \in Nat
      /\ DOMAIN s = 1 .. n /\ DOMAIN t = 1 .. Len(t) /\ DOMAIN u = 1 .. n + Len(t)
      /\ \A k \in DOMAIN s : k \in DOMAIN u /\ u[k] = s[k]
      /\ \A k \in DOMAIN t : n + k \in DOMAIN u /\ u[n + k] = t[k]
      /\ \A k \in DOMAIN u : k \in DOMAIN s \/ k - n \in DOMAIN t
  BY Joined
<1> HIDE DEF u, n
<1> SUFFICES ASSUME NEW k \in DOMAIN u PROVE Fulfilled(u, k)
  BY DEF u
<1>2. CASE k \in DOMAIN s
  <2>1. u[k] = s[k] /\ Fulfilled(s, k)
    BY <1>1, <1>2
  <2> QED
    BY <1>1, <2>1 DEF Fulfilled
<1>3. CASE k \notin DOMAIN s
  <2> DEFINE j == k - n
  <2>1. j \in DOMAIN t /\ u[k] = t[j] /\ j \in Nat \ {0} /\ k = n + j
    BY <1>1, <1>3
  <2>2. Fulfilled(t, j)
    BY <2>1
  <2>3. \A l \in DOMAIN t : l > j => n + l \in DOMAIN u /\ n + l > k /\ u[n + l] = t[l]
    BY <1>1, <2>1
  <2> HIDE DEF j
  <2> QED
    BY <2>1, <2>2, <2>3 DEF Fulfilled
<1> QED
  BY <1>2, <1>3
-----------------------------------------------------------------------------
(* What a step does to the programs.                                       *)

(* Numbers and actors.                                                     *)
LEMMA Numbers ==
  ASSUME TypeOK
  PROVE  /\ last \in Nat /\ last <= MaxRows /\ MaxRows \in Nat /\ Id \subseteq Nat /\ 0 \notin Id
         /\ \A i \in DOMAIN images : i \in Id /\ i \in Nat /\ i <= last /\ images[i] \in ImageRow
         /\ \A p \in DOMAIN posts : /\ p \in Id /\ p \in Nat /\ p <= last /\ p \notin DOMAIN images
                                    /\ posts[p] \in [hash : Target, image : Id \cup {NoImage}]
         /\ "inbox" \in Actor /\ "user" \in Actor
BY ImagesAssumption DEF TypeOK, Id, Actor

(* A step keeps its type while the ids grow.                               *)
LEMMA TypedKept ==
  ASSUME TypeOK, last' \in Nat, last <= last', NEW x, Typed(x)
  PROVE  Typed(x)'
<1>1. last \in Nat /\ Id \subseteq Nat
  BY Numbers
<1>2. \A i \in Id : i <= last => i <= last'
  BY <1>1
<1> QED
  BY <1>2 DEF Typed

(* The first step of a is done.                                            *)
Shift(a) == work[a] # <<>> /\ work' = [work EXCEPT ![a] = Tail(@)]

(* What is left to do when the first step is done, of a and of the others. *)
LEMMA Shifted ==
  ASSUME TypeOK, Programs, NEW a \in Actor, Shift(a), last' = last
  PROVE  /\ DOMAIN work' = Actor /\ Programs'
         /\ Head(work[a]) = work[a][1] /\ 1 \in DOMAIN work[a] /\ work[a][1] \in Ahead(a)
         /\ \A b \in Actor \ {a} : work'[b] = work[b] /\ Ahead(b)' = Ahead(b)
         /\ Ahead(a)' \subseteq Ahead(a) /\ Ahead(a) \subseteq Ahead(a)' \cup {work[a][1]}
         /\ \A b \in Actor : Ahead(b)' \subseteq Ahead(b)
         /\ \A k \in DOMAIN work[a] : k \in Nat \ {0}
         /\ \A k \in DOMAIN work'[a] :
              k \in Nat \ {0} /\ k + 1 \in DOMAIN work[a] /\ work'[a][k] = work[a][k + 1]
         /\ \A k \in DOMAIN work[a] :
              k > 1 => k - 1 \in DOMAIN work'[a] /\ work'[a][k - 1] = work[a][k]
<1>1. DOMAIN work = Actor /\ work[a] \in Seq(Ahead(a)) /\ work[a] # <<>> /\ Formed(work[a])
  BY DEF TypeOK, Programs, Shift
<1>2. DOMAIN work' = Actor /\ work'[a] = Tail(work[a])
  BY <1>1 DEF Shift
<1>3. ASSUME NEW b \in Actor \ {a} PROVE work'[b] = work[b] /\ Ahead(b)' = Ahead(b)
  <2>1. work'[b] = work[b]
    BY <1>1 DEF Shift
  <2> QED
    BY <2>1 DEF Ahead
<1>4. /\ Head(work[a]) = work[a][1] /\ 1 \in DOMAIN work[a] /\ work'[a] \in Seq(Ahead(a))
      /\ \A k \in DOMAIN work'[a] : k + 1 \in DOMAIN work[a] /\ work'[a][k] = work[a][k + 1]
      /\ \A k \in DOMAIN work[a] :
           k > 1 => k - 1 \in DOMAIN work'[a] /\ work'[a][k - 1] = work[a][k]
  BY <1>1, <1>2, Rest
<1>5. /\ work'[a] \in Seq({work'[a][k] : k \in DOMAIN work'[a]})
      /\ DOMAIN work'[a] = 1 .. Len(work'[a]) /\ Len(work'[a]) \in Nat
  BY <1>4, OfItsOwn
<1>6. work'[a] \in Seq(Ahead(a)')
  BY <1>5 DEF Ahead
<1>7. DOMAIN work[a] = 1 .. Len(work[a]) /\ Len(work[a]) \in Nat
  BY <1>1, OfItsOwn
<1>8. Ahead(a)' \subseteq Ahead(a)
  BY <1>4 DEF Ahead
<1>9. Ahead(a) \subseteq Ahead(a)' \cup {work[a][1]}
  <2> SUFFICES ASSUME NEW k \in DOMAIN work[a], k # 1 PROVE work[a][k] \in Ahead(a)'
    BY DEF Ahead
  <2>1. k > 1
    BY <1>7
  <2> QED
    BY <1>4, <2>1 DEF Ahead
<1>10. Formed(work'[a])
  BY <1>1, <1>2, FormedTail
<1>11. work[a][1] \in Ahead(a)
  BY <1>4 DEF Ahead
<1>12. ASSUME NEW b \in Actor
       PROVE  /\ work'[b] \in Seq(Ahead(b)') /\ Formed(work'[b])
              /\ \A x \in Ahead(b)' : Typed(x)' /\ Duty(b, x)
  <2>1. \A x \in Ahead(b) : Typed(x) /\ Duty(b, x)
    BY DEF Programs
  <2>2. Ahead(b)' \subseteq Ahead(b)
    BY <1>3, <1>8
  <2>3. last \in Nat /\ last' \in Nat /\ last <= last'
    BY Numbers
  <2>4. \A x \in Ahead(b) : Typed(x)'
    BY <2>1, <2>3, TypedKept
  <2>5. work'[b] \in Seq(Ahead(b)') /\ Formed(work'[b])
    BY <1>3, <1>6, <1>10 DEF Programs
  <2> QED
    BY <2>1, <2>2, <2>4, <2>5
<1>13. Programs'
  BY <1>12 DEF Programs, Formed, Paired, Ordered, Fulfilled, Duty, SameFile, SameData, Saves, Brings, Drops
<1>14. \A b \in Actor : Ahead(b)' \subseteq Ahead(b)
  BY <1>3, <1>8
<1>15. (\A k \in DOMAIN work[a] : k \in Nat \ {0}) /\ \A k \in DOMAIN work'[a] : k \in Nat \ {0}
  BY <1>5, <1>7
<1> QED
  BY <1>2, <1>3, <1>4, <1>8, <1>9, <1>11, <1>13, <1>14, <1>15

(* The programs of the actors in A are cut off.                            *)
Cut(A) ==
  /\ DOMAIN work' = Actor
  /\ \A b \in Actor : work'[b] = IF b \in A THEN <<>> ELSE work[b]
  /\ disturbed' = disturbed \cup UNION {Touches(work[b]) : b \in A}

(* What is left of them, and what they have left at odds.                  *)
LEMMA CutOff ==
  ASSUME TypeOK, Programs, NEW A \in SUBSET Actor, Cut(A), last' = last
  PROVE  /\ Programs'
         /\ \A b \in Actor : Ahead(b)' = IF b \in A THEN {} ELSE Ahead(b)
         /\ \A b \in Actor : Ahead(b)' \subseteq Ahead(b)
         /\ \A b \in A : \A x \in Ahead(b) : x.op \notin {"post", "unlist"} => x.hash \in disturbed'
<1>1. ASSUME NEW b \in Actor PROVE Ahead(b)' = IF b \in A THEN {} ELSE Ahead(b)
  BY DEF Cut, Ahead
<1>2. ASSUME NEW b \in A, NEW x \in Ahead(b), x.op \notin {"post", "unlist"}
      PROVE  x.hash \in disturbed'
  <2>1. PICK k \in DOMAIN work[b] : x = work[b][k]
    BY DEF Ahead
  <2>2. x.hash \in Hash
    BY <1>2 DEF Programs, Typed
  <2>3. x.hash \in Touches(work[b])
    BY <2>1, <2>2 DEF Touches
  <2> QED
    BY <2>3 DEF Cut
<1>3. ASSUME NEW b \in Actor
      PROVE  /\ work'[b] \in Seq(Ahead(b)') /\ Formed(work'[b])
             /\ \A x \in Ahead(b)' : Typed(x)' /\ Duty(b, x)
  <2>1. CASE b \in A
    <3>1. work'[b] = <<>> /\ Ahead(b)' = {} /\ <<>> \in Seq({}) /\ DOMAIN <<>> = {}
      BY <1>1, <2>1 DEF Cut
    <3> QED
      BY <3>1 DEF Formed
  <2>2. CASE b \notin A
    <3>1. work'[b] = work[b] /\ Ahead(b)' = Ahead(b)
      BY <1>1, <2>2 DEF Cut
    <3>2. last \in Nat /\ last' \in Nat /\ last <= last'
      BY Numbers
    <3> QED
      BY <3>1, <3>2, TypedKept DEF Programs
  <2> QED
    BY <2>1, <2>2
<1>4. Programs'
  BY <1>3 DEF Programs, Formed, Paired, Ordered, Fulfilled, Duty, SameFile, SameData, Saves, Brings, Drops
<1> QED
  BY <1>1, <1>2, <1>4

(* Nothing is added and no row changes: steps are done or given up, rows   *)
(* go, with the images of a post that goes.                                *)
Fewer ==
  /\ \A b \in Actor : Ahead(b)' \subseteq Ahead(b)
  /\ DOMAIN images' \subseteq DOMAIN images /\ \A i \in DOMAIN images' : images'[i] = images[i]
  /\ DOMAIN posts' \subseteq DOMAIN posts /\ \A p \in DOMAIN posts' : posts'[p] = posts[p]
  /\ \A i \in DOMAIN images' : images[i].owner \in Id => images[i].owner \in DOMAIN posts'
  /\ last' = last /\ disturbed \subseteq disturbed'
  /\ \A x \in Ahead("inbox") :
       x.op = "link" => x \in Ahead("inbox")' \/ x.hash \in disturbed'

(* What the invariant says of images, posts and the programs' ids is kept. *)
LEMMA FewerIdentity ==
  ASSUME TypeOK, Identity, Fewer
  PROVE  Identity'
<1>1. SameHash'
  BY DEF SameHash, Identity, Fewer
<1>2. NewIds'
  BY DEF NewIds, Identity, Fewer
<1>3. OwnImages'
  <2>1. "inbox" \in Actor /\ "user" \in Actor
    BY DEF Actor
  <2> QED
    BY <2>1 DEF OwnImages, Identity, Fewer
<1> QED
  BY <1>1, <1>2, <1>3 DEF Identity

(* Of fewer images and posts, what was announced still holds.              *)
LEMMA FewerAnnounced ==
  ASSUME TypeOK, Identity, Announced, Fewer
  PROVE  Announced'
<1>1. "inbox" \in Actor /\ Ahead("inbox")' \subseteq Ahead("inbox")
  BY DEF Actor, Fewer
<1>2. \A t \in Target \cup {NoTarget} : WithTarget(t)' \subseteq WithTarget(t)
  BY DEF WithTarget, Fewer
<1>3. \A p, t : Posts(p, t)' => Posts(p, t)
  BY <1>1 DEF Posts, Fewer
<1>4. Targets'
  <2>1. ASSUME NEW i \in DOMAIN images', images'[i].target # NoTarget
        PROVE  /\ images'[i].hash \in Depicts[images'[i].target]
               /\ \A j \in DOMAIN images' :
                    images'[i].target = images'[j].target /\ images'[i].hash = images'[j].hash => i = j
    BY <2>1 DEF Targets, Announced, Fewer
  <2>2. ASSUME NEW x \in Ahead("inbox")', x.op = "create", x.row.target # NoTarget
        PROVE  /\ x.hash \in Depicts[x.row.target]
               /\ \A j \in WithTarget(x.row.target)' : images'[j].hash # x.hash
               /\ \A p \in DOMAIN posts' : p < x.image
    <3>1. /\ x.hash \in Depicts[x.row.target]
          /\ \A j \in WithTarget(x.row.target) : images[j].hash # x.hash
          /\ \A p \in DOMAIN posts : p < x.image
      BY <1>1, <2>2 DEF Targets, Announced
    <3>2. \A j \in WithTarget(x.row.target)' :
            j \in WithTarget(x.row.target) /\ images'[j].hash = images[j].hash
      BY DEF WithTarget, Fewer
    <3> QED
      BY <3>1, <3>2 DEF Fewer
  <2> QED
    BY <2>1, <2>2 DEF Targets
<1>5. Linking'
  <2>1. ASSUME NEW x \in Ahead("inbox")', x.op \in {"post", "link"}
        PROVE  \A p \in DOMAIN posts' : p <= x.post
    BY <1>1, <2>1 DEF Linking, Announced, Fewer
  <2>2. ASSUME NEW x \in Ahead("inbox")', x.op = "link"
        PROVE  /\ \A y \in Ahead("inbox")' : y.op = "post" => y.post = x.post
               /\ \A t \in Target : Posts(x.post, t)' =>
                    /\ x.image \in DOMAIN images' /\ images'[x.image].target # NoTarget
                         => images'[x.image].target = t
                    /\ t \in Market => \A i \in WithTarget(t)' : i = x.image
    <3>1. /\ \A y \in Ahead("inbox") : y.op = "post" => y.post = x.post
          /\ \A t \in Target : Posts(x.post, t) =>
               /\ x.image \in DOMAIN images /\ images[x.image].target # NoTarget
                    => images[x.image].target = t
               /\ t \in Market => \A i \in WithTarget(t) : i = x.image
      BY <1>1, <2>2 DEF Linking, Announced
    <3> QED
      BY <1>1, <1>2, <1>3, <3>1 DEF Fewer
  <2>3. ASSUME NEW y \in Ahead("inbox")', y.op = "post", NEW i \in WithTarget(y.target)',
               images'[i].hash \notin disturbed'
        PROVE  \E x \in Ahead("inbox")' : x.op = "link" /\ x.image = i /\ x.post = y.post
    <3>1. i \in WithTarget(y.target) /\ i \in DOMAIN images /\ images'[i] = images[i]
      BY DEF WithTarget, Fewer
    <3>2. images[i].hash \notin disturbed
      BY <2>3, <3>1 DEF Fewer
    <3>3. PICK x \in Ahead("inbox") : x.op = "link" /\ x.image = i /\ x.post = y.post
      BY <1>1, <2>3, <3>1, <3>2 DEF Linking, Announced
    <3>4. x.hash = images[i].hash
      BY <1>1, <3>1, <3>3 DEF Identity, SameHash, OfImage
    <3> QED
      BY <2>3, <3>1, <3>3, <3>4 DEF Fewer
  <2> QED
    BY <2>1, <2>2, <2>3 DEF Linking
<1>6. Early'
  <2> SUFFICES ASSUME NEW p \in DOMAIN posts', NEW i \in WithTarget(posts[p].hash)', i < p,
                      images'[i].hash \notin disturbed'
               PROVE  Linked(i, p)'
    BY DEF Early, Fewer
  <2>1. /\ p \in DOMAIN posts /\ posts'[p] = posts[p]
        /\ i \in DOMAIN images' /\ i \in DOMAIN images /\ images'[i] = images[i]
        /\ i \in WithTarget(posts[p].hash) /\ images[i].hash \notin disturbed
    BY DEF WithTarget, Fewer
  <2>2. Linked(i, p)
    BY <2>1 DEF Early, Announced
  <2>3. CASE \E x \in Ahead("inbox") : x.op = "link" /\ x.image = i /\ x.post = p
    <3>1. PICK x \in Ahead("inbox") : x.op = "link" /\ x.image = i /\ x.post = p
      BY <2>3
    <3>2. x.hash = images[i].hash
      BY <1>1, <2>1, <3>1 DEF Identity, SameHash, OfImage
    <3>3. x \in Ahead("inbox")'
      BY <2>1, <3>1, <3>2 DEF Fewer
    <3> QED
      BY <3>1, <3>3 DEF Linked
  <2>4. CASE /\ posts[p].hash \in Listing /\ images[i].owner \in DOMAIN posts
             /\ images[i].owner >= p /\ posts[images[i].owner].hash = posts[p].hash
    <3>1. images[i].owner \in Id
      BY <2>4, Numbers
    <3>2. images[i].owner \in DOMAIN posts' /\ posts'[images[i].owner] = posts[images[i].owner]
      BY <2>1, <3>1 DEF Fewer
    <3> QED
      BY <2>1, <2>4, <3>2 DEF Linked
  <2>5. CASE posts[p].hash \in Market /\ posts[p].image = i
    BY <2>1, <2>5 DEF Linked
  <2> QED
    BY <2>2, <2>3, <2>4, <2>5 DEF Linked
<1>7. Owners'
  <2>1. ASSUME NEW i \in DOMAIN images', images'[i].owner \in Id
        PROVE  images'[i].owner \in DOMAIN posts' /\ posts'[images'[i].owner].hash \in Listing
    <3>1. images'[i] = images[i] /\ i \in DOMAIN images
      BY DEF Fewer
    <3>2. images[i].owner \in DOMAIN posts /\ posts[images[i].owner].hash \in Listing
      BY <2>1, <3>1 DEF Owners, Announced
    <3> QED
      BY <2>1, <3>1, <3>2 DEF Fewer
  <2>2. \A p \in DOMAIN posts' : posts'[p].hash \in Listing => posts'[p].image = NoImage
    BY DEF Owners, Announced, Fewer
  <2>3. ASSUME NEW x \in Ahead("inbox")', x.op = "create", x.row.owner \in Id
        PROVE  x.row.owner <= last' /\ \A t \in Target : Posts(x.row.owner, t)' => t \in Listing
    <3>1. x \in Ahead("inbox") /\ last' = last
      BY <1>1 DEF Fewer
    <3>2. x.row.owner <= last /\ \A t \in Target : Posts(x.row.owner, t) => t \in Listing
      BY <2>3, <3>1 DEF Owners, Announced
    <3> QED
      BY <1>3, <3>1, <3>2
  <2>4. \A p, i, h : Claims(p, i, h)' => Claims(p, i, h)
    BY <1>1 DEF Claims, Fewer
  <2>5. \A p, i, j \in Id : \A h \in Hash : Claims(p, i, h)' /\ Claims(p, j, h)' => i = j
    BY <2>4 DEF Owners, Announced
  <2> QED
    BY <2>1, <2>2, <2>3, <2>5 DEF Owners
<1> QED
  BY <1>4, <1>5, <1>6, <1>7 DEF Announced

(* The first step of a has brought a row for an image.                     *)
Created(a) ==
  LET s == work[a][1]
  IN /\ Shift(a) /\ s.op = "create" /\ s.row.owner \in DOMAIN posts \cup {Template, Nobody}
     /\ images' = [i \in DOMAIN images \cup {s.image} |-> IF i = s.image THEN s.row ELSE images[i]]
     /\ posts' = posts /\ last' = last /\ disturbed' = disturbed

(* The new image, and who has created it.                                  *)
LEMMA NewImage ==
  ASSUME TypeOK, Programs, Identity, NEW a \in Actor, Created(a)
  PROVE  LET s == work[a][1]
         IN /\ s \in Ahead(a) /\ Typed(s) /\ Duty(a, s) /\ s.op = "create" /\ s.image \in Id
            /\ s.row \in ImageRow /\ s.row.hash = s.hash /\ s.image \notin DOMAIN images
            /\ DOMAIN images' = DOMAIN images \cup {s.image} /\ images'[s.image] = s.row
            /\ \A i \in DOMAIN images : i # s.image /\ images'[i] = images[i]
            /\ a \in {"inbox", "user"} /\ (s.row.target # NoTarget \/ s.row.owner \in Id => a = "inbox")
            /\ s.row.target # NoTarget => \A x \in Ahead(a)' : x.op \in {"write", "insert"}
            /\ \A x \in Ahead(a)' : x.op = "create" => x.row.target = NoTarget /\ x.image # s.image
            /\ \A x \in Ahead(a) : x.op # "create" => x \in Ahead(a)'
<1> DEFINE s == work[a][1]
<1>1. /\ s \in Ahead(a) /\ 1 \in DOMAIN work[a]
      /\ Ahead(a) \subseteq Ahead(a)' \cup {s}
      /\ \A k \in DOMAIN work'[a] : k \in Nat \ {0} /\ k + 1 \in DOMAIN work[a] /\ work'[a][k] = work[a][k + 1]
  BY Shifted DEF Created
<1>2. Typed(s) /\ Duty(a, s) /\ Ordered(work[a], 1) /\ s.op = "create"
  BY <1>1 DEF Programs, Formed, Created
<1>3. s.image \in Id /\ s.row \in ImageRow /\ s.row.hash = s.hash /\ s.image \notin DOMAIN images
  BY <1>1, <1>2 DEF Typed, OfImage, Identity, NewIds
<1>4. /\ DOMAIN images' = DOMAIN images \cup {s.image} /\ images'[s.image] = s.row
      /\ \A i \in DOMAIN images : i # s.image /\ images'[i] = images[i]
  BY <1>3 DEF Created
<1>5. a \in {"inbox", "user"} /\ (s.row.target # NoTarget \/ s.row.owner \in Id => a = "inbox")
  <2>1. Template \notin Id
    BY DEF Id, Template
  <2> QED
    BY <1>2, <2>1 DEF Duty
<1>6. ASSUME NEW x \in Ahead(a)'
      PROVE  /\ s.row.target # NoTarget => x.op \in {"write", "insert"}
             /\ x.op = "create" => x.row.target = NoTarget /\ x.image # s.image
  <2>1. PICK k \in DOMAIN work'[a] : x = work'[a][k]
    BY DEF Ahead
  <2>2. k \in Nat \ {0} /\ k + 1 \in DOMAIN work[a] /\ x = work[a][k + 1]
    BY <1>1, <2>1
  <2>3. k + 1 > 1 /\ k + 1 # 1
    BY <2>2
  <2>4. Ordered(work[a], k + 1)
    BY <2>2 DEF Programs, Formed
  <2> QED
    BY <1>2, <2>2, <2>3, <2>4 DEF Ordered
<1>7. \A x \in Ahead(a) : x.op # "create" => x \in Ahead(a)'
  BY <1>1, <1>2
<1> QED
  BY <1>1, <1>2, <1>3, <1>4, <1>5, <1>6, <1>7

(* The new image takes the id and the hash that its program kept for it.   *)
LEMMA CreatedIdentity ==
  ASSUME TypeOK, Programs, Identity, NEW a \in Actor, Created(a)
  PROVE  Identity'
<1> DEFINE s == work[a][1]
<1>1. /\ s \in Ahead(a) /\ s.op = "create" /\ s.row.hash = s.hash /\ s.op \in OfImage
      /\ s.image \notin DOMAIN images
      /\ DOMAIN images' = DOMAIN images \cup {s.image} /\ images'[s.image] = s.row
      /\ \A i \in DOMAIN images : i # s.image /\ images'[i] = images[i]
      /\ \A x \in Ahead(a)' : x.op = "create" => x.image # s.image
      /\ Duty(a, s) /\ a \in {"inbox", "user"}
  <2>1. "create" \in OfImage
    BY DEF OfImage
  <2> QED
    BY <2>1, NewImage
<1>2. (\A b \in Actor : Ahead(b)' \subseteq Ahead(b)) /\ posts' = posts
  BY Shifted DEF Created
<1>3. \A b \in Actor : \A x \in Ahead(b) : /\ x.op \in OfImage /\ x.image = s.image
                                             => a = b /\ x.op # "refresh" /\ x.hash = s.hash
                                           /\ x.op = "post" => x.post # s.image
  BY <1>1 DEF Identity, NewIds, SameHash
<1> HIDE DEF s
<1>4. SameHash'
  BY <1>1, <1>2, <1>3 DEF Identity, SameHash
<1>5. NewIds'
  <2> SUFFICES ASSUME NEW b \in Actor, NEW x \in Ahead(b)'
               PROVE  /\ x.op = "create" =>
                           /\ x.image \notin DOMAIN images' \cup DOMAIN posts'
                           /\ \A c \in Actor : \A y \in Ahead(c)' :
                                /\ y.op \in OfImage /\ y.image = x.image => b = c /\ y.op # "refresh"
                                /\ y.op = "post" => y.post # x.image
                      /\ x.op = "post" => x.post \notin DOMAIN images' \cup DOMAIN posts'
    BY DEF NewIds
  <2>1. x \in Ahead(b)
    BY <1>2
  <2>2. x.op = "create" => x.image # s.image
    BY <1>1, <1>3, <2>1 DEF OfImage
  <2>3. x.op = "post" => x.post # s.image
    BY <1>3, <2>1
  <2> QED
    BY <1>1, <1>2, <2>1, <2>2, <2>3 DEF Identity, NewIds
<1>6. OwnImages'
  <2>1. "inbox" \in Actor /\ "user" \in Actor /\ "insert" \in OfImage /\ "refresh" \in OfImage
    BY DEF Actor, OfImage
  <2>2. a = "user" => images'[s.image].target = NoTarget
    BY <1>1 DEF Duty
  <2> QED
    BY <1>1, <1>2, <1>3, <2>1, <2>2 DEF Identity, OwnImages
<1> QED
  BY <1>4, <1>5, <1>6 DEF Identity

(* The new image is the only one of its hash that its target has.          *)
LEMMA CreatedAnnounced ==
  ASSUME TypeOK, Programs, Identity, Announced, NEW a \in Actor, Created(a)
  PROVE  Announced'
<1> DEFINE s == work[a][1]
<1>1. /\ s \in Ahead(a) /\ s.op = "create" /\ s.row.hash = s.hash /\ s.row \in ImageRow
      /\ s.image \in Id /\ s.image \notin DOMAIN images
      /\ DOMAIN images' = DOMAIN images \cup {s.image} /\ images'[s.image] = s.row
      /\ \A i \in DOMAIN images : i # s.image /\ images'[i] = images[i]
      /\ a \in {"inbox", "user"} /\ (s.row.target # NoTarget \/ s.row.owner \in Id => a = "inbox")
      /\ s.row.target # NoTarget => \A x \in Ahead(a)' : x.op \in {"write", "insert"}
      /\ \A x \in Ahead(a)' : x.op = "create" => x.row.target = NoTarget /\ x.image # s.image
      /\ \A x \in Ahead(a) : x.op # "create" => x \in Ahead(a)'
  BY NewImage
<1>2. /\ \A b \in Actor : Ahead(b)' \subseteq Ahead(b)
      /\ \A b \in Actor \ {a} : Ahead(b)' = Ahead(b)
      /\ posts' = posts /\ last' = last /\ disturbed' = disturbed
  BY Shifted DEF Created
<1>3. s.row.owner \in DOMAIN posts \cup {Template, Nobody}
  BY DEF Created
<1>4. "inbox" \in Actor /\ \A x \in Ahead("inbox") : x.op # "create" => x \in Ahead("inbox")'
  BY <1>1, <1>2 DEF Actor
<1> HIDE DEF s
<1>5. \A t \in Target : WithTarget(t)' = WithTarget(t) \cup {i \in {s.image} : s.row.target = t}
  BY <1>1 DEF WithTarget
<1>6. \A p, t : Posts(p, t)' <=> Posts(p, t)
  <2>1. \A y : y.op = "post" => (y \in Ahead("inbox") <=> y \in Ahead("inbox")')
    BY <1>2, <1>4
  <2> QED
    BY <1>2, <2>1 DEF Posts
<1>7. s.row.target \in Target \cup {NoTarget} /\ s.row.owner \in Id \cup {Template, Nobody} /\ NoTarget \notin Target
  BY <1>1, ImagesAssumption DEF ImageRow
<1>8. s.row.target # NoTarget =>
        /\ s.hash \in Depicts[s.row.target]
        /\ \A j \in WithTarget(s.row.target) : images[j].hash # s.hash
        /\ \A p \in DOMAIN posts : p < s.image
        /\ \A x \in Ahead("inbox")' : x.op \in {"write", "insert"}
  BY <1>1 DEF Announced, Targets
<1>9. Targets'
  <2>1. ASSUME NEW i \in DOMAIN images', images'[i].target # NoTarget
        PROVE  /\ images'[i].hash \in Depicts[images'[i].target]
               /\ \A j \in DOMAIN images' :
                    images'[i].target = images'[j].target /\ images'[i].hash = images'[j].hash => i = j
    <3>1. CASE i = s.image
      <4>1. images'[i] = s.row /\ s.row.target # NoTarget
        BY <1>1, <2>1, <3>1
      <4>2. ASSUME NEW j \in DOMAIN images, images'[j].target = s.row.target PROVE images'[j].hash # s.hash
        <5>1. images'[j] = images[j]
          BY <1>1
        <5>2. j \in WithTarget(s.row.target)
          BY <4>2, <5>1 DEF WithTarget
        <5> QED
          BY <1>8, <4>1, <5>1, <5>2
      <4> QED
        BY <1>1, <1>8, <3>1, <4>1, <4>2
    <3>2. CASE i # s.image
      <4>1. i \in DOMAIN images /\ images'[i] = images[i]
        BY <1>1, <3>2
      <4>2. images[i].target = s.row.target => images[i].hash # s.hash
        BY <1>8, <2>1, <4>1 DEF WithTarget
      <4> QED
        BY <1>1, <2>1, <4>1, <4>2 DEF Announced, Targets
    <3> QED
      BY <3>1, <3>2
  <2>2. ASSUME NEW x \in Ahead("inbox")', x.op = "create", x.row.target # NoTarget
        PROVE  /\ x.hash \in Depicts[x.row.target]
               /\ \A j \in WithTarget(x.row.target)' : images'[j].hash # x.hash
               /\ \A p \in DOMAIN posts' : p < x.image
    <3>1. a # "inbox" /\ x \in Ahead("inbox") /\ s.row.target = NoTarget
      BY <1>1, <1>2, <1>4, <1>8, <2>2
    <3>2. /\ x.hash \in Depicts[x.row.target]
          /\ \A j \in WithTarget(x.row.target) : images[j].hash # x.hash
          /\ \A p \in DOMAIN posts : p < x.image
      BY <2>2, <3>1 DEF Targets, Announced
    <3>3. ASSUME NEW j \in WithTarget(x.row.target)' PROVE images'[j].hash # x.hash
      <4>1. j \in DOMAIN images' /\ images'[j].target # NoTarget
        BY <2>2 DEF WithTarget
      <4>2. j \in DOMAIN images /\ images'[j] = images[j]
        BY <1>1, <3>1, <4>1
      <4>3. j \in WithTarget(x.row.target)
        BY <4>2 DEF WithTarget
      <4> QED
        BY <3>2, <4>2, <4>3
    <3> QED
      BY <1>2, <3>2, <3>3
  <2> QED
    BY <2>1, <2>2 DEF Targets
<1>10. Linking'
  <2>1. ASSUME NEW x \in Ahead("inbox")', x.op \in {"post", "link"}
        PROVE  /\ s.row.target = NoTarget /\ x \in Ahead("inbox")
               /\ \A t \in Target : WithTarget(t)' = WithTarget(t)
    <3>1. s.row.target = NoTarget
      BY <1>8, <2>1
    <3>2. \A t \in Target : WithTarget(t)' = WithTarget(t)
      BY <1>5, <1>7, <3>1
    <3> QED
      BY <1>2, <1>4, <3>1, <3>2
  <2>2. ASSUME NEW x \in Ahead("inbox")', x.op \in {"post", "link"}
        PROVE  \A p \in DOMAIN posts' : p <= x.post
    BY <1>2, <2>1, <2>2 DEF Linking, Announced
  <2>3. ASSUME NEW x \in Ahead("inbox")', x.op = "link"
        PROVE  /\ \A y \in Ahead("inbox")' : y.op = "post" => y.post = x.post
               /\ \A t \in Target : Posts(x.post, t)' =>
                    /\ x.image \in DOMAIN images' /\ images'[x.image].target # NoTarget
                         => images'[x.image].target = t
                    /\ t \in Market => \A i \in WithTarget(t)' : i = x.image
    <3>1. x \in Ahead("inbox") /\ s.row.target = NoTarget /\ \A t \in Target : WithTarget(t)' = WithTarget(t)
      BY <2>1, <2>3
    <3>2. /\ \A y \in Ahead("inbox") : y.op = "post" => y.post = x.post
          /\ \A t \in Target : Posts(x.post, t) =>
               /\ x.image \in DOMAIN images /\ images[x.image].target # NoTarget
                    => images[x.image].target = t
               /\ t \in Market => \A i \in WithTarget(t) : i = x.image
      BY <2>3, <3>1 DEF Linking, Announced
    <3>3. x.image \in DOMAIN images' /\ images'[x.image].target # NoTarget
            => x.image \in DOMAIN images /\ images'[x.image] = images[x.image]
      BY <1>1, <3>1
    <3>4. \A y \in Ahead("inbox")' : y.op = "post" => y.post = x.post
      BY <1>2, <1>4, <3>2
    <3> QED
      BY <1>6, <3>1, <3>2, <3>3, <3>4
  <2>4. ASSUME NEW y \in Ahead("inbox")', y.op = "post", NEW i \in WithTarget(y.target)',
               images'[i].hash \notin disturbed'
        PROVE  \E x \in Ahead("inbox")' : x.op = "link" /\ x.image = i /\ x.post = y.post
    <3>1. y \in Ahead("inbox") /\ \A t \in Target : WithTarget(t)' = WithTarget(t)
      BY <2>1, <2>4
    <3>2. y.target \in Target
      BY <1>4, <2>4, <3>1 DEF Programs, Typed
    <3>3. i \in WithTarget(y.target) /\ i \in DOMAIN images /\ images'[i] = images[i]
      BY <1>1, <3>1, <3>2 DEF WithTarget
    <3>4. PICK x \in Ahead("inbox") : x.op = "link" /\ x.image = i /\ x.post = y.post
      BY <1>2, <2>4, <3>1, <3>3 DEF Linking, Announced
    <3> QED
      BY <1>4, <3>4
  <2> QED
    BY <2>2, <2>3, <2>4 DEF Linking
<1>11. Early'
  <2> SUFFICES ASSUME NEW p \in DOMAIN posts, NEW i \in WithTarget(posts[p].hash)', i < p,
                      images'[i].hash \notin disturbed
               PROVE  Linked(i, p)'
    BY <1>2 DEF Early
  <2>1. posts[p].hash \in Target /\ p \in Nat
    BY Numbers
  <2>2. i # s.image
    <3> SUFFICES ASSUME i = s.image PROVE FALSE
      OBVIOUS
    <3>1. s.row.target = posts[p].hash
      BY <1>1, <1>2 DEF WithTarget
    <3>2. p < i /\ i \in Nat
      BY <1>1, <1>7, <1>8, <2>1, <3>1, Numbers
    <3> QED
      BY <2>1, <3>2
  <2>3. i \in DOMAIN images /\ images'[i] = images[i] /\ i \in WithTarget(posts[p].hash)
    BY <1>1, <1>2, <2>2 DEF WithTarget
  <2>4. Linked(i, p)
    BY <2>3 DEF Early, Announced
  <2> QED
    BY <1>2, <1>4, <2>3, <2>4 DEF Linked
<1>12. Owners'
  <2>1. ASSUME NEW i \in DOMAIN images', images'[i].owner \in Id
        PROVE  images'[i].owner \in DOMAIN posts /\ posts[images'[i].owner].hash \in Listing
    <3>1. CASE i = s.image
      <4>1. s.row.owner \in Id /\ a = "inbox" /\ images'[i].owner = s.row.owner
        BY <1>1, <2>1, <3>1
      <4>2. s.row.owner \in DOMAIN posts
        BY <1>3, <4>1, Numbers DEF Id, Template, Nobody
      <4>3. posts[s.row.owner].hash \in Target
        BY <4>2, Numbers
      <4>4. Posts(s.row.owner, posts[s.row.owner].hash)
        BY <4>2 DEF Posts
      <4>5. posts[s.row.owner].hash \in Listing
        BY <1>1, <4>1, <4>3, <4>4 DEF Owners, Announced
      <4> QED
        BY <4>1, <4>2, <4>5
    <3>2. CASE i # s.image
      BY <1>1, <2>1, <3>2 DEF Owners, Announced
    <3> QED
      BY <3>1, <3>2
  <2>2. ASSUME NEW x \in Ahead("inbox")', x.op = "create", x.row.owner \in Id
        PROVE  x.row.owner <= last /\ \A t \in Target : Posts(x.row.owner, t)' => t \in Listing
    <3>1. x \in Ahead("inbox")
      BY <1>2, <1>4
    <3> QED
      BY <1>6, <2>2, <3>1 DEF Owners, Announced
  <2>3. ASSUME NEW p \in Id, NEW i, NEW h, Claims(p, i, h)' PROVE Claims(p, i, h)
    <3>1. CASE i \in DOMAIN images' /\ images'[i].owner = p /\ images'[i].hash = h
      <4>1. CASE i = s.image
        BY <1>1, <3>1, <4>1 DEF Claims
      <4>2. CASE i # s.image
        BY <1>1, <3>1, <4>2 DEF Claims
      <4> QED
        BY <4>1, <4>2
    <3>2. CASE ~ (i \in DOMAIN images' /\ images'[i].owner = p /\ images'[i].hash = h)
      BY <1>2, <1>4, <2>3, <3>2 DEF Claims
    <3> QED
      BY <3>1, <3>2
  <2>4. \A p, i, j \in Id : \A h \in Hash : Claims(p, i, h)' /\ Claims(p, j, h)' => i = j
    BY <2>3 DEF Owners, Announced
  <2>5. \A p \in DOMAIN posts : posts[p].hash \in Listing => posts[p].image = NoImage
    BY DEF Owners, Announced
  <2> QED
    BY <1>2, <2>1, <2>2, <2>4, <2>5 DEF Owners
<1> QED
  BY <1>9, <1>10, <1>11, <1>12 DEF Announced

(* The first step of the message has brought the listing or the market.    *)
Posted ==
  LET s == work["inbox"][1]
  IN /\ Shift("inbox") /\ s.op = "post"
     /\ posts' = [p \in DOMAIN posts \cup {s.post} |->
                    IF p = s.post THEN [hash |-> s.target, image |-> NoImage] ELSE posts[p]]
     /\ images' = images /\ last' = last /\ disturbed' = disturbed

(* The new post owns the images that its message links or creates.         *)
LEMMA PostedKeeps ==
  ASSUME TypeOK, Programs, Identity, Announced, Posted
  PROVE  Identity' /\ Announced'
<1> DEFINE s == work["inbox"][1]
<1>1. /\ "inbox" \in Actor /\ s \in Ahead("inbox") /\ 1 \in DOMAIN work["inbox"] /\ s.op = "post"
      /\ Ahead("inbox") \subseteq Ahead("inbox")' \cup {s}
      /\ \A b \in Actor : Ahead(b)' \subseteq Ahead(b)
      /\ \A b \in Actor \ {"inbox"} : Ahead(b)' = Ahead(b)
      /\ \A k \in DOMAIN work'["inbox"] :
           k \in Nat \ {0} /\ k + 1 \in DOMAIN work["inbox"] /\ work'["inbox"][k] = work["inbox"][k + 1]
  <2>1. "inbox" \in Actor
    BY DEF Actor
  <2> QED
    BY <2>1, Shifted DEF Posted
<1>2. Typed(s) /\ s.post \in Id /\ s.target \in Target /\ s.post \notin DOMAIN images \cup DOMAIN posts
  BY <1>1 DEF Programs, Typed, OfPost, Identity, NewIds
<1>3. /\ DOMAIN posts' = DOMAIN posts \cup {s.post} /\ posts'[s.post] = [hash |-> s.target, image |-> NoImage]
      /\ \A p \in DOMAIN posts : p # s.post /\ posts'[p] = posts[p]
      /\ images' = images /\ last' = last /\ disturbed' = disturbed
  BY <1>2 DEF Posted
<1>4. ASSUME NEW x \in Ahead("inbox")' PROVE x.op # "post" /\ (x.op = "create" => x.row.target = NoTarget)
  <2>1. PICK k \in DOMAIN work'["inbox"] : x = work'["inbox"][k]
    BY DEF Ahead
  <2>2. k \in Nat \ {0} /\ k + 1 \in DOMAIN work["inbox"] /\ x = work["inbox"][k + 1]
    BY <1>1, <2>1
  <2>3. k + 1 # 1
    BY <2>2
  <2>4. Ordered(work["inbox"], k + 1)
    BY <1>1, <2>2 DEF Programs, Formed
  <2> QED
    BY <2>2, <2>3, <2>4 DEF Ordered
<1>5. \A x \in Ahead("inbox") : x.op # "post" => x \in Ahead("inbox")'
  BY <1>1
<1>6. \A t : WithTarget(t)' = WithTarget(t)
  BY <1>3 DEF WithTarget
<1> HIDE DEF s
<1>7. \A p, t : Posts(p, t)' => Posts(p, t)
  <2> SUFFICES ASSUME NEW p, NEW t, Posts(p, t)' PROVE Posts(p, t)
    OBVIOUS
  <2>1. p \in DOMAIN posts' /\ posts'[p].hash = t
    BY <1>4 DEF Posts
  <2>2. CASE p = s.post
    BY <1>1, <1>3, <2>1, <2>2 DEF Posts
  <2>3. CASE p # s.post
    BY <1>3, <2>1, <2>3 DEF Posts
  <2> QED
    BY <2>2, <2>3
<1>8. Identity'
  <2>1. SameHash'
    BY <1>1, <1>3 DEF SameHash, Identity
  <2>2. NewIds'
    <3>1. \A b \in Actor : \A x \in Ahead(b) : x.op = "create" => x.image # s.post
      BY <1>1 DEF Identity, NewIds
    <3>2. \A b \in Actor \ {"inbox"} : \A x \in Ahead(b) : x.op # "post"
      BY DEF Programs, Duty, OfFile
    <3>3. \A b \in Actor : \A x \in Ahead(b)' : x.op # "post"
      BY <1>1, <1>4, <3>2
    <3> QED
      BY <1>1, <1>3, <3>1, <3>3 DEF Identity, NewIds
  <2>3. OwnImages'
    <3>1. "user" \in Actor
      BY DEF Actor
    <3> QED
      BY <1>1, <1>3, <3>1 DEF Identity, OwnImages
  <2> QED
    BY <2>1, <2>2, <2>3 DEF Identity
<1>9. Targets'
  BY <1>3, <1>4, <1>6 DEF Targets, Announced
<1>10. Linking'
  <2>1. ASSUME NEW x \in Ahead("inbox")', x.op \in {"post", "link"}
        PROVE  \A p \in DOMAIN posts' : p <= x.post
    <3>1. x.op = "link" /\ x \in Ahead("inbox")
      BY <1>1, <1>4, <2>1
    <3>2. s.post = x.post /\ \A p \in DOMAIN posts : p <= x.post
      BY <1>1, <3>1 DEF Linking, Announced
    <3>3. s.post \in Nat
      BY <1>2, Numbers
    <3> QED
      BY <1>3, <3>2, <3>3
  <2>2. ASSUME NEW x \in Ahead("inbox")', x.op = "link"
        PROVE  /\ \A y \in Ahead("inbox")' : y.op = "post" => y.post = x.post
               /\ \A t \in Target : Posts(x.post, t)' =>
                    /\ x.image \in DOMAIN images' /\ images'[x.image].target # NoTarget
                         => images'[x.image].target = t
                    /\ t \in Market => \A i \in WithTarget(t)' : i = x.image
    BY <1>1, <1>3, <1>4, <1>6, <1>7, <2>2 DEF Linking, Announced
  <2> QED
    BY <1>4, <2>1, <2>2 DEF Linking
<1>11. Early'
  <2> SUFFICES ASSUME NEW p \in DOMAIN posts', NEW i \in WithTarget(posts'[p].hash), i < p,
                      images[i].hash \notin disturbed
               PROVE  Linked(i, p)'
    BY <1>3, <1>6 DEF Early
  <2>1. CASE p = s.post
    <3>1. i \in WithTarget(s.target)
      BY <1>3, <2>1
    <3>2. PICK x \in Ahead("inbox") : x.op = "link" /\ x.image = i /\ x.post = s.post
      BY <1>1, <3>1 DEF Linking, Announced
    <3>3. x \in Ahead("inbox")'
      BY <1>5, <3>2
    <3> QED
      BY <2>1, <3>2, <3>3 DEF Linked
  <2>2. CASE p # s.post
    <3>1. p \in DOMAIN posts /\ posts'[p] = posts[p] /\ i \in WithTarget(posts[p].hash)
      BY <1>3, <2>2
    <3>2. Linked(i, p)
      BY <3>1 DEF Early, Announced
    <3> QED
      BY <1>3, <1>5, <3>1, <3>2 DEF Linked
  <2> QED
    BY <2>1, <2>2
<1>12. Owners'
  <2>1. \A p \in DOMAIN posts' : posts'[p].hash \in Listing => posts'[p].image = NoImage
    BY <1>3 DEF Owners, Announced
  <2>2. \A p, i, h : Claims(p, i, h)' => Claims(p, i, h)
    BY <1>1, <1>3 DEF Claims
  <2>3. \A p, i, j \in Id : \A h \in Hash : Claims(p, i, h)' /\ Claims(p, j, h)' => i = j
    BY <2>2 DEF Owners, Announced
  <2>4. ASSUME NEW x \in Ahead("inbox")', x.op = "create", x.row.owner \in Id
        PROVE  x.row.owner <= last' /\ \A t \in Target : Posts(x.row.owner, t)' => t \in Listing
    BY <1>1, <1>3, <1>7, <2>4 DEF Owners, Announced
  <2>5. ASSUME NEW i \in DOMAIN images', images'[i].owner \in Id
        PROVE  images'[i].owner \in DOMAIN posts' /\ posts'[images'[i].owner].hash \in Listing
    BY <1>3, <2>5 DEF Owners, Announced
  <2> QED
    BY <2>1, <2>3, <2>4, <2>5 DEF Owners
<1> QED
  BY <1>8, <1>9, <1>10, <1>11, <1>12 DEF Announced

(* The first step of the message has linked an image to its post.          *)
LinkedOne ==
  LET s == work["inbox"][1]
  IN /\ Shift("inbox") /\ s.op = "link" /\ s.image \in DOMAIN images /\ s.post \in DOMAIN posts
     /\ images' = IF posts[s.post].hash \in Listing
                  THEN [images EXCEPT ![s.image].owner = s.post] ELSE images
     /\ posts' = IF posts[s.post].hash \in Listing
                 THEN posts ELSE [posts EXCEPT ![s.post].image = s.image]
     /\ last' = last /\ disturbed' = disturbed

(* A link gives the post an image of its own, and no second one.           *)
LEMMA LinkedKeeps ==
  ASSUME TypeOK, Programs, Identity, Announced, LinkedOne
  PROVE  Identity' /\ Announced'
<1> DEFINE s == work["inbox"][1]
           listing == posts[s.post].hash \in Listing
<1>1. /\ "inbox" \in Actor /\ s \in Ahead("inbox") /\ 1 \in DOMAIN work["inbox"] /\ s.op = "link"
      /\ Ahead("inbox") \subseteq Ahead("inbox")' \cup {s}
      /\ \A b \in Actor : Ahead(b)' \subseteq Ahead(b)
      /\ \A k \in DOMAIN work'["inbox"] :
           k \in Nat \ {0} /\ k + 1 \in DOMAIN work["inbox"] /\ work'["inbox"][k] = work["inbox"][k + 1]
  <2>1. "inbox" \in Actor
    BY DEF Actor
  <2> QED
    BY <2>1, Shifted DEF LinkedOne
<1>2. s.image \in DOMAIN images /\ s.post \in DOMAIN posts /\ s.hash = images[s.image].hash
  BY <1>1 DEF LinkedOne, Identity, SameHash, OfImage
<1>3. /\ DOMAIN images' = DOMAIN images
      /\ \A i \in DOMAIN images : images'[i].hash = images[i].hash /\ images'[i].target = images[i].target
      /\ \A i \in DOMAIN images : i # s.image \/ ~ listing => images'[i].owner = images[i].owner
      /\ listing => images'[s.image].owner = s.post
  <2>1. images[s.image] \in ImageRow
    BY <1>2, Numbers
  <2> QED
    BY <1>2, <2>1 DEF LinkedOne, ImageRow
<1>4. /\ DOMAIN posts' = DOMAIN posts
      /\ \A p \in DOMAIN posts : posts'[p].hash = posts[p].hash
      /\ \A p \in DOMAIN posts : p # s.post \/ listing => posts'[p].image = posts[p].image
      /\ ~ listing => posts'[s.post].image = s.image
      /\ last' = last /\ disturbed' = disturbed
  <2>1. posts[s.post] \in [hash : Target, image : Id \cup {NoImage}]
    BY <1>2, Numbers
  <2> QED
    BY <1>2, <2>1 DEF LinkedOne
<1>5. ASSUME NEW x \in Ahead("inbox")' PROVE x.op # "post"
  <2>1. PICK k \in DOMAIN work'["inbox"] : x = work'["inbox"][k]
    BY DEF Ahead
  <2>2. k \in Nat \ {0} /\ k + 1 \in DOMAIN work["inbox"] /\ x = work["inbox"][k + 1]
    BY <1>1, <2>1
  <2>3. k + 1 # 1
    BY <2>2
  <2>4. Ordered(work["inbox"], k + 1)
    BY <1>1, <2>2 DEF Programs, Formed
  <2> QED
    BY <2>2, <2>3, <2>4 DEF Ordered
<1>6. \A t : WithTarget(t)' = WithTarget(t)
  BY <1>3 DEF WithTarget
<1>7. \A p, t : Posts(p, t)' => Posts(p, t)
  BY <1>1, <1>4 DEF Posts
<1>8. LET t == posts[s.post].hash
      IN /\ t \in Target
         /\ images[s.image].target # NoTarget => images[s.image].target = t
         /\ t \in Market => \A i \in WithTarget(t) : i = s.image
         /\ \A p \in DOMAIN posts : p <= s.post
  <2> DEFINE t == posts[s.post].hash
  <2>1. t \in Target /\ Posts(s.post, t)
    BY <1>2, Numbers DEF Posts
  <2> HIDE DEF t
  <2>2. /\ images[s.image].target # NoTarget => images[s.image].target = t
        /\ t \in Market => \A i \in WithTarget(t) : i = s.image
        /\ \A p \in DOMAIN posts : p <= s.post
    BY <1>1, <1>2, <2>1 DEF Linking, Announced
  <2> QED
    BY <2>1, <2>2 DEF t
<1> HIDE DEF s, listing
<1>9. Identity'
  <2>1. "user" \in Actor
    BY DEF Actor
  <2>2. SameHash'
    BY <1>1, <1>3 DEF SameHash, Identity
  <2>3. NewIds'
    BY <1>1, <1>3, <1>4 DEF NewIds, Identity
  <2>4. OwnImages'
    BY <1>1, <1>3, <2>1 DEF OwnImages, Identity
  <2> QED
    BY <2>2, <2>3, <2>4 DEF Identity
<1>10. Targets'
  <2>1. ASSUME NEW x \in Ahead("inbox")', x.op = "create", x.row.target # NoTarget
        PROVE  /\ x.hash \in Depicts[x.row.target]
               /\ \A j \in WithTarget(x.row.target)' : images'[j].hash # x.hash
               /\ \A p \in DOMAIN posts' : p < x.image
    <3>1. /\ x.hash \in Depicts[x.row.target]
          /\ \A j \in WithTarget(x.row.target) : images[j].hash # x.hash
          /\ \A p \in DOMAIN posts : p < x.image
      BY <1>1, <2>1 DEF Targets, Announced
    <3>2. \A j \in WithTarget(x.row.target) : images'[j].hash = images[j].hash
      BY <1>3 DEF WithTarget
    <3> QED
      BY <1>4, <1>6, <3>1, <3>2
  <2> QED
    BY <1>3, <2>1 DEF Targets, Announced
<1>11. Linking'
  <2>1. ASSUME NEW x \in Ahead("inbox")', x.op \in {"post", "link"}
        PROVE  \A p \in DOMAIN posts' : p <= x.post
    BY <1>1, <1>4, <2>1 DEF Linking, Announced
  <2>2. ASSUME NEW x \in Ahead("inbox")', x.op = "link"
        PROVE  /\ \A y \in Ahead("inbox")' : y.op = "post" => y.post = x.post
               /\ \A t \in Target : Posts(x.post, t)' =>
                    /\ x.image \in DOMAIN images' /\ images'[x.image].target # NoTarget
                         => images'[x.image].target = t
                    /\ t \in Market => \A i \in WithTarget(t)' : i = x.image
    BY <1>1, <1>3, <1>5, <1>6, <1>7, <2>2 DEF Linking, Announced
  <2> QED
    BY <1>5, <2>1, <2>2 DEF Linking
<1>12. Early'
  <2> SUFFICES ASSUME NEW p \in DOMAIN posts, NEW i \in WithTarget(posts[p].hash), i < p,
                      images[i].hash \notin disturbed
               PROVE  Linked(i, p)'
    <3>1. \A i \in DOMAIN images : images'[i].hash = images[i].hash
      BY <1>3
    <3>2. \A t : \A i \in WithTarget(t) : i \in DOMAIN images
      BY DEF WithTarget
    <3> QED
      BY <1>4, <1>6, <3>1, <3>2 DEF Early
  <2>1. Linked(i, p) /\ i \in DOMAIN images /\ images[i].target = posts[p].hash /\ p \in Nat
    BY Numbers DEF Early, Announced, WithTarget
  <2>2. posts[p].hash \in Target /\ NoTarget \notin Target /\ Listing \cap Market = {}
        /\ Target = Listing \cup Market
    BY Numbers, ImagesAssumption DEF Target
  <2>3. CASE listing /\ i = s.image
    <3>1. posts[s.post].hash = posts[p].hash /\ p <= s.post /\ s.post \in Nat
      BY <1>2, <1>8, <2>1, <2>2, <2>3, Numbers
    <3>2. /\ images'[i].owner = s.post /\ s.post \in DOMAIN posts' /\ s.post >= p
          /\ posts'[s.post].hash = posts'[p].hash /\ posts'[p].hash \in Listing
      BY <1>2, <1>3, <1>4, <2>1, <2>3, <3>1 DEF listing
    <3> QED
      BY <3>2 DEF Linked
  <2>4. CASE ~ listing /\ p = s.post
    <3>1. posts[p].hash \in Market /\ i = s.image
      BY <1>8, <2>2, <2>4 DEF listing
    <3> QED
      BY <1>4, <2>4, <3>1 DEF Linked
  <2>5. CASE ~ (listing /\ i = s.image) /\ ~ (~ listing /\ p = s.post)
    <3>1. images'[i].owner = images[i].owner /\ posts'[p].image = posts[p].image
      BY <1>3, <1>4, <2>1, <2>5
    <3>2. CASE \E x \in Ahead("inbox") : x.op = "link" /\ x.image = i /\ x.post = p
      <4>1. PICK x \in Ahead("inbox") : x.op = "link" /\ x.image = i /\ x.post = p
        BY <3>2
      <4>2. x # s
        BY <2>5, <4>1
      <4> QED
        BY <1>1, <4>1, <4>2 DEF Linked
    <3>3. CASE ~ \E x \in Ahead("inbox") : x.op = "link" /\ x.image = i /\ x.post = p
      BY <1>4, <2>1, <3>1, <3>3 DEF Linked
    <3> QED
      BY <3>2, <3>3
  <2> QED
    BY <2>3, <2>4, <2>5
<1>13. Owners'
  <2>1. ASSUME NEW i \in DOMAIN images', images'[i].owner \in Id
        PROVE  images'[i].owner \in DOMAIN posts' /\ posts'[images'[i].owner].hash \in Listing
    <3>1. CASE listing /\ i = s.image
      BY <1>2, <1>3, <1>4, <3>1 DEF listing
    <3>2. CASE ~ (listing /\ i = s.image)
      BY <1>3, <1>4, <2>1, <3>2 DEF Owners, Announced
    <3> QED
      BY <3>1, <3>2
  <2>2. \A p \in DOMAIN posts' : posts'[p].hash \in Listing => posts'[p].image = NoImage
    BY <1>4 DEF Owners, Announced, listing
  <2>3. ASSUME NEW x \in Ahead("inbox")', x.op = "create", x.row.owner \in Id
        PROVE  x.row.owner <= last' /\ \A t \in Target : Posts(x.row.owner, t)' => t \in Listing
    BY <1>1, <1>4, <1>7, <2>3 DEF Owners, Announced
  <2>4. ASSUME NEW p, NEW i, NEW h, Claims(p, i, h)' PROVE Claims(p, i, h)
    <3>1. CASE i \in DOMAIN images' /\ images'[i].owner = p /\ images'[i].hash = h
      <4>1. CASE listing /\ i = s.image
        BY <1>1, <1>2, <1>3, <3>1, <4>1 DEF Claims
      <4>2. CASE ~ (listing /\ i = s.image)
        BY <1>3, <3>1, <4>2 DEF Claims
      <4> QED
        BY <4>1, <4>2
    <3>2. CASE ~ (i \in DOMAIN images' /\ images'[i].owner = p /\ images'[i].hash = h)
      BY <1>1, <2>4, <3>2 DEF Claims
    <3> QED
      BY <3>1, <3>2
  <2>5. \A p, i, j \in Id : \A h \in Hash : Claims(p, i, h)' /\ Claims(p, j, h)' => i = j
    BY <2>4 DEF Owners, Announced
  <2> QED
    BY <2>1, <2>2, <2>3, <2>5 DEF Owners
<1> QED
  BY <1>9, <1>10, <1>11, <1>12, <1>13 DEF Announced
-----------------------------------------------------------------------------
(* One row for a version of an image.                                      *)

(* A step is done, rows may have gone: what it had to delete has gone.     *)
LEMMA OneRowShifted ==
  ASSUME TypeOK, Programs, OneRow, NEW a \in Actor, Shift(a), last' = last, datas' \subseteq datas,
         work[a][1].op = "delete" => \A d \in datas' : ~ SameData(d, work[a][1])
  PROVE  OneRow'
<1>1. /\ \A b \in Actor \ {a} : work'[b] = work[b]
      /\ \A b \in Actor : Ahead(b)' \subseteq Ahead(b)
      /\ \A k \in DOMAIN work[a] : k \in Nat \ {0}
      /\ \A k \in DOMAIN work'[a] : /\ k \in Nat \ {0} /\ k + 1 \in DOMAIN work[a]
                                    /\ work'[a][k] = work[a][k + 1]
      /\ \A k \in DOMAIN work[a] :
           k > 1 => k - 1 \in DOMAIN work'[a] /\ work'[a][k - 1] = work[a][k]
  BY Shifted
<1>2. IsFiniteSet(datas')
  BY FS_Subset DEF OneRow
<1>3. \A d, e \in datas' : SameData(d, e) => d = e
  BY DEF OneRow
<1>4. ASSUME NEW b \in Actor, NEW k \in DOMAIN work'[b], work'[b][k].op = "insert"
      PROVE  /\ \A d \in datas' : SameData(d, work'[b][k]) =>
                  \E j \in DOMAIN work'[b] :
                    j < k /\ work'[b][j].op = "delete" /\ SameData(d, work'[b][j])
             /\ \A c \in Actor : \A y \in Ahead(c)' :
                  y.op = "insert" /\ SameData(y, work'[b][k]) => b = c
  <2>1. CASE b # a
    <3>1. work'[b] = work[b]
      BY <1>1, <2>1
    <3> QED
      BY <1>1, <1>4, <3>1 DEF OneRow
  <2>2. CASE b = a
    <3>1. k \in Nat \ {0} /\ k + 1 \in DOMAIN work[a] /\ work'[b][k] = work[a][k + 1]
      BY <1>1, <2>2
    <3>2. /\ \A d \in datas : SameData(d, work[a][k + 1]) =>
               \E j \in DOMAIN work[a] :
                 j < k + 1 /\ work[a][j].op = "delete" /\ SameData(d, work[a][j])
          /\ \A c \in Actor : \A y \in Ahead(c) :
               y.op = "insert" /\ SameData(y, work[a][k + 1]) => a = c
      BY <1>4, <3>1 DEF OneRow
    <3>3. ASSUME NEW d \in datas', SameData(d, work'[b][k])
          PROVE  \E j \in DOMAIN work'[b] :
                    j < k /\ work'[b][j].op = "delete" /\ SameData(d, work'[b][j])
      <4>1. PICK j \in DOMAIN work[a] :
              j < k + 1 /\ work[a][j].op = "delete" /\ SameData(d, work[a][j])
        BY <3>1, <3>2, <3>3
      <4>2. j # 1
        BY <3>3, <4>1
      <4>3. j \in Nat /\ j > 1
        BY <1>1, <4>2
      <4>4. j - 1 \in DOMAIN work'[a] /\ work'[a][j - 1] = work[a][j] /\ j - 1 < k
        BY <1>1, <3>1, <4>1, <4>3
      <4> QED
        BY <2>2, <4>1, <4>4
    <3> QED
      BY <1>1, <2>2, <3>1, <3>2, <3>3
  <2> QED
    BY <2>1, <2>2
<1> QED
  BY <1>2, <1>3, <1>4 DEF OneRow, SameData

(* A row is inserted that nobody had inserted and nobody else will.        *)
LEMMA OneRowInserted ==
  ASSUME TypeOK, Programs, OneRow, NEW a \in Actor, Shift(a), last' = last,
         work[a][1].op = "insert",
         datas' = datas \cup {[image |-> work[a][1].image, version |-> work[a][1].version,
                               stored |-> work[a][1].stored]}
  PROVE  OneRow' /\ \A d \in datas : ~ SameData(d, work[a][1])
<1> DEFINE s == work[a][1]
           row == [image |-> s.image, version |-> s.version, stored |-> s.stored]
<1>1. /\ \A b \in Actor \ {a} : work'[b] = work[b]
      /\ \A b \in Actor : Ahead(b)' \subseteq Ahead(b)
      /\ 1 \in DOMAIN work[a] /\ s \in Ahead(a)
      /\ \A k \in DOMAIN work[a] : k \in Nat \ {0}
      /\ \A k \in DOMAIN work'[a] : /\ k \in Nat \ {0} /\ k + 1 \in DOMAIN work[a]
                                    /\ work'[a][k] = work[a][k + 1]
      /\ \A k \in DOMAIN work[a] :
           k > 1 => k - 1 \in DOMAIN work'[a] /\ work'[a][k - 1] = work[a][k]
  BY Shifted
<1>2. \A d \in datas : ~ SameData(d, s)
  <2>1. \A j \in DOMAIN work[a] : ~ (j < 1)
    BY <1>1
  <2> QED
    BY <1>1, <2>1 DEF OneRow
<1>3. IsFiniteSet(datas')
  BY FS_AddElement DEF OneRow
<1>4. row.image = s.image /\ row.version = s.version /\ datas' = datas \cup {row}
  OBVIOUS
<1>5. \A d, e \in datas' : SameData(d, e) => d = e
  BY <1>2, <1>4 DEF OneRow, SameData
<1>6. ASSUME NEW k \in DOMAIN work'[a], work'[a][k].op = "insert" PROVE ~ SameData(s, work'[a][k])
  <2>1. k + 1 > 1 /\ k + 1 \in DOMAIN work[a] /\ work'[a][k] = work[a][k + 1]
    BY <1>1
  <2>2. Ordered(work[a], 1)
    BY <1>1 DEF Programs, Formed
  <2> QED
    BY <1>6, <2>1, <2>2 DEF Ordered
<1>7. ASSUME NEW b \in Actor, NEW k \in DOMAIN work'[b], work'[b][k].op = "insert"
      PROVE  /\ \A d \in datas' : SameData(d, work'[b][k]) =>
                  \E j \in DOMAIN work'[b] :
                    j < k /\ work'[b][j].op = "delete" /\ SameData(d, work'[b][j])
             /\ \A c \in Actor : \A y \in Ahead(c)' :
                  y.op = "insert" /\ SameData(y, work'[b][k]) => b = c
  <2> HIDE DEF row
  <2>1. CASE b # a
    <3>1. work'[b] = work[b]
      BY <1>1, <2>1
    <3>2. /\ \A d \in datas : SameData(d, work[b][k]) =>
               \E j \in DOMAIN work[b] :
                 j < k /\ work[b][j].op = "delete" /\ SameData(d, work[b][j])
          /\ \A c \in Actor : \A y \in Ahead(c) :
               y.op = "insert" /\ SameData(y, work[b][k]) => b = c
      BY <1>7, <3>1 DEF OneRow
    <3>3. ~ SameData(row, work[b][k])
      <4>1. ~ SameData(s, work[b][k])
        BY <1>1, <2>1, <3>2
      <4> QED
        BY <1>4, <4>1 DEF SameData
    <3> QED
      BY <1>1, <1>4, <3>1, <3>2, <3>3
  <2>2. CASE b = a
    <3>1. k \in Nat \ {0} /\ k + 1 \in DOMAIN work[a] /\ work'[b][k] = work[a][k + 1]
      BY <1>1, <2>2
    <3>2. /\ \A d \in datas : SameData(d, work[a][k + 1]) =>
               \E j \in DOMAIN work[a] :
                 j < k + 1 /\ work[a][j].op = "delete" /\ SameData(d, work[a][j])
          /\ \A c \in Actor : \A y \in Ahead(c) :
               y.op = "insert" /\ SameData(y, work[a][k + 1]) => a = c
      BY <1>7, <3>1 DEF OneRow
    <3>3. ASSUME NEW d \in datas', SameData(d, work'[b][k])
          PROVE  \E j \in DOMAIN work'[b] :
                    j < k /\ work'[b][j].op = "delete" /\ SameData(d, work'[b][j])
      <4>0. d \in datas
        BY <1>4, <1>6, <1>7, <2>2, <3>3 DEF SameData
      <4>1. PICK j \in DOMAIN work[a] :
              j < k + 1 /\ work[a][j].op = "delete" /\ SameData(d, work[a][j])
        BY <3>1, <3>2, <3>3, <4>0
      <4>2. j # 1
        BY <4>1
      <4>3. j \in Nat /\ j > 1
        BY <1>1, <4>2
      <4>4. j - 1 \in DOMAIN work'[a] /\ work'[a][j - 1] = work[a][j] /\ j - 1 < k
        BY <1>1, <3>1, <4>1, <4>3
      <4> QED
        BY <2>2, <4>1, <4>4
    <3> QED
      BY <1>1, <2>2, <3>1, <3>2, <3>3
  <2> QED
    BY <2>1, <2>2
<1> HIDE DEF s
<1>8. OneRow'
  BY <1>3, <1>5, <1>7 DEF OneRow, SameData
<1> QED
  BY <1>2, <1>8 DEF s

(* Programs are cut off.                                                   *)
LEMMA OneRowCut ==
  ASSUME TypeOK, Programs, OneRow, NEW A \in SUBSET Actor, Cut(A), last' = last, datas' = datas
  PROVE  OneRow'
<1>1. \A b \in Actor : Ahead(b)' \subseteq Ahead(b)
  BY CutOff
<1>2. \A b \in Actor : work'[b] = <<>> \/ work'[b] = work[b]
  BY DEF Cut
<1>3. ASSUME NEW b \in Actor, NEW k \in DOMAIN work'[b], work'[b][k].op = "insert"
      PROVE  /\ \A d \in datas' : SameData(d, work'[b][k]) =>
                  \E j \in DOMAIN work'[b] :
                    j < k /\ work'[b][j].op = "delete" /\ SameData(d, work'[b][j])
             /\ \A c \in Actor : \A y \in Ahead(c)' :
                  y.op = "insert" /\ SameData(y, work'[b][k]) => b = c
  <2>1. work'[b] = work[b]
    BY <1>2, <1>3
  <2> QED
    BY <1>1, <1>3, <2>1 DEF OneRow
<1> QED
  BY <1>3 DEF OneRow, SameData
-----------------------------------------------------------------------------
(* Rows and files of an undisturbed hash.                                  *)

(* Nobody has come to a file or left it, of the undisturbed ones.          *)
SameHeads ==
  \A h \in Hash \ disturbed' : \A v \in ImageVersions : \A b \in Actor :
    /\ Saving(b, h, v)' <=> Saving(b, h, v)
    /\ Deleting(b, h, v)' <=> Deleting(b, h, v)
    /\ Deleting(b, h, v) => work'[b][1] = work[b][1]
    /\ \A d \in datas : Replacing(b, d, h) /\ d.version = v => Replacing(b, d, h)'

(* Files and rows agree as long as neither change, nor who is between.     *)
LEMMA FilesQuiet ==
  ASSUME Files, SameHeads, files' = files, disturbed \subseteq disturbed',
         \A h \in Hash \ disturbed' : \A v \in ImageVersions :
           /\ RowsFor(h, v)' = RowsFor(h, v)
           /\ \A a \in Actor : Deleting(a, h, v) =>
                \A d \in datas : SameData(d, work[a][1]) => d \in datas'
  PROVE  Files'
<1> SUFFICES ASSUME NEW h \in Hash \ disturbed', NEW v \in ImageVersions PROVE FileOK(h, v)'
  BY DEF Files
<1>1. FileOK(h, v)
  BY DEF Files
<1>2. /\ RowsFor(h, v)' = RowsFor(h, v)
      /\ \A a \in Actor : Deleting(a, h, v) =>
           \A d \in datas : SameData(d, work[a][1]) => d \in datas'
  OBVIOUS
<1>3. \A d \in RowsFor(h, v) : d \in datas /\ d.version = v
  BY DEF RowsFor
<1>4. \A b \in Actor :
        /\ Saving(b, h, v)' <=> Saving(b, h, v)
        /\ Deleting(b, h, v)' <=> Deleting(b, h, v)
        /\ Deleting(b, h, v) => work'[b][1] = work[b][1]
        /\ \A d \in RowsFor(h, v) : Replacing(b, d, h) => Replacing(b, d, h)'
  BY <1>3 DEF SameHeads
<1>5. \A a \in Actor : Deleting(a, h, v) => \E d \in datas' : SameData(d, work'[a][1])
  BY <1>1, <1>2, <1>4 DEF FileOK
<1>6. \A a \in Actor : Saving(a, h, v)' => files'[h][v] # "none"
  BY <1>1, <1>4 DEF FileOK
<1>7. \A a, b \in Actor : Deleting(a, h, v)' /\ Deleting(b, h, v)' => a = b
  BY <1>1, <1>4 DEF FileOK
<1>8. \A d \in RowsFor(h, v)' : d.stored => files'[h][v] # "none" \/ \E a \in Actor : Replacing(a, d, h)'
  BY <1>1, <1>2, <1>4 DEF FileOK
<1>9. files'[h][v] # "none" => RowsFor(h, v)' # {} \/ \E a \in Actor : Saving(a, h, v)'
  BY <1>1, <1>2, <1>4 DEF FileOK
<1>10. ASSUME NEW a \in Actor, Deleting(a, h, v)', files'[h][v] # "none"
       PROVE  \/ \E d \in RowsFor(h, v)' : d.image # work'[a][1].image
              \/ \E b \in Actor : Saving(b, h, v)'
  BY <1>1, <1>2, <1>4, <1>10 DEF FileOK
<1> QED
  BY <1>4, <1>5, <1>6, <1>7, <1>8, <1>9, <1>10 DEF FileOK, SameData

(* The step that is done was not about a file.                             *)
LEMMA HeadsShifted ==
  ASSUME TypeOK, Programs, NEW a \in Actor, Shift(a), last' = last, work[a][1].op \notin OfFile
  PROVE  SameHeads
<1>1. /\ \A b \in Actor \ {a} : work'[b] = work[b]
      /\ work'[a] # <<>> => 1 \in DOMAIN work'[a]
      /\ \A k \in DOMAIN work'[a] : /\ k \in Nat \ {0} /\ k + 1 \in DOMAIN work[a]
                                    /\ work'[a][k] = work[a][k + 1]
  <2>1. work'[a] # <<>> => 1 \in DOMAIN work'[a]
    <3>1. work'[a] \in Seq(Ahead(a)')
      BY Shifted DEF Programs
    <3> QED
      BY <3>1, Rest
  <2> QED
    BY <2>1, Shifted
<1>2. work'[a] # <<>> => ~ Saves(work'[a][1]) /\ work'[a][1].op # "delete"
  <2> SUFFICES ASSUME work'[a] # <<>> PROVE ~ Saves(work'[a][1]) /\ work'[a][1].op # "delete"
    OBVIOUS
  <2>1. 1 + 1 = 2 /\ 2 - 1 = 1 /\ 2 > 1
    OBVIOUS
  <2>2. 2 \in DOMAIN work[a] /\ work'[a][1] = work[a][2]
    BY <1>1, <2>1
  <2>3. Paired(work[a], 2)
    BY <2>2 DEF Programs, Formed
  <2> QED
    BY <2>1, <2>2, <2>3 DEF Paired, OfFile
<1>3. ASSUME NEW h \in Hash \ disturbed', NEW v \in ImageVersions
      PROVE  ~ Saving(a, h, v) /\ ~ Saving(a, h, v)' /\ ~ Deleting(a, h, v) /\ ~ Deleting(a, h, v)'
  BY <1>2 DEF Saving, Deleting, AtFile, Saves
<1>4. ASSUME NEW h \in Hash, NEW d \in datas PROVE ~ Replacing(a, d, h)
  BY DEF Replacing, AtFile
<1>5. ASSUME NEW b \in Actor \ {a}, NEW h \in Hash, NEW v \in ImageVersions
      PROVE  /\ Saving(b, h, v)' <=> Saving(b, h, v)
             /\ Deleting(b, h, v)' <=> Deleting(b, h, v)
             /\ work'[b][1] = work[b][1]
             /\ \A d \in datas : Replacing(b, d, h) <=> Replacing(b, d, h)'
  BY <1>1 DEF Saving, Deleting, Replacing, AtFile, Saves
<1> QED
  BY <1>3, <1>4, <1>5 DEF SameHeads

(* Whoever is cut off leaves no file at odds that is not disturbed.        *)
LEMMA HeadsCut ==
  ASSUME TypeOK, Programs, NEW A \in SUBSET Actor, Cut(A), last' = last
  PROVE  SameHeads
<1>1. \A b \in A : \A x \in Ahead(b) : x.op \notin {"post", "unlist"} => x.hash \in disturbed'
  BY CutOff
<1>2. ASSUME NEW b \in A, NEW h \in Hash \ disturbed', NEW v PROVE ~ AtFile(b, h, v) /\ ~ AtFile(b, h, v)'
  <2>1. work'[b] = <<>>
    BY DEF Cut
  <2>2. ASSUME AtFile(b, h, v) PROVE FALSE
    <3>1. work[b] \in Seq(Ahead(b)) /\ work[b] # <<>>
      BY <2>2 DEF Programs, AtFile
    <3>2. work[b][1] \in Ahead(b)
      BY <3>1, Rest
    <3> QED
      BY <1>1, <2>2, <3>2 DEF AtFile, OfFile
  <2> QED
    BY <2>1, <2>2 DEF AtFile
<1>3. ASSUME NEW b \in Actor \ A, NEW h \in Hash, NEW v
      PROVE  /\ Saving(b, h, v)' <=> Saving(b, h, v)
             /\ Deleting(b, h, v)' <=> Deleting(b, h, v)
             /\ work'[b][1] = work[b][1]
             /\ \A d \in datas : Replacing(b, d, h) <=> Replacing(b, d, h)'
  <2>1. work'[b] = work[b]
    BY DEF Cut
  <2> QED
    BY <2>1 DEF Saving, Deleting, Replacing, AtFile, Saves
<1>4. ASSUME NEW b \in A, NEW h \in Hash \ disturbed', NEW v
      PROVE  /\ ~ Saving(b, h, v) /\ ~ Saving(b, h, v)' /\ ~ Deleting(b, h, v) /\ ~ Deleting(b, h, v)'
             /\ \A d \in datas : ~ Replacing(b, d, h)
  <2>1. \A w : ~ AtFile(b, h, w) /\ ~ AtFile(b, h, w)'
    BY <1>2
  <2> QED
    BY <2>1 DEF Saving, Deleting, Replacing
<1> QED
  BY <1>3, <1>4 DEF SameHeads

(* Whoever follows the step that is done, and the others.                  *)
LEMMA NextHead ==
  ASSUME TypeOK, Programs, NEW a \in Actor, Shift(a), last' = last
  PROVE  LET s == work[a][1]
         IN /\ s \in Ahead(a) /\ Typed(s) /\ work[a] # <<>>
            /\ s.op = "write" => /\ work'[a] # <<>> /\ SameFile(s, work'[a][1])
                                 /\ Saves(work'[a][1]) /\ work'[a][1].op \in OfFile
            /\ s.op = "unlink" =>
                 /\ work'[a] # <<>> /\ SameFile(s, work'[a][1])
                 /\ \/ work'[a][1].op = "delete" /\ work'[a][1].image = s.image
                    \/ /\ work'[a][1].op = "write"
                       /\ work'[a][2].op = "update" /\ work'[a][2].image = s.image
            /\ s.op # "write" /\ work'[a] # <<>> => ~ Saves(work'[a][1])
            /\ s.op # "unlink" /\ work'[a] # <<>> => work'[a][1].op # "delete"
            /\ \A b \in Actor \ {a} : \A h, v :
                 /\ Saving(b, h, v)' <=> Saving(b, h, v)
                 /\ Deleting(b, h, v)' <=> Deleting(b, h, v)
                 /\ work'[b][1] = work[b][1]
                 /\ \A d : Replacing(b, d, h) <=> Replacing(b, d, h)'
<1> DEFINE s == work[a][1]
<1>1. /\ s \in Ahead(a) /\ 1 \in DOMAIN work[a] /\ work[a] # <<>>
      /\ \A b \in Actor \ {a} : work'[b] = work[b]
      /\ \A k \in DOMAIN work'[a] : /\ k \in Nat \ {0} /\ k + 1 \in DOMAIN work[a]
                                    /\ work'[a][k] = work[a][k + 1]
      /\ \A k \in DOMAIN work[a] :
           k > 1 => k - 1 \in DOMAIN work'[a] /\ work'[a][k - 1] = work[a][k]
  BY Shifted DEF Shift
<1>2. work'[a] # <<>> <=> 1 \in DOMAIN work'[a]
  <2>1. work'[a] # <<>> => 1 \in DOMAIN work'[a]
    <3>1. work'[a] \in Seq(Ahead(a)')
      BY Shifted DEF Programs
    <3> QED
      BY <3>1, Rest
  <2>2. work'[a] = <<>> => DOMAIN work'[a] = {}
    OBVIOUS
  <2> QED
    BY <2>1, <2>2
<1>3. 1 + 1 = 2 /\ 1 + 2 = 3 /\ 2 - 1 = 1 /\ 3 - 1 = 2 /\ 2 > 1 /\ 3 > 1 /\ ~ (1 > 1)
  OBVIOUS
<1>4. Paired(work[a], 1) /\ Typed(s)
  BY <1>1 DEF Programs, Formed
<1>5. work'[a] # <<>> => Paired(work[a], 2) /\ work'[a][1] = work[a][2]
  BY <1>1, <1>2, <1>3 DEF Programs, Formed
<1>6. /\ 2 \in DOMAIN work[a] => work'[a] # <<>> /\ work'[a][1] = work[a][2]
      /\ 3 \in DOMAIN work[a] => work'[a][2] = work[a][3]
  BY <1>1, <1>2, <1>3
<1>7. s.op = "write" => /\ work'[a] # <<>> /\ SameFile(s, work'[a][1])
                        /\ Saves(work'[a][1]) /\ work'[a][1].op \in OfFile
  <2>1. \A x : Saves(x) => x.op \in OfFile
    BY DEF Saves, OfFile
  <2> QED
    BY <1>3, <1>4, <1>6, <2>1 DEF Paired
<1>8. s.op = "unlink" =>
        /\ work'[a] # <<>> /\ SameFile(s, work'[a][1])
        /\ \/ work'[a][1].op = "delete" /\ work'[a][1].image = s.image
           \/ /\ work'[a][1].op = "write"
              /\ work'[a][2].op = "update" /\ work'[a][2].image = s.image
  BY <1>3, <1>4, <1>6 DEF Paired
<1>9. /\ s.op # "write" /\ work'[a] # <<>> => ~ Saves(work'[a][1])
      /\ s.op # "unlink" /\ work'[a] # <<>> => work'[a][1].op # "delete"
  BY <1>3, <1>5 DEF Paired
<1>10. ASSUME NEW b \in Actor \ {a}, NEW h, NEW v
       PROVE  /\ Saving(b, h, v)' <=> Saving(b, h, v)
              /\ Deleting(b, h, v)' <=> Deleting(b, h, v)
              /\ work'[b][1] = work[b][1]
              /\ \A d : Replacing(b, d, h) <=> Replacing(b, d, h)'
  BY <1>1 DEF Saving, Deleting, Replacing, AtFile, Saves
<1> QED
  BY <1>1, <1>4, <1>7, <1>8, <1>9, <1>10

(* The step was about another file.                                        *)
LEMMA OtherFile ==
  ASSUME TypeOK, Programs, NEW a \in Actor, Shift(a), last' = last,
         NEW h \in Hash, NEW v \in ImageVersions, FileOK(h, v),
         ~ (work[a][1].op \in OfFile /\ work[a][1].hash = h /\ work[a][1].version = v),
         files'[h][v] = files[h][v], RowsFor(h, v)' = RowsFor(h, v),
         \A b \in Actor : Deleting(b, h, v) =>
           \A d \in datas : SameData(d, work[b][1]) => d \in datas'
  PROVE  FileOK(h, v)'
<1> DEFINE s == work[a][1]
<1>1. ~ AtFile(a, h, v)
  BY DEF AtFile
<1>2. ~ Saving(a, h, v) /\ ~ Deleting(a, h, v) /\ \A d \in RowsFor(h, v) : ~ Replacing(a, d, h)
  BY <1>1 DEF Saving, Deleting, Replacing, RowsFor
<1>3. ~ Saving(a, h, v)' /\ ~ Deleting(a, h, v)'
  <2> SUFFICES ASSUME AtFile(a, h, v)', Saves(work'[a][1]) \/ work'[a][1].op = "delete" PROVE FALSE
    BY DEF Saving, Deleting, Saves
  <2>1. work'[a] # <<>> /\ work'[a][1].hash = h /\ work'[a][1].version = v
    BY DEF AtFile
  <2>2. s.op \in {"write", "unlink"} /\ SameFile(s, work'[a][1])
    BY <2>1, NextHead DEF Saves
  <2> QED
    BY <2>1, <2>2 DEF SameFile, OfFile
<1>4. \A b \in Actor : /\ Saving(b, h, v)' <=> Saving(b, h, v)
                       /\ Deleting(b, h, v)' <=> Deleting(b, h, v)
                       /\ Deleting(b, h, v) => work'[b][1] = work[b][1]
                       /\ \A d \in RowsFor(h, v) : Replacing(b, d, h) => Replacing(b, d, h)'
  <2>1. ASSUME NEW b \in Actor \ {a}
        PROVE  /\ Saving(b, h, v)' <=> Saving(b, h, v)
               /\ Deleting(b, h, v)' <=> Deleting(b, h, v)
               /\ work'[b][1] = work[b][1]
               /\ \A d : Replacing(b, d, h) <=> Replacing(b, d, h)'
    BY NextHead
  <2> QED
    BY <1>2, <1>3, <2>1
<1>5. \A b \in Actor : Deleting(b, h, v) => \E d \in datas' : SameData(d, work'[b][1])
  BY <1>4 DEF FileOK
<1>6. /\ \A b \in Actor : Saving(b, h, v)' => files'[h][v] # "none"
      /\ \A b, c \in Actor : Deleting(b, h, v)' /\ Deleting(c, h, v)' => b = c
      /\ \A d \in RowsFor(h, v)' : d.stored => files'[h][v] # "none" \/ \E b \in Actor : Replacing(b, d, h)'
      /\ files'[h][v] # "none" => RowsFor(h, v)' # {} \/ \E b \in Actor : Saving(b, h, v)'
  BY <1>4 DEF FileOK
<1>7. ASSUME NEW b \in Actor, Deleting(b, h, v)', files'[h][v] # "none"
      PROVE  \/ \E d \in RowsFor(h, v)' : d.image # work'[b][1].image
             \/ \E c \in Actor : Saving(c, h, v)'
  BY <1>4, <1>7 DEF FileOK
<1> QED
  BY <1>4, <1>5, <1>6, <1>7 DEF FileOK, SameData

(* A file is written.                                                      *)
LEMMA FilesWritten ==
  ASSUME TypeOK, Programs, Files, NEW a \in Actor, Shift(a), last' = last, work[a][1].op = "write",
         files' = [files EXCEPT ![work[a][1].hash][work[a][1].version] = work[a][1].data],
         images' = images, datas' = datas, disturbed' = disturbed
  PROVE  Files'
<1> DEFINE s == work[a][1]
<1> SUFFICES ASSUME NEW h \in Hash \ disturbed, NEW v \in ImageVersions PROVE FileOK(h, v)'
  BY DEF Files
<1>1. FileOK(h, v)
  BY DEF Files
<1>2. RowsFor(h, v)' = RowsFor(h, v)
  BY DEF RowsFor
<1>3. s.hash \in Hash /\ s.version \in ImageVersions /\ s.data \in {"whole", "small"}
  BY NextHead DEF Typed, OfFile
<1>4. CASE s.hash = h /\ s.version = v
  <2>1. files'[h][v] # "none"
    <3>1. files \in [Hash -> [ImageVersions -> {"none", "whole", "small"}]]
      BY DEF TypeOK
    <3>2. files'[h][v] = s.data
      BY <1>3, <1>4, <3>1
    <3> QED
      BY <1>3, <3>2
  <2>2. Saving(a, h, v)' /\ ~ Deleting(a, h, v)'
    <3>1. work'[a] # <<>> /\ SameFile(s, work'[a][1]) /\ Saves(work'[a][1]) /\ work'[a][1].op \in OfFile
      BY NextHead
    <3> QED
      BY <1>4, <3>1 DEF Saving, Deleting, AtFile, SameFile, Saves
  <2>3. \A b \in Actor \ {a} : /\ Deleting(b, h, v)' <=> Deleting(b, h, v)
                               /\ work'[b][1] = work[b][1]
    BY NextHead
  <2>4. \A b \in Actor : Deleting(b, h, v)' => Deleting(b, h, v) /\ work'[b][1] = work[b][1]
    BY <2>2, <2>3
  <2> QED
    BY <1>1, <2>1, <2>2, <2>4 DEF FileOK, SameData
<1>5. CASE ~ (s.hash = h /\ s.version = v)
  <2>1. files'[h][v] = files[h][v]
    <3>1. files \in [Hash -> [ImageVersions -> {"none", "whole", "small"}]]
      BY DEF TypeOK
    <3> QED
      BY <1>3, <1>5, <3>1
  <2> QED
    BY <1>1, <1>2, <1>5, <2>1, OtherFile
<1> QED
  BY <1>4, <1>5

(* A row is inserted.                                                      *)
LEMMA FilesInserted ==
  ASSUME TypeOK, Programs, Identity, OneRow, Files, NEW a \in Actor, Shift(a), last' = last,
         work[a][1].op = "insert", work[a][1].image \in DOMAIN images,
         datas' = datas \cup {[image |-> work[a][1].image, version |-> work[a][1].version,
                               stored |-> work[a][1].stored]},
         images' = images, files' = files, disturbed' = disturbed
  PROVE  Files'
<1> DEFINE s == work[a][1]
           row == [image |-> s.image, version |-> s.version, stored |-> s.stored]
<1> SUFFICES ASSUME NEW h \in Hash \ disturbed, NEW v \in ImageVersions PROVE FileOK(h, v)'
  BY DEF Files
<1>1. FileOK(h, v)
  BY DEF Files
<1>2. /\ s \in Ahead(a) /\ Typed(s) /\ work[a] # <<>> /\ images[s.image].hash = s.hash
      /\ s.op = "insert"
  <2>1. s \in Ahead(a) /\ Typed(s) /\ work[a] # <<>>
    BY NextHead
  <2> QED
    BY <2>1 DEF Identity, SameHash, OfImage
<1>3. row.image = s.image /\ row.version = s.version /\ row.stored = s.stored /\ datas' = datas \cup {row}
  OBVIOUS
<1>4. \A d \in datas : ~ SameData(d, s)
  BY OneRowInserted
<1> HIDE DEF row
<1>5. CASE s.hash = h /\ s.version = v
  <2>1. RowsFor(h, v)' = RowsFor(h, v) \cup {row}
    BY <1>2, <1>3, <1>5 DEF RowsFor
  <2>2. ~ Saving(a, h, v)' /\ ~ Deleting(a, h, v)' /\ \A d : ~ Replacing(a, d, h)
    <3>1. work'[a] # <<>> => ~ Saves(work'[a][1]) /\ work'[a][1].op # "delete"
      BY <1>2, NextHead
    <3> QED
      BY <1>2, <3>1 DEF Saving, Deleting, AtFile, Replacing, Saves
  <2>3. ASSUME NEW b \in Actor \ {a}
        PROVE  /\ Saving(b, h, v)' <=> Saving(b, h, v)
               /\ Deleting(b, h, v)' <=> Deleting(b, h, v)
               /\ work'[b][1] = work[b][1]
               /\ \A d : Replacing(b, d, h) <=> Replacing(b, d, h)'
    BY NextHead
  <2>4. s.stored => files[h][v] # "none"
    <3>1. s.stored => Saving(a, h, v)
      BY <1>2, <1>5 DEF Saving, AtFile, Saves, OfFile
    <3> QED
      BY <1>1, <3>1 DEF FileOK
  <2>5. \A b \in Actor : Saving(b, h, v)' => files'[h][v] # "none"
    BY <1>1, <2>2, <2>3 DEF FileOK
  <2>6. \A b, c \in Actor : Deleting(b, h, v)' /\ Deleting(c, h, v)' => b = c
    BY <1>1, <2>2, <2>3 DEF FileOK
  <2>7. ASSUME NEW d \in RowsFor(h, v)', d.stored
        PROVE  files'[h][v] # "none" \/ \E b \in Actor : Replacing(b, d, h)'
    <3>1. CASE d = row
      BY <1>3, <2>4, <2>7, <3>1
    <3>2. CASE d \in RowsFor(h, v)
      BY <1>1, <2>2, <2>3, <2>7, <3>2 DEF FileOK
    <3> QED
      BY <2>1, <3>1, <3>2
  <2>8. ASSUME NEW b \in Actor, Deleting(b, h, v)'
        PROVE  /\ \E d \in datas' : SameData(d, work'[b][1])
               /\ \E d \in RowsFor(h, v)' : d.image # work'[b][1].image
    <3>1. b # a /\ Deleting(b, h, v) /\ work'[b][1] = work[b][1]
      BY <2>2, <2>3, <2>8
    <3>2. PICK d \in datas : SameData(d, work[b][1])
      BY <1>1, <3>1 DEF FileOK
    <3>3. work[b][1].version = v
      BY <3>1 DEF Deleting, AtFile
    <3>4. row.image # work[b][1].image
      BY <1>3, <1>4, <1>5, <3>2, <3>3 DEF SameData
    <3> QED
      BY <1>3, <2>1, <3>1, <3>2, <3>4
  <2> QED
    BY <2>1, <2>5, <2>6, <2>7, <2>8 DEF FileOK, SameData
<1>6. CASE ~ (s.hash = h /\ s.version = v)
  <2>1. RowsFor(h, v)' = RowsFor(h, v)
    BY <1>2, <1>3, <1>6 DEF RowsFor
  <2> QED
    BY <1>1, <1>3, <1>6, <2>1, OtherFile
<1> QED
  BY <1>5, <1>6

(* A row stays, its file has been written again.                           *)
LEMMA FilesUpdated ==
  ASSUME TypeOK, Programs, Identity, Files, NEW a \in Actor, Shift(a), last' = last,
         work[a][1].op = "update", HasRow(work[a][1]), UNCHANGED store,
         disturbed' = disturbed \cup {h \in {work[a][1].hash} : Meets(a, work[a][1], {"delete"})}
  PROVE  Files'
<1> DEFINE s == work[a][1]
<1> SUFFICES ASSUME NEW h \in Hash \ disturbed', NEW v \in ImageVersions PROVE FileOK(h, v)'
  BY DEF Files
<1>1. FileOK(h, v)
  BY DEF Files
<1>2. s \in Ahead(a) /\ Typed(s) /\ work[a] # <<>> /\ s.op = "update"
  BY NextHead
<1>3. files' = files /\ images' = images /\ datas' = datas /\ RowsFor(h, v)' = RowsFor(h, v)
  BY DEF store, RowsFor
<1>4. CASE s.hash = h /\ s.version = v
  <2>1. ~ Saving(a, h, v)' /\ ~ Deleting(a, h, v)'
    <3>1. work'[a] # <<>> => ~ Saves(work'[a][1]) /\ work'[a][1].op # "delete"
      BY <1>2, NextHead
    <3> QED
      BY <3>1 DEF Saving, Deleting, AtFile, Saves
  <2>2. \A b \in Actor \ {a} : /\ Saving(b, h, v)' <=> Saving(b, h, v)
                               /\ Deleting(b, h, v)' <=> Deleting(b, h, v)
    BY NextHead
  <2>3. ASSUME NEW b \in Actor PROVE ~ Deleting(b, h, v)'
    <3> SUFFICES ASSUME Deleting(b, h, v), b # a PROVE FALSE
      BY <2>1, <2>2
    <3>1. work[b] \in Seq(Ahead(b)) /\ work[b] # <<>>
      BY DEF Programs, Deleting, AtFile
    <3>2. Head(work[b]) = work[b][1]
      BY <3>1, Rest
    <3>3. Meets(a, s, {"delete"})
      BY <1>4, <3>1, <3>2 DEF Meets, Running, Deleting, AtFile
    <3> QED
      BY <1>4, <3>3
  <2>4. files[h][v] # "none"
    <3>1. Saving(a, h, v)
      BY <1>2, <1>4 DEF Saving, AtFile, Saves, OfFile
    <3> QED
      BY <1>1, <3>1 DEF FileOK
  <2>5. RowsFor(h, v) # {}
    <3>1. PICK d \in datas : d.image = s.image /\ d.version = s.version
      BY DEF HasRow
    <3>2. images[d.image].hash = h
      BY <1>2, <1>4, <3>1 DEF TypeOK, Identity, SameHash, OfImage
    <3> QED
      BY <1>4, <3>1, <3>2 DEF RowsFor
  <2> QED
    BY <1>3, <2>3, <2>4, <2>5 DEF FileOK
<1>5. CASE ~ (s.hash = h /\ s.version = v)
  BY <1>1, <1>3, <1>5, OtherFile
<1> QED
  BY <1>4, <1>5

(* A row is deleted: its file has gone before, or has another row.         *)
LEMMA FilesDeleted ==
  ASSUME TypeOK, Programs, Identity, Files, NEW a \in Actor, Shift(a), last' = last,
         work[a][1].op = "delete", images' = images, files' = files, disturbed' = disturbed,
         datas' = {d \in datas : ~ (d.image = work[a][1].image /\ d.version = work[a][1].version)}
  PROVE  Files'
<1> DEFINE s == work[a][1]
<1> SUFFICES ASSUME NEW h \in Hash \ disturbed, NEW v \in ImageVersions PROVE FileOK(h, v)'
  BY DEF Files
<1>1. FileOK(h, v)
  BY DEF Files
<1>2. s \in Ahead(a) /\ Typed(s) /\ work[a] # <<>> /\ s.op = "delete"
  BY NextHead
<1>3. \A b \in Actor : \A x \in Ahead(b) : x.op \in OfImage /\ x.image = s.image => x.hash = s.hash
  BY <1>2 DEF Identity, SameHash, OfImage
<1>4. CASE s.hash = h /\ s.version = v
  <2>1. ~ Saving(a, h, v)' /\ ~ Deleting(a, h, v)'
    <3>1. work'[a] # <<>> => ~ Saves(work'[a][1]) /\ work'[a][1].op # "delete"
      BY <1>2, NextHead
    <3> QED
      BY <3>1 DEF Saving, Deleting, AtFile, Saves
  <2>2. ASSUME NEW b \in Actor \ {a}
        PROVE  /\ Saving(b, h, v)' <=> Saving(b, h, v)
               /\ Deleting(b, h, v)' <=> Deleting(b, h, v)
               /\ \A d : Replacing(b, d, h) <=> Replacing(b, d, h)'
    BY NextHead
  <2>3. Deleting(a, h, v) /\ ~ Saving(a, h, v)
    BY <1>2, <1>4 DEF Deleting, Saving, AtFile, Saves, OfFile
  <2>4. \A b \in Actor : ~ Deleting(b, h, v)'
    BY <1>1, <2>1, <2>2, <2>3 DEF FileOK
  <2>5. RowsFor(h, v)' = {d \in RowsFor(h, v) : d.image # s.image}
    BY <1>4 DEF RowsFor
  <2>6. ASSUME NEW d \in RowsFor(h, v)', d.stored
        PROVE  files'[h][v] # "none" \/ \E b \in Actor : Replacing(b, d, h)'
    <3>1. d \in RowsFor(h, v) /\ d.image # s.image
      BY <2>5
    <3>2. ~ Replacing(a, d, h)
      BY <1>2, <3>1 DEF Replacing
    <3> QED
      BY <1>1, <2>2, <2>6, <3>1, <3>2 DEF FileOK
  <2>7. ASSUME files'[h][v] # "none"
        PROVE  RowsFor(h, v)' # {} \/ \E b \in Actor : Saving(b, h, v)'
    <3>1. \/ \E d \in RowsFor(h, v) : d.image # s.image
          \/ \E b \in Actor : Saving(b, h, v)
      BY <1>1, <2>3, <2>7 DEF FileOK
    <3> QED
      BY <2>2, <2>3, <2>5, <3>1
  <2>8. \A b \in Actor : Saving(b, h, v)' => files'[h][v] # "none"
    BY <1>1, <2>1, <2>2 DEF FileOK
  <2> QED
    BY <2>4, <2>6, <2>7, <2>8 DEF FileOK
<1>5. CASE ~ (s.hash = h /\ s.version = v)
  <2>1. \A d \in datas : d.image = s.image => images[d.image].hash = s.hash
    BY <1>2 DEF TypeOK, Identity, SameHash, OfImage
  <2>2. RowsFor(h, v)' = RowsFor(h, v)
    BY <1>5, <2>1 DEF RowsFor
  <2>3. ASSUME NEW b \in Actor, Deleting(b, h, v), NEW d \in datas, SameData(d, work[b][1])
        PROVE  d \in datas'
    <3>1. work[b] \in Seq(Ahead(b)) /\ work[b] # <<>>
      BY <2>3 DEF Programs, Deleting, AtFile
    <3>2. work[b][1] \in Ahead(b) /\ work[b][1].op \in OfImage
      BY <2>3, <3>1, Rest DEF Deleting, OfImage
    <3>3. work[b][1].hash = h /\ work[b][1].version = v
      BY <2>3 DEF Deleting, AtFile
    <3> QED
      BY <1>3, <1>5, <2>3, <3>2, <3>3 DEF SameData
  <2> QED
    BY <1>1, <1>5, <2>2, <2>3, OtherFile
<1> QED
  BY <1>4, <1>5

(* A file is removed unless another row names it.                          *)
LEMMA FilesRemoved ==
  ASSUME TypeOK, Programs, Identity, OneRow, Files, NEW a \in Actor, Shift(a), last' = last,
         work[a][1].op = "unlink", HasRow(work[a][1]), images' = images, datas' = datas,
         files' = IF Removable(work[a][1].hash, work[a][1].version)
                  THEN [files EXCEPT ![work[a][1].hash][work[a][1].version] = "none"] ELSE files,
         disturbed' = disturbed \cup
           {h \in {work[a][1].hash} : Meets(a, work[a][1], {"insert", "update", "delete"})}
  PROVE  Files'
<1> DEFINE s == work[a][1]
<1> SUFFICES ASSUME NEW h \in Hash \ disturbed', NEW v \in ImageVersions PROVE FileOK(h, v)'
  BY DEF Files
<1>1. FileOK(h, v)
  BY DEF Files
<1>2. /\ s \in Ahead(a) /\ Typed(s) /\ work[a] # <<>> /\ s.op = "unlink"
      /\ s.hash \in Hash /\ s.version \in ImageVersions
  <2>1. s \in Ahead(a) /\ Typed(s) /\ work[a] # <<>>
    BY NextHead
  <2> QED
    BY <2>1 DEF Typed, OfFile
<1>3. RowsFor(h, v)' = RowsFor(h, v)
  BY DEF RowsFor
<1>4. files \in [Hash -> [ImageVersions -> {"none", "whole", "small"}]]
  BY DEF TypeOK
<1>5. CASE s.hash = h /\ s.version = v
  <2>1. /\ work'[a] # <<>> /\ SameFile(s, work'[a][1])
        /\ \/ work'[a][1].op = "delete" /\ work'[a][1].image = s.image
           \/ /\ work'[a][1].op = "write"
              /\ work'[a][2].op = "update" /\ work'[a][2].image = s.image
    BY NextHead
  <2>2. ASSUME NEW b \in Actor \ {a}
        PROVE  /\ Saving(b, h, v)' <=> Saving(b, h, v)
               /\ Deleting(b, h, v)' <=> Deleting(b, h, v)
               /\ \A d : Replacing(b, d, h) <=> Replacing(b, d, h)'
    BY NextHead
  <2>3. ASSUME NEW b \in Actor \ {a} PROVE ~ Saving(b, h, v) /\ ~ Deleting(b, h, v)
    <3> SUFFICES ASSUME Saving(b, h, v) \/ Deleting(b, h, v) PROVE FALSE
      OBVIOUS
    <3>1. AtFile(b, h, v) /\ work[b][1].op \in {"insert", "update", "delete"}
      BY DEF Saving, Deleting, Saves
    <3>2. work[b] \in Seq(Ahead(b)) /\ work[b] # <<>>
      BY <3>1 DEF Programs, AtFile
    <3>3. Head(work[b]) = work[b][1]
      BY <3>2, Rest
    <3>4. Meets(a, s, {"insert", "update", "delete"})
      BY <1>5, <3>1, <3>2, <3>3 DEF Meets, Running, AtFile
    <3> QED
      BY <1>5, <3>4
  <2>4. \A b \in Actor : ~ Saving(b, h, v)'
    BY <2>1, <2>2, <2>3 DEF Saving, Saves
  <2>5. \A b \in Actor : Deleting(b, h, v)' => b = a
    BY <2>2, <2>3
  <2>6. PICK e \in datas : SameData(e, s) /\ e \in RowsFor(h, v)
    <3>1. PICK e \in datas : e.image = s.image /\ e.version = s.version
      BY DEF HasRow
    <3>2. images[e.image].hash = h
      BY <1>2, <1>5, <3>1 DEF TypeOK, Identity, SameHash, OfImage
    <3> QED
      BY <1>5, <3>1, <3>2 DEF RowsFor, SameData
  <2>7. /\ \A d \in RowsFor(h, v) : d.image = s.image => d = e
        /\ IsFiniteSet(RowsFor(h, v))
    <3>1. IsFiniteSet(RowsFor(h, v))
      BY FS_Subset DEF OneRow, RowsFor
    <3> QED
      BY <1>5, <2>6, <3>1 DEF OneRow, RowsFor, SameData
  <2>8. CASE Removable(h, v)
    <3>1. files'[h][v] = "none"
      BY <1>2, <1>4, <1>5, <2>8
    <3>2. RowsFor(h, v) = {e}
      <4>1. \E d : RowsFor(h, v) = {d}
        BY <2>7, <2>8, FS_Singleton DEF Removable
      <4> QED
        BY <2>6, <4>1
    <3>3. Replacing(a, e, h)'
      BY <1>5, <2>1, <2>6 DEF Replacing, AtFile, SameFile, SameData, OfFile
    <3>4. \A b \in Actor : Deleting(b, h, v)' => \E d \in datas' : SameData(d, work'[b][1])
      BY <1>5, <2>1, <2>5, <2>6 DEF Deleting, SameData, SameFile
    <3> QED
      BY <1>3, <2>4, <2>5, <3>1, <3>2, <3>3, <3>4 DEF FileOK, SameData
  <2>9. CASE ~ Removable(h, v)
    <3>1. files'[h][v] = files[h][v]
      BY <1>5, <2>9
    <3>2. PICK d \in RowsFor(h, v) : d.image # s.image
      <4>1. RowsFor(h, v) # {e}
        BY <2>7, <2>9, FS_Singleton DEF Removable
      <4> QED
        BY <2>6, <2>7, <4>1
    <3>3. \A b \in Actor : Deleting(b, h, v)' =>
            /\ \E c \in datas' : SameData(c, work'[b][1])
            /\ d.image # work'[b][1].image
      BY <1>5, <2>1, <2>5, <2>6, <3>2 DEF Deleting, SameData, SameFile
    <3>4. ASSUME NEW c \in RowsFor(h, v), c.stored
          PROVE  files'[h][v] # "none" \/ \E b \in Actor : Replacing(b, c, h)'
      <4>1. ~ Replacing(a, c, h)
        BY <1>2 DEF Replacing
      <4> QED
        BY <1>1, <2>2, <3>1, <3>4, <4>1 DEF FileOK
    <3> QED
      BY <1>3, <2>4, <2>5, <3>2, <3>3, <3>4 DEF FileOK, SameData
  <2> QED
    BY <2>8, <2>9
<1>6. CASE ~ (s.hash = h /\ s.version = v)
  <2>1. files'[h][v] = files[h][v]
    BY <1>2, <1>4, <1>6
  <2> QED
    BY <1>1, <1>3, <1>6, <2>1, OtherFile
<1> QED
  BY <1>5, <1>6

(* Rows go with their images, whose hashes are disturbed.                  *)
LEMMA FilesCascaded ==
  ASSUME TypeOK, Programs, Identity, Files, NEW a \in Actor, Shift(a), last' = last,
         work[a][1].op \notin OfFile, files' = files, NEW gone,
         images' = Without(images, gone), datas' = {d \in datas : d.image \notin gone},
         disturbed' = disturbed \cup {images[d.image].hash : d \in {e \in datas : e.image \in gone}}
  PROVE  Files'
<1>1. SameHeads
  BY HeadsShifted
<1>2. \A d \in datas : d.image \in DOMAIN images /\ (d.image \in gone => images[d.image].hash \in disturbed')
  BY DEF TypeOK
<1>3. ASSUME NEW h \in Hash \ disturbed', NEW v \in ImageVersions
      PROVE  /\ RowsFor(h, v)' = RowsFor(h, v)
             /\ \A b \in Actor : Deleting(b, h, v) =>
                  \A d \in datas : SameData(d, work[b][1]) => d \in datas'
  <2>1. \A d \in datas : d.image \notin gone => images'[d.image] = images[d.image]
    BY <1>2 DEF Without
  <2>2. RowsFor(h, v)' = RowsFor(h, v)
    BY <1>2, <2>1 DEF RowsFor
  <2>3. ASSUME NEW b \in Actor, Deleting(b, h, v), NEW d \in datas, SameData(d, work[b][1])
        PROVE  d \in datas'
    <3>1. work[b] \in Seq(Ahead(b)) /\ work[b] # <<>>
      BY <2>3 DEF Programs, Deleting, AtFile
    <3>2. work[b][1] \in Ahead(b) /\ work[b][1].op \in OfImage
      BY <2>3, <3>1, Rest DEF Deleting, OfImage
    <3>3. images[d.image].hash = h
      BY <1>2, <2>3, <3>2 DEF Identity, SameHash, Deleting, AtFile, SameData
    <3> QED
      BY <1>2, <3>3
  <2> QED
    BY <2>2, <2>3
<1> QED
  BY <1>1, <1>3, FilesQuiet
-----------------------------------------------------------------------------
(* Originals of the images that name their targets.                        *)

(* What the first step has brought or taken, the rest of its program or    *)
(* another one makes good.                                                 *)
LEMMA OriginalsShifted ==
  ASSUME TypeOK, Programs, Originals, NEW a \in Actor, Shift(a), last' = last,
         \A i \in DOMAIN images' : images'[i].target # NoTarget /\ images'[i].hash \notin disturbed' =>
           \/ HasOriginal(i)'
           \/ /\ work[a][1].op = "create" /\ work[a][1].image = i
              /\ work[a][1].row.target # NoTarget
           \/ /\ work[a][1].op = "delete" /\ work[a][1].image = i
              /\ work[a][1].version = "ORIGINAL"
           \/ /\ i \in DOMAIN images /\ images[i].target # NoTarget /\ images[i].hash \notin disturbed
              /\ ~ HasOriginal(i) /\ ~ Brings(work[a][1], i) /\ ~ Drops(work[a][1], i)
  PROVE  Originals'
<1> DEFINE s == work[a][1]
<1>1. /\ 1 \in DOMAIN work[a]
      /\ \A b \in Actor \ {a} : Ahead(b)' = Ahead(b)
      /\ Ahead(a) \subseteq Ahead(a)' \cup {s}
      /\ \A k \in DOMAIN work[a] :
           k > 1 => k - 1 \in DOMAIN work'[a] /\ work'[a][k - 1] = work[a][k]
  BY Shifted
<1>2. Fulfilled(work[a], 1)
  BY <1>1 DEF Programs, Formed
<1> SUFFICES ASSUME NEW i \in DOMAIN images', images'[i].target # NoTarget, images'[i].hash \notin disturbed',
                    ~ HasOriginal(i)'
             PROVE  AwaitsOriginal(i)'
  BY DEF Originals
<1>3. ASSUME NEW l \in DOMAIN work[a], l > 1, Brings(work[a][l], i) \/ Drops(work[a][l], i)
      PROVE  AwaitsOriginal(i)'
  <2>1. work[a][l] \in Ahead(a)'
    BY <1>1, <1>3 DEF Ahead
  <2> QED
    BY <1>3, <2>1 DEF AwaitsOriginal, Brings, Drops
<1>4. CASE s.op = "create" /\ s.image = i /\ s.row.target # NoTarget
  BY <1>2, <1>3, <1>4 DEF Fulfilled
<1>5. CASE s.op = "delete" /\ s.image = i /\ s.version = "ORIGINAL"
  BY <1>2, <1>3, <1>5 DEF Fulfilled
<1>6. CASE /\ i \in DOMAIN images /\ images[i].target # NoTarget /\ images[i].hash \notin disturbed
           /\ ~ HasOriginal(i) /\ ~ Brings(s, i) /\ ~ Drops(s, i)
  <2>0. PICK b \in Actor : \E x \in Ahead(b) : Brings(x, i) \/ Drops(x, i)
    BY <1>6 DEF Originals, AwaitsOriginal
  <2>1. PICK x \in Ahead(b) : Brings(x, i) \/ Drops(x, i)
    BY <2>0
  <2>2. x # s
    BY <1>6, <2>1
  <2>3. x \in Ahead(b)'
    BY <1>1, <2>2
  <2> QED
    BY <2>1, <2>3 DEF AwaitsOriginal, Brings, Drops
<1> QED
  BY <1>4, <1>5, <1>6

(* The image whose original is cut off has a hash that is disturbed.       *)
LEMMA OriginalsCut ==
  ASSUME TypeOK, Programs, Identity, Originals, NEW A \in SUBSET Actor, Cut(A), last' = last,
         images' = images, datas' = datas
  PROVE  Originals'
<1>1. /\ \A b \in Actor : Ahead(b)' = IF b \in A THEN {} ELSE Ahead(b)
      /\ \A b \in A : \A x \in Ahead(b) : x.op \notin {"post", "unlist"} => x.hash \in disturbed'
  BY CutOff
<1> SUFFICES ASSUME NEW i \in DOMAIN images, images[i].target # NoTarget, images[i].hash \notin disturbed',
                    ~ HasOriginal(i)
             PROVE  AwaitsOriginal(i)'
  BY DEF Originals, HasOriginal
<1>2. images[i].hash \notin disturbed
  BY DEF Cut
<1>0. PICK b \in Actor : \E x \in Ahead(b) : Brings(x, i) \/ Drops(x, i)
  BY <1>2 DEF Originals, AwaitsOriginal
<1>3. PICK x \in Ahead(b) : Brings(x, i) \/ Drops(x, i)
  BY <1>0
<1>4. x.op \in OfImage /\ x.image = i /\ x.op \notin {"post", "unlist"}
  BY <1>3 DEF Brings, Drops, OfImage
<1>5. x.hash = images[i].hash
  BY <1>4 DEF Identity, SameHash
<1>6. b \notin A
  BY <1>1, <1>4, <1>5
<1> QED
  BY <1>1, <1>3, <1>6 DEF AwaitsOriginal, Brings, Drops
-----------------------------------------------------------------------------
(* New steps.                                                              *)

(* Actor a gets the steps of t to do: it was idle, or they are what its    *)
(* first step is made of.                                                  *)
Left(s) == IF s = <<>> THEN <<>> ELSE Tail(s)
Grown(a, t) ==
  /\ work' = [work EXCEPT ![a] = t \o Left(@)]
  /\ work[a] # <<>> => work[a][1].op \in Whole
  /\ UNCHANGED <<store, disturbed, crashes>>
  /\ last' \in last .. MaxRows

Known(x) == x.image \in DOMAIN images /\ images[x.image].hash = x.hash

(* The steps are about images that are there, or about new ones.           *)
About(t) ==
  \A k \in DOMAIN t :
    /\ t[k].op \in OfImage =>
         \/ Known(t[k])
         \/ /\ t[k].image > last
            /\ \A l \in DOMAIN t : t[l].op \in OfImage /\ t[l].image = t[k].image
                                     => t[l].hash = t[k].hash
    /\ t[k].op = "create" =>
         t[k].image > last /\ \A l \in DOMAIN t : t[l].op = "post" => t[l].post # t[k].image
    /\ t[k].op = "post" => t[k].post > last
    /\ t[k].op = "refresh" => Known(t[k]) /\ images[t[k].image].target # NoTarget

(* A row that is inserted is new, and those of images that are there are   *)
(* a message's or the user's.                                              *)
InsertsOwn(a, t) ==
  \A k \in DOMAIN t : t[k].op = "insert" =>
    /\ \A d \in datas : SameData(d, t[k]) =>
         \E j \in DOMAIN t : j < k /\ t[j].op = "delete" /\ SameData(d, t[j])
    /\ t[k].image \in DOMAIN images =>
         \/ a = "inbox" /\ images[t[k].image].target # NoTarget /\ t[k].version # "RESIZED"
         \/ a = "user" /\ t[k].version = "RESIZED"

StepsOf(t) == {t[k] : k \in DOMAIN t}

Sound(a, t) ==
  /\ t \in Seq(StepsOf(t))
  /\ Closed(t) /\ \A k \in DOMAIN t : Ordered(t, k) /\ Fulfilled(t, k)
  /\ \A k \in DOMAIN t : /\ Typed(t[k])' /\ Duty(a, t[k])
                         /\ t[k].op = "create" => work[a] = <<>>
  /\ About(t) /\ InsertsOwn(a, t)

(* The steps of a when it has got those of t.                              *)
LEMMA GrownSteps ==
  ASSUME TypeOK, Programs, NEW a \in Actor, NEW t, Grown(a, t), Sound(a, t)
  PROVE  LET T == StepsOf(t)
             r == Left(work[a])
         IN /\ DOMAIN work' = Actor /\ work'[a] = t \o r
            /\ \A b \in Actor \ {a} : work'[b] = work[b] /\ Ahead(b)' = Ahead(b)
            /\ Ahead(a)' \subseteq Ahead(a) \cup T /\ T \subseteq Ahead(a)'
            /\ \A x \in Ahead(a) : x.op \notin Whole => x \in Ahead(a)'
            /\ r \in Seq(Ahead(a)) /\ t \in Seq(T)
            /\ \A k \in DOMAIN r : r[k] \in Ahead(a) /\ r[k].op \in Whole \cup {"unlist"}
            /\ \A x \in Ahead(a)' : x \in T \/ (x \in Ahead(a) /\ x.op \in Whole \cup {"unlist"})
<1> DEFINE T == StepsOf(t)
           r == Left(work[a])
<1>1. DOMAIN work = Actor /\ work[a] \in Seq(Ahead(a)) /\ Formed(work[a]) /\ t \in Seq(T)
  BY DEF TypeOK, Programs, Sound
<1>2. DOMAIN work' = Actor /\ work'[a] = t \o r /\ \A b \in Actor \ {a} : work'[b] = work[b]
  BY <1>1 DEF Grown
<1>3. \A b \in Actor \ {a} : Ahead(b)' = Ahead(b)
  BY <1>2 DEF Ahead
<1>4. /\ r \in Seq(Ahead(a))
      /\ \A k \in DOMAIN r : r[k] \in Ahead(a) /\ r[k].op \in Whole \cup {"unlist"}
      /\ \A x \in Ahead(a) : x.op \notin Whole => \E k \in DOMAIN r : r[k] = x
  <2>1. CASE work[a] = <<>>
    <3>1. r = <<>> /\ DOMAIN work[a] = {} /\ DOMAIN r = {} /\ r \in Seq(Ahead(a))
      BY <2>1 DEF Left
    <3>2. Ahead(a) = {}
      BY <3>1 DEF Ahead
    <3> QED
      BY <3>1, <3>2
  <2>2. CASE work[a] # <<>>
    <3>1. r = Tail(work[a])
      BY <2>2 DEF Left
    <3>2. /\ 1 \in DOMAIN work[a] /\ r \in Seq(Ahead(a))
          /\ \A k \in DOMAIN r : k + 1 \in DOMAIN work[a] /\ r[k] = work[a][k + 1]
          /\ \A k \in DOMAIN work[a] : k > 1 => k - 1 \in DOMAIN r /\ r[k - 1] = work[a][k]
      BY <1>1, <2>2, <3>1, Rest
    <3>3. DOMAIN work[a] \subseteq Nat \ {0} /\ DOMAIN r \subseteq Nat \ {0}
      BY <1>1, <3>2
    <3>4. Ordered(work[a], 1) /\ work[a][1].op \in Whole
      BY <1>1, <2>2, <3>2 DEF Formed, Grown
    <3>5. ASSUME NEW k \in DOMAIN r PROVE r[k] \in Ahead(a) /\ r[k].op \in Whole \cup {"unlist"}
      <4>1. k + 1 > 1 /\ k + 1 \in DOMAIN work[a] /\ r[k] = work[a][k + 1]
        BY <3>2, <3>3
      <4> QED
        BY <3>4, <4>1 DEF Ordered, Ahead
    <3>6. ASSUME NEW x \in Ahead(a), x.op \notin Whole PROVE \E k \in DOMAIN r : r[k] = x
      <4>1. PICK k \in DOMAIN work[a] : x = work[a][k]
        BY DEF Ahead
      <4>2. k > 1
        BY <3>3, <3>4, <3>6, <4>1
      <4> QED
        BY <3>2, <4>1, <4>2
    <3> QED
      BY <3>2, <3>5, <3>6
  <2> QED
    BY <2>1, <2>2
<1> HIDE DEF r, T
<1>5. /\ \A k \in DOMAIN t : k \in DOMAIN (t \o r) /\ (t \o r)[k] = t[k]
      /\ \A k \in DOMAIN r : Len(t) + k \in DOMAIN (t \o r) /\ (t \o r)[Len(t) + k] = r[k]
      /\ \A k \in DOMAIN (t \o r) : \/ k \in DOMAIN t /\ (t \o r)[k] = t[k]
                                    \/ k - Len(t) \in DOMAIN r /\ (t \o r)[k] = r[k - Len(t)]
  <2> DEFINE U == T \cup Ahead(a)
  <2>0. T \subseteq U /\ Ahead(a) \subseteq U
    OBVIOUS
  <2> HIDE DEF U
  <2>1. t \in Seq(U) /\ r \in Seq(U)
    BY <1>1, <1>4, <2>0
  <2>2. /\ \A k \in DOMAIN t : k \in DOMAIN (t \o r) /\ (t \o r)[k] = t[k]
        /\ \A k \in DOMAIN r : Len(t) + k \in DOMAIN (t \o r) /\ (t \o r)[Len(t) + k] = r[k]
        /\ \A k \in DOMAIN (t \o r) : k \in DOMAIN t \/ k - Len(t) \in DOMAIN r
        /\ DOMAIN (t \o r) = 1 .. Len(t) + Len(r) /\ Len(t) \in Nat /\ Len(r) \in Nat
    BY <2>1, Joined
  <2>3. \A k \in DOMAIN (t \o r) : Len(t) + (k - Len(t)) = k
    BY <2>2
  <2> QED
    BY <2>2, <2>3
<1>6. Ahead(a)' = T \cup {r[k] : k \in DOMAIN r}
  <2> DEFINE w == work'[a]
  <2>1. /\ \A k \in DOMAIN t : k \in DOMAIN w /\ w[k] = t[k]
        /\ \A k \in DOMAIN r : Len(t) + k \in DOMAIN w /\ w[Len(t) + k] = r[k]
        /\ \A k \in DOMAIN w : \/ k \in DOMAIN t /\ w[k] = t[k]
                               \/ k - Len(t) \in DOMAIN r /\ w[k] = r[k - Len(t)]
    BY <1>2, <1>5
  <2>2. Ahead(a)' = {w[k] : k \in DOMAIN w}
    BY DEF Ahead
  <2> HIDE DEF w
  <2>3. \A k \in DOMAIN w : w[k] \in {t[l] : l \in DOMAIN t} \cup {r[l] : l \in DOMAIN r}
    BY <2>1
  <2>4. \A k \in DOMAIN t : t[k] \in {w[l] : l \in DOMAIN w}
    BY <2>1
  <2>5. \A k \in DOMAIN r : r[k] \in {w[l] : l \in DOMAIN w}
    BY <2>1
  <2> QED
    BY <2>2, <2>3, <2>4, <2>5 DEF T, StepsOf
<1>7. Ahead(a)' \subseteq Ahead(a) \cup T /\ T \subseteq Ahead(a)'
  BY <1>4, <1>6
<1>8. \A x \in Ahead(a) : x.op \notin Whole => x \in Ahead(a)'
  BY <1>4, <1>6
<1>9. \A x \in Ahead(a)' : x \in T \/ (x \in Ahead(a) /\ x.op \in Whole \cup {"unlist"})
  BY <1>4, <1>6
<1> QED
  BY <1>1, <1>2, <1>3, <1>4, <1>7, <1>8, <1>9 DEF r, T

(* They make programs that are well formed.                                *)
LEMMA GrownPrograms ==
  ASSUME TypeOK, Programs, NEW a \in Actor, NEW t, Grown(a, t), Sound(a, t)
  PROVE  Programs'
<1> DEFINE T == StepsOf(t)
           r == Left(work[a])
           u == t \o r
<1>1. /\ work'[a] = u /\ \A b \in Actor \ {a} : work'[b] = work[b] /\ Ahead(b)' = Ahead(b)
      /\ Ahead(a)' \subseteq Ahead(a) \cup T
      /\ r \in Seq(Ahead(a)) /\ t \in Seq(T)
      /\ \A k \in DOMAIN r : r[k] \in Ahead(a) /\ r[k].op \in Whole \cup {"unlist"}
  BY GrownSteps
<1>2. \A k \in DOMAIN t : t[k] \in T /\ Typed(t[k])' /\ Duty(a, t[k]) /\ (t[k].op = "create" => r = <<>>)
  BY DEF Sound, Left, StepsOf
<1> HIDE DEF r
<1> DEFINE U == T \cup Ahead(a)
<1>3. T \subseteq U /\ Ahead(a) \subseteq U
  OBVIOUS
<1>4. \A x \in T : Typed(x)' /\ Duty(a, x)
  BY <1>2 DEF StepsOf
<1> HIDE DEF T, U
<1>5. t \in Seq(U) /\ r \in Seq(U)
  BY <1>1, <1>3
<1>6. Closed(t) /\ \A k \in DOMAIN t : Ordered(t, k) /\ Fulfilled(t, k)
  BY DEF Sound
<1>7. Closed(r) /\ \A k \in DOMAIN r : Ordered(r, k) /\ Fulfilled(r, k)
  <2>1. \A k \in DOMAIN r : r[k].op \in {"load", "refresh", "resize", "unlist"}
    BY <1>1 DEF Whole
  <2>2. Closed(r)
    BY <2>1 DEF Closed, Paired, Saves
  <2>3. \A k \in DOMAIN r : Ordered(r, k)
    BY <1>1, <2>1 DEF Ordered
  <2>4. \A k \in DOMAIN r : Fulfilled(r, k)
    BY <2>1 DEF Fulfilled
  <2> QED
    BY <2>2, <2>3, <2>4
<1>8. Compatible(t, r)
  <2> SUFFICES ASSUME NEW k \in DOMAIN t, NEW l \in DOMAIN r
               PROVE  /\ r[l].op \notin {"post", "create", "insert"} /\ r[l].op \in Whole \cup {"unlist"}
                      /\ t[k].op # "create"
    BY DEF Compatible
  <2>1. r # <<>>
    OBVIOUS
  <2> QED
    BY <1>1, <1>2, <2>1 DEF Whole
<1>9. Closed(u)
  BY <1>5, <1>6, <1>7, ClosedJoined
<1>10. \A k \in DOMAIN u : Ordered(u, k)
  BY <1>5, <1>6, <1>7, <1>8, OrderedJoined
<1>11. \A k \in DOMAIN u : Fulfilled(u, k)
  BY <1>5, <1>6, <1>7, FulfilledJoined
<1>12. Formed(u) /\ u \in Seq(U)
  BY <1>5, <1>9, <1>10, <1>11 DEF Formed, Closed
<1> HIDE DEF u
<1>13. u \in Seq({u[k] : k \in DOMAIN u})
  BY <1>12, OfItsOwn
<1>14. ASSUME NEW b \in Actor
       PROVE  /\ work'[b] \in Seq(Ahead(b)') /\ Formed(work'[b])
              /\ \A x \in Ahead(b)' : Typed(x)' /\ Duty(b, x)
  <2>1. last \in Nat /\ last' \in Nat /\ last <= last'
    BY Numbers DEF Grown
  <2>2. \A x \in Ahead(b) : Typed(x)' /\ Duty(b, x)
    BY <2>1, TypedKept DEF Programs
  <2>3. CASE b = a
    <3>1. work'[b] \in Seq(Ahead(b)')
      BY <1>1, <1>13, <2>3 DEF Ahead
    <3> QED
      BY <1>1, <1>4, <1>12, <2>2, <2>3, <3>1
  <2>4. CASE b # a
    BY <1>1, <2>2, <2>4 DEF Programs
  <2> QED
    BY <2>3, <2>4
<1> QED
  BY <1>14 DEF Programs, Formed, Paired, Ordered, Fulfilled, Duty, SameFile, SameData, Saves, Brings, Drops

(* They keep what is said of types, hashes and new ids.                    *)
LEMMA GrownTypes ==
  ASSUME TypeOK, Programs, NEW a \in Actor, NEW t, Grown(a, t), Sound(a, t)
  PROVE  TypeOK'
<1>1. DOMAIN work' = Actor /\ Programs'
  BY GrownSteps, GrownPrograms
<1>2. /\ images' = images /\ datas' = datas /\ files' = files /\ posts' = posts
      /\ disturbed' = disturbed /\ crashes' = crashes
      /\ last \in Nat /\ MaxRows \in Nat /\ last' \in last .. MaxRows
  BY Numbers DEF Grown, store
<1>3. last' \in 0 .. MaxRows /\ 1 .. last \subseteq 1 .. last'
  BY <1>2
<1>4. ASSUME NEW b \in Actor, NEW k \in DOMAIN work'[b] PROVE work'[b][k].op \in Operation
  <2>1. work'[b][k] \in Ahead(b)'
    BY DEF Ahead
  <2> QED
    BY <1>1, <2>1 DEF Programs, Typed
<1> QED
  BY <1>1, <1>2, <1>3, <1>4 DEF TypeOK

(* Steps that are known or new take nobody's ids or hashes.                *)
LEMMA GrownIdentity ==
  ASSUME TypeOK, Programs, Identity, NEW a \in Actor, NEW t, Grown(a, t), Sound(a, t)
  PROVE  Identity'
<1> DEFINE T == StepsOf(t)
<1>1. /\ \A b \in Actor \ {a} : Ahead(b)' = Ahead(b)
      /\ Ahead(a)' \subseteq Ahead(a) \cup T
  BY GrownSteps
<1>2. images' = images /\ posts' = posts /\ last \in Nat
  BY Numbers DEF Grown, store
<1>3. \A x \in T :
        /\ Duty(a, x)
        /\ x.op \in OfImage =>
             \/ Known(x)
             \/ x.image > last /\ \A y \in T : y.op \in OfImage /\ y.image = x.image => y.hash = x.hash
        /\ x.op = "create" => x.image > last /\ \A y \in T : y.op = "post" => y.post # x.image
        /\ x.op = "post" => x.post > last
        /\ x.op = "refresh" => Known(x) /\ images[x.image].target # NoTarget
        /\ x.op = "insert" /\ x.image \in DOMAIN images =>
             \/ a = "inbox" /\ images[x.image].target # NoTarget /\ x.version # "RESIZED"
             \/ a = "user" /\ x.version = "RESIZED"
  BY DEF Sound, About, InsertsOwn, StepsOf
<1> HIDE DEF T
<1>4. \A b \in Actor : \A x \in Ahead(b) :
        /\ x.op \in OfImage => x.image \in Nat /\ ~ (x.image > last)
        /\ x.op \in OfPost => x.post \in Nat /\ ~ (x.post > last)
  <2> SUFFICES ASSUME NEW b \in Actor, NEW x \in Ahead(b)
               PROVE  /\ x.op \in OfImage => x.image \in Nat /\ ~ (x.image > last)
                      /\ x.op \in OfPost => x.post \in Nat /\ ~ (x.post > last)
    OBVIOUS
  <2>1. Id \subseteq Nat
    BY Numbers
  <2>2. /\ x.op \in OfImage => x.image \in Id /\ x.image <= last
        /\ x.op \in OfPost => x.post \in Id /\ x.post <= last
    BY DEF Programs, Typed
  <2>3. \A n \in Nat : n <= last => ~ (n > last)
    BY <1>2
  <2> QED
    BY <2>1, <2>2, <2>3
<1>5. \A i \in DOMAIN images \cup DOMAIN posts : ~ (i > last)
  BY Numbers
<1>6. SameHash'
  <2> SUFFICES ASSUME NEW b \in Actor, NEW x \in Ahead(b)', x.op \in OfImage,
                      NEW c \in Actor, NEW y \in Ahead(c)', y.op \in OfImage
               PROVE  /\ x.image \in DOMAIN images => images[x.image].hash = x.hash
                      /\ y.image = x.image => y.hash = x.hash
    BY <1>2 DEF SameHash
  <2>1. /\ x \in Ahead(b) \/ x \in T
        /\ y \in Ahead(c) \/ y \in T
    BY <1>1
  <2>2. x \in Ahead(b) => (x.image \in DOMAIN images => images[x.image].hash = x.hash)
    BY DEF Identity, SameHash
  <2>3. y \in Ahead(c) => (y.image \in DOMAIN images => images[y.image].hash = y.hash)
    BY DEF Identity, SameHash
  <2>4. x \in T => Known(x) \/ (x.image > last /\ \A z \in T : z.op \in OfImage /\ z.image = x.image => z.hash = x.hash)
    BY <1>3
  <2>5. y \in T => Known(y) \/ (y.image > last /\ \A z \in T : z.op \in OfImage /\ z.image = y.image => z.hash = y.hash)
    BY <1>3
  <2>6. x.image \in DOMAIN images => images[x.image].hash = x.hash
    BY <1>5, <2>1, <2>2, <2>4 DEF Known
  <2>7. ASSUME y.image = x.image PROVE y.hash = x.hash
    <3>1. CASE x \in Ahead(b) /\ y \in Ahead(c)
      BY <2>7, <3>1 DEF Identity, SameHash
    <3>2. CASE x \in T /\ y \in Ahead(c)
      BY <1>4, <2>3, <2>4, <2>7, <3>2 DEF Known
    <3>3. CASE x \in Ahead(b) /\ y \in T
      BY <1>4, <2>2, <2>5, <2>7, <3>3 DEF Known
    <3>4. CASE x \in T /\ y \in T
      BY <2>4, <2>5, <2>7, <3>4 DEF Known
    <3> QED
      BY <2>1, <3>1, <3>2, <3>3, <3>4
  <2> QED
    BY <2>6, <2>7
<1>7. NewIds'
  <2>1. ASSUME NEW b \in Actor, NEW x \in Ahead(b)', x.op = "create"
        PROVE  /\ x.image \notin DOMAIN images \cup DOMAIN posts
               /\ \A c \in Actor : \A y \in Ahead(c)' :
                    /\ y.op \in OfImage /\ y.image = x.image => b = c /\ y.op # "refresh"
                    /\ y.op = "post" => y.post # x.image
    <3>0. x.op \in OfImage
      BY <2>1 DEF OfImage
    <3>1. CASE x \in Ahead(b)
      <4>1. x.image \notin DOMAIN images \cup DOMAIN posts
        BY <2>1, <3>1 DEF Identity, NewIds
      <4>2. ASSUME NEW c \in Actor, NEW y \in Ahead(c)'
            PROVE  /\ y.op \in OfImage /\ y.image = x.image => b = c /\ y.op # "refresh"
                   /\ y.op = "post" => y.post # x.image
        <5>1. CASE y \in Ahead(c)
          BY <2>1, <3>1, <5>1 DEF Identity, NewIds
        <5>2. CASE y \in T
          <6>1. ~ (x.image > last)
            BY <1>4, <3>0, <3>1
          <6> QED
            BY <1>3, <4>1, <5>2, <6>1 DEF Known
        <5> QED
          BY <1>1, <5>1, <5>2
      <4> QED
        BY <4>1, <4>2
    <3>2. CASE b = a /\ x \in T
      <4>1. x.image > last /\ \A y \in T : y.op = "post" => y.post # x.image
        BY <1>3, <2>1, <3>2
      <4>2. ASSUME NEW c \in Actor, NEW y \in Ahead(c)'
            PROVE  /\ y.op \in OfImage /\ y.image = x.image => b = c /\ y.op # "refresh"
                   /\ y.op = "post" => y.post # x.image
        <5>1. CASE y \in Ahead(c)
          BY <1>4, <4>1, <5>1 DEF OfPost
        <5>2. CASE c = a /\ y \in T
          <6>1. y.op = "refresh" => Known(y)
            BY <1>3, <5>2
          <6> QED
            BY <1>5, <3>2, <4>1, <5>2, <6>1 DEF Known
        <5> QED
          BY <1>1, <5>1, <5>2
      <4> QED
        BY <1>5, <4>1, <4>2
    <3> QED
      BY <1>1, <3>1, <3>2
  <2>2. ASSUME NEW b \in Actor, NEW x \in Ahead(b)', x.op = "post"
        PROVE  x.post \notin DOMAIN images \cup DOMAIN posts
    <3>1. CASE x \in Ahead(b)
      BY <2>2, <3>1 DEF Identity, NewIds
    <3>2. CASE x \in T
      BY <1>3, <1>5, <2>2, <3>2
    <3> QED
      BY <1>1, <3>1, <3>2
  <2> QED
    BY <1>2, <2>1, <2>2 DEF NewIds
<1>8. OwnImages'
  <2>1. "inbox" \in Actor /\ "user" \in Actor
    BY DEF Actor
  <2>2. ASSUME NEW x \in Ahead("user")', x.op = "insert", x.version # "RESIZED", x.image \in DOMAIN images
        PROVE  images[x.image].target = NoTarget
    <3>1. CASE x \in Ahead("user")
      BY <2>2, <3>1 DEF Identity, OwnImages
    <3>2. CASE a = "user" /\ x \in T
      BY <1>3, <2>2, <3>2
    <3> QED
      BY <1>1, <2>1, <3>1, <3>2
  <2>3. ASSUME NEW x \in Ahead("inbox")', x.op = "refresh", x.image \in DOMAIN images
        PROVE  images[x.image].target # NoTarget
    <3>1. CASE x \in Ahead("inbox")
      BY <2>3, <3>1 DEF Identity, OwnImages
    <3>2. CASE x \in T
      BY <1>3, <2>3, <3>2
    <3> QED
      BY <1>1, <2>1, <3>1, <3>2
  <2> QED
    BY <1>2, <2>2, <2>3 DEF OwnImages
<1> QED
  BY <1>6, <1>7, <1>8 DEF Identity

(* They keep what is said of rows and files.                               *)
LEMMA GrownRows ==
  ASSUME TypeOK, Programs, Identity, OneRow, NEW a \in Actor, NEW t, Grown(a, t), Sound(a, t)
  PROVE  OneRow'
<1> DEFINE T == StepsOf(t)
           r == Left(work[a])
<1>1. /\ work'[a] = t \o r
      /\ \A b \in Actor \ {a} : work'[b] = work[b] /\ Ahead(b)' = Ahead(b)
      /\ Ahead(a)' \subseteq Ahead(a) \cup T
      /\ r \in Seq(Ahead(a)) /\ t \in Seq(T)
      /\ \A k \in DOMAIN r : r[k] \in Ahead(a) /\ r[k].op \in Whole \cup {"unlist"}
      /\ \A x \in Ahead(a)' : x \in T \/ (x \in Ahead(a) /\ x.op \in Whole \cup {"unlist"})
  <2> HIDE DEF r
  <2> QED
    BY GrownSteps DEF r
<1>2. datas' = datas /\ last \in Nat
  BY Numbers DEF Grown, store
<1>3. \A x \in T : x.op = "insert" =>
        /\ x.image > last \/ x.image \in DOMAIN images
        /\ x.image \in DOMAIN images =>
             \/ a = "inbox" /\ images[x.image].target # NoTarget /\ x.version # "RESIZED"
             \/ a = "user" /\ x.version = "RESIZED"
  BY DEF Sound, About, InsertsOwn, OfImage, Known, StepsOf
<1>4. \A k \in DOMAIN t : t[k].op = "insert" => \A d \in datas : SameData(d, t[k]) =>
         \E j \in DOMAIN t : j < k /\ t[j].op = "delete" /\ SameData(d, t[j])
  BY DEF Sound, InsertsOwn
<1>5. \A k \in DOMAIN t : t[k] \in T
  BY DEF StepsOf
<1> HIDE DEF T, r
<1>6. "insert" \notin Whole \cup {"unlist"}
  BY DEF Whole
(* Two actors that insert are the inbox and the user.                      *)
<1>7. ASSUME NEW b \in Actor \ {a}, NEW x \in T, x.op = "insert", NEW y \in Ahead(b), y.op = "insert"
      PROVE  ~ SameData(y, x)
  <2> SUFFICES ASSUME SameData(y, x) PROVE FALSE
    OBVIOUS
  <2>1. y.image = x.image /\ y.version = x.version
    BY DEF SameData
  <2>2. ~ (y.image > last) /\ Duty(b, y)
    <3>1. Typed(y) /\ Duty(b, y) /\ y.op \in OfImage /\ Id \subseteq Nat
      BY <1>7, Numbers DEF Programs, OfImage
    <3>2. y.image \in Id /\ y.image <= last
      BY <3>1 DEF Typed
    <3>3. \A n \in Nat : n <= last => ~ (n > last)
      BY <1>2
    <3> QED
      BY <3>1, <3>2, <3>3
  <2>3. x.image \in DOMAIN images
    BY <1>3, <1>7, <2>1, <2>2
  <2>4. CASE a = "inbox" /\ images[x.image].target # NoTarget /\ x.version # "RESIZED"
    <3>1. b = "user"
      BY <1>7, <2>2, <2>4 DEF Duty
    <3> QED
      BY <1>7, <2>1, <2>3, <2>4, <3>1 DEF Identity, OwnImages
  <2>5. CASE a = "user" /\ x.version = "RESIZED"
    BY <1>7, <2>1, <2>2, <2>5 DEF Duty
  <2> QED
    BY <1>3, <1>7, <2>3, <2>4, <2>5
<1>8. ASSUME NEW k \in DOMAIN work'[a], work'[a][k].op = "insert"
      PROVE  k \in DOMAIN t /\ work'[a][k] = t[k]
  <2> DEFINE U == T \cup Ahead(a)
  <2>0. T \subseteq U /\ Ahead(a) \subseteq U
    OBVIOUS
  <2> HIDE DEF U
  <2>1. t \in Seq(U) /\ r \in Seq(U)
    BY <1>1, <2>0
  <2>2. /\ \A l \in DOMAIN t : (t \o r)[l] = t[l]
        /\ \A l \in DOMAIN r : (t \o r)[Len(t) + l] = r[l]
        /\ \A l \in DOMAIN (t \o r) : l \in DOMAIN t \/ l - Len(t) \in DOMAIN r
        /\ DOMAIN (t \o r) = 1 .. Len(t) + Len(r) /\ Len(t) \in Nat /\ Len(r) \in Nat
    BY <2>1, Joined
  <2>3. CASE k - Len(t) \in DOMAIN r
    <3>1. Len(t) + (k - Len(t)) = k
      BY <1>1, <2>2
    <3>2. work'[a][k] = r[k - Len(t)]
      BY <1>1, <2>2, <2>3, <3>1
    <3> QED
      BY <1>1, <1>6, <1>8, <2>3, <3>2
  <2> QED
    BY <1>1, <2>2, <2>3
<1>9. \A k \in DOMAIN t : k \in DOMAIN work'[a] /\ work'[a][k] = t[k]
  <2> DEFINE U == T \cup Ahead(a)
  <2>0. T \subseteq U /\ Ahead(a) \subseteq U
    OBVIOUS
  <2> HIDE DEF U
  <2>1. t \in Seq(U) /\ r \in Seq(U)
    BY <1>1, <2>0
  <2> QED
    BY <1>1, <2>1, Joined
<1>10. ASSUME NEW b \in Actor, NEW k \in DOMAIN work'[b], work'[b][k].op = "insert"
       PROVE  /\ \A d \in datas : SameData(d, work'[b][k]) =>
                   \E j \in DOMAIN work'[b] :
                     j < k /\ work'[b][j].op = "delete" /\ SameData(d, work'[b][j])
              /\ \A c \in Actor : \A y \in Ahead(c)' :
                   y.op = "insert" /\ SameData(y, work'[b][k]) => b = c
  <2>1. CASE b = a
    <3>1. k \in DOMAIN t /\ work'[b][k] = t[k] /\ t[k] \in T /\ t[k].op = "insert"
      BY <1>5, <1>8, <1>10, <2>1
    <3>2. \A c \in Actor : \A y \in Ahead(c)' :
            y.op = "insert" /\ SameData(y, work'[b][k]) => b = c
      BY <1>1, <1>7, <2>1, <3>1
    <3>3. \A d \in datas : SameData(d, work'[b][k]) =>
            \E j \in DOMAIN work'[b] :
              j < k /\ work'[b][j].op = "delete" /\ SameData(d, work'[b][j])
      BY <1>4, <1>9, <2>1, <3>1
    <3> QED
      BY <3>2, <3>3
  <2>2. CASE b # a
    <3>1. work'[b] = work[b] /\ work[b][k] \in Ahead(b) /\ work[b][k].op = "insert"
      BY <1>1, <1>10, <2>2 DEF Ahead
    <3>2. /\ \A d \in datas : SameData(d, work[b][k]) =>
               \E j \in DOMAIN work[b] :
                 j < k /\ work[b][j].op = "delete" /\ SameData(d, work[b][j])
          /\ \A c \in Actor : \A y \in Ahead(c) :
               y.op = "insert" /\ SameData(y, work[b][k]) => b = c
      BY <1>10, <3>1 DEF OneRow
    <3>3. \A y \in Ahead(a)' : y.op = "insert" /\ SameData(y, work[b][k]) => b = a
      <4>1. ASSUME NEW y \in T, y.op = "insert" PROVE ~ SameData(work[b][k], y)
        BY <1>7, <2>2, <3>1, <4>1
      <4> QED
        BY <1>1, <1>6, <2>2, <4>1 DEF SameData
    <3> QED
      BY <1>1, <3>1, <3>2, <3>3
  <2> QED
    BY <2>1, <2>2
<1> QED
  BY <1>2, <1>10 DEF OneRow, SameData

(* A program that grows has not come to a file yet.                        *)
LEMMA GrownFiles ==
  ASSUME TypeOK, Programs, Files, NEW a \in Actor, NEW t, Grown(a, t), Sound(a, t)
  PROVE  Files'
<1> DEFINE T == StepsOf(t)
           r == Left(work[a])
<1>1. /\ work'[a] = t \o r /\ \A b \in Actor \ {a} : work'[b] = work[b]
      /\ r \in Seq(Ahead(a)) /\ t \in Seq(T)
      /\ \A k \in DOMAIN r : r[k].op \in Whole \cup {"unlist"}
  BY GrownSteps
<1>2. /\ images' = images /\ datas' = datas /\ files' = files /\ disturbed' = disturbed
      /\ work[a] # <<>> => work[a][1].op \in Whole
  BY DEF Grown, store
<1>3. 1 \in DOMAIN t => ~ Saves(t[1]) /\ t[1].op # "delete"
  BY DEF Sound, Closed
<1> HIDE DEF T, r
<1>4. work'[a] # <<>> => ~ Saves(work'[a][1]) /\ work'[a][1].op # "delete"
  <2> SUFFICES ASSUME work'[a] # <<>> PROVE ~ Saves(work'[a][1]) /\ work'[a][1].op # "delete"
    OBVIOUS
  <2> DEFINE U == T \cup Ahead(a)
  <2>0. T \subseteq U /\ Ahead(a) \subseteq U
    OBVIOUS
  <2> HIDE DEF U
  <2>1. t \in Seq(U) /\ r \in Seq(U)
    BY <1>1, <2>0
  <2>2. /\ \A l \in DOMAIN t : (t \o r)[l] = t[l]
        /\ \A l \in DOMAIN r : (t \o r)[Len(t) + l] = r[l]
        /\ t \o r \in Seq(U) /\ DOMAIN t = 1 .. Len(t) /\ Len(t) \in Nat
        /\ \A l \in DOMAIN (t \o r) : l \in DOMAIN t \/ l - Len(t) \in DOMAIN r
    BY <2>1, Joined
  <2>3. 1 \in DOMAIN (t \o r)
    BY <1>1, <2>2, Rest
  <2>4. CASE 1 \in DOMAIN t
    BY <1>1, <1>3, <2>2, <2>4
  <2>5. CASE 1 \notin DOMAIN t
    <3>1. Len(t) = 0 /\ 1 \in DOMAIN r
      BY <2>2, <2>3, <2>5
    <3>2. work'[a][1] = r[1]
      BY <1>1, <2>2, <3>1
    <3> QED
      BY <1>1, <3>1, <3>2 DEF Whole, Saves
  <2> QED
    BY <2>4, <2>5
<1>5. SameHeads
  <2>1. ASSUME NEW h, NEW v
        PROVE  /\ ~ Saving(a, h, v)' /\ ~ Saving(a, h, v) /\ ~ Deleting(a, h, v)' /\ ~ Deleting(a, h, v)
               /\ \A d : ~ Replacing(a, d, h)
    <3>1. ~ AtFile(a, h, v) /\ \A w : ~ AtFile(a, h, w)
      BY <1>2 DEF AtFile, Whole, OfFile
    <3> QED
      BY <1>4, <3>1 DEF Saving, Deleting, Replacing, AtFile, Saves
  <2>2. ASSUME NEW b \in Actor \ {a}, NEW h, NEW v
        PROVE  /\ Saving(b, h, v)' <=> Saving(b, h, v)
               /\ Deleting(b, h, v)' <=> Deleting(b, h, v)
               /\ work'[b][1] = work[b][1]
               /\ \A d : Replacing(b, d, h) <=> Replacing(b, d, h)'
    BY <1>1 DEF Saving, Deleting, Replacing, AtFile, Saves
  <2> QED
    BY <2>1, <2>2 DEF SameHeads
<1>6. \A h, v : RowsFor(h, v)' = RowsFor(h, v)
  BY <1>2 DEF RowsFor
<1> QED
  BY <1>2, <1>5, <1>6, FilesQuiet

(* They keep the originals, and the posts when they have none of them.     *)
LEMMA GrownOriginals ==
  ASSUME TypeOK, Programs, Originals, NEW a \in Actor, NEW t, Grown(a, t), Sound(a, t)
  PROVE  Originals'
<1>1. /\ \A b \in Actor \ {a} : Ahead(b)' = Ahead(b)
      /\ \A x \in Ahead(a) : x.op \notin Whole => x \in Ahead(a)'
      /\ images' = images /\ datas' = datas /\ disturbed' = disturbed
  BY GrownSteps DEF Grown, store
<1>2. \A i : AwaitsOriginal(i) => AwaitsOriginal(i)'
  <2> SUFFICES ASSUME NEW i, NEW b \in Actor, NEW x \in Ahead(b), Brings(x, i) \/ Drops(x, i)
               PROVE  x \in Ahead(b)'
    BY DEF AwaitsOriginal, Brings, Drops
  <2>1. x.op \notin Whole
    BY DEF Brings, Drops, Whole
  <2> QED
    BY <1>1, <2>1
<1> QED
  BY <1>1, <1>2 DEF Originals, HasOriginal

(* A program that creates and links nothing announces nothing.             *)
LEMMA GrownAnnounced ==
  ASSUME TypeOK, Programs, Announced, NEW a \in Actor, NEW t, Grown(a, t), Sound(a, t),
         a # "inbox" \/ \A k \in DOMAIN t : t[k].op \notin {"create", "post", "link"}
  PROVE  Announced'
<1> DEFINE T == StepsOf(t)
<1>1. /\ \A b \in Actor \ {a} : Ahead(b)' = Ahead(b)
      /\ \A x \in Ahead(a) : x.op \notin Whole => x \in Ahead(a)'
      /\ Ahead(a)' \subseteq Ahead(a) \cup T
  BY GrownSteps
<1>2. /\ images' = images /\ posts' = posts /\ disturbed' = disturbed
      /\ last \in Nat /\ last' \in Nat /\ last <= last' /\ "inbox" \in Actor
  BY Numbers DEF Grown, store
<1>3. \A x : x.op \in {"create", "post", "link"} => (x \in Ahead("inbox")' <=> x \in Ahead("inbox"))
  BY <1>1, <1>2 DEF Whole, StepsOf
<1>4. \A t2 : WithTarget(t2)' = WithTarget(t2)
  BY <1>2 DEF WithTarget
<1>5. \A p, t2 : Posts(p, t2)' <=> Posts(p, t2)
  BY <1>2, <1>3 DEF Posts
<1> HIDE DEF T
<1>6. Targets'
  BY <1>2, <1>3, <1>4 DEF Targets, Announced
<1>7. Linking'
  <2>1. \A x \in Ahead("inbox")' : x.op \in {"post", "link"} => x \in Ahead("inbox")
    BY <1>3
  <2>2. \A x \in Ahead("inbox") : x.op \in {"post", "link"} => x \in Ahead("inbox")'
    BY <1>3
  <2>3. \A x \in Ahead("inbox")' : x.op \in {"post", "link"} => \A p \in DOMAIN posts' : p <= x.post
    BY <1>2, <2>1 DEF Linking, Announced
  <2>4. ASSUME NEW x \in Ahead("inbox")', x.op = "link"
        PROVE  /\ \A y \in Ahead("inbox")' : y.op = "post" => y.post = x.post
               /\ \A u \in Target : Posts(x.post, u)' =>
                    /\ x.image \in DOMAIN images' /\ images'[x.image].target # NoTarget
                         => images'[x.image].target = u
                    /\ u \in Market => \A i \in WithTarget(u)' : i = x.image
    BY <1>2, <1>4, <1>5, <2>1, <2>4 DEF Linking, Announced
  <2>5. ASSUME NEW y \in Ahead("inbox")', y.op = "post", NEW i \in WithTarget(y.target)',
               images'[i].hash \notin disturbed'
        PROVE  \E x \in Ahead("inbox")' : x.op = "link" /\ x.image = i /\ x.post = y.post
    BY <1>2, <1>4, <2>1, <2>2, <2>5 DEF Linking, Announced
  <2> QED
    BY <2>3, <2>4, <2>5 DEF Linking
<1>8. Early'
  <2>1. \A i, p : Linked(i, p) => Linked(i, p)'
    BY <1>2, <1>3 DEF Linked
  <2> QED
    BY <1>2, <1>4, <2>1 DEF Early, Announced
<1>9. Owners'
  <2>1. \A p, i, h : Claims(p, i, h)' => Claims(p, i, h)
    BY <1>2, <1>3 DEF Claims
  <2>2. \A p, i, j \in Id : \A h \in Hash : Claims(p, i, h)' /\ Claims(p, j, h)' => i = j
    BY <2>1 DEF Owners, Announced
  <2>3. ASSUME NEW x \in Ahead("inbox")', x.op = "create", x.row.owner \in Id
        PROVE  x.row.owner <= last' /\ \A u \in Target : Posts(x.row.owner, u)' => u \in Listing
    <3>1. x.row.owner <= last /\ \A u \in Target : Posts(x.row.owner, u) => u \in Listing
      BY <1>3, <2>3 DEF Owners, Announced
    <3>2. x.row.owner \in Nat
      BY <2>3, Numbers
    <3> QED
      BY <1>2, <1>5, <3>1, <3>2
  <2> QED
    BY <1>2, <2>2, <2>3 DEF Owners, Announced
<1> QED
  BY <1>6, <1>7, <1>8, <1>9 DEF Announced
-----------------------------------------------------------------------------
(* The pieces that programs are put together from.                         *)

(* A piece that is complete and in order.                                  *)
Neat(s) == Closed(s) /\ \A k \in DOMAIN s : Ordered(s, k)

(* Two such pieces make one.                                               *)
LEMMA NeatJoined ==
  ASSUME NEW S, NEW s \in Seq(S), NEW t \in Seq(S), Neat(s), Neat(t), Compatible(s, t)
  PROVE  Neat(s \o t) /\ s \o t \in Seq(S)
BY ClosedJoined, OrderedJoined DEF Neat

(* The steps of two pieces, one after the other.                           *)
LEMMA StepsJoined ==
  ASSUME NEW S, NEW s \in Seq(S), NEW t \in Seq(S)
  PROVE  StepsOf(s \o t) = StepsOf(s) \cup StepsOf(t)
<1> DEFINE u == s \o t
<1>1. /\ \A k \in DOMAIN s : k \in DOMAIN u /\ u[k] = s[k]
      /\ \A k \in DOMAIN t : Len(s) + k \in DOMAIN u /\ u[Len(s) + k] = t[k]
      /\ \A k \in DOMAIN u : k \in DOMAIN s \/ k - Len(s) \in DOMAIN t
      /\ DOMAIN u = 1 .. Len(s) + Len(t) /\ Len(s) \in Nat /\ Len(t) \in Nat
  BY Joined
<1> HIDE DEF u
<1>2. \A k \in DOMAIN u : Len(s) + (k - Len(s)) = k
  BY <1>1
<1>3. \A k \in DOMAIN u : u[k] \in StepsOf(s) \cup StepsOf(t)
  BY <1>1, <1>2 DEF StepsOf
<1>4. (\A k \in DOMAIN s : s[k] \in StepsOf(u)) /\ \A k \in DOMAIN t : t[k] \in StepsOf(u)
  BY <1>1 DEF StepsOf
<1>5. StepsOf(u) \subseteq StepsOf(s) \cup StepsOf(t)
  BY <1>3 DEF StepsOf
<1>6. StepsOf(s) \subseteq StepsOf(u) /\ StepsOf(t) \subseteq StepsOf(u)
  BY <1>4 DEF StepsOf
<1> QED
  BY <1>5, <1>6 DEF u

Piece(s) == s \in Seq(StepsOf(s)) /\ Neat(s)

(* Two pieces make one, with the steps of the first before the others.     *)
LEMMA PiecesJoined ==
  ASSUME NEW s, NEW t, Piece(s), Piece(t), Compatible(s, t)
  PROVE  LET u == s \o t
         IN /\ Piece(u) /\ StepsOf(u) = StepsOf(s) \cup StepsOf(t)
            /\ \A k \in DOMAIN u :
                 \/ u[k] \in StepsOf(s) /\ \A y \in StepsOf(t) : \E l \in DOMAIN u : l > k /\ u[l] = y
                 \/ u[k] \in StepsOf(t) /\ \A y \in StepsOf(s) : \E l \in DOMAIN u : l < k /\ u[l] = y
<1> DEFINE S == StepsOf(s) \cup StepsOf(t)
           u == s \o t
<1>1. s \in Seq(S) /\ t \in Seq(S)
  <2>1. StepsOf(s) \subseteq S /\ StepsOf(t) \subseteq S
    OBVIOUS
  <2> HIDE DEF S
  <2> QED
    BY <2>1 DEF Piece
<1> HIDE DEF S
<1>2. Neat(u) /\ u \in Seq(S)
  BY <1>1, NeatJoined DEF Piece
<1>3. StepsOf(u) = StepsOf(s) \cup StepsOf(t)
  BY <1>1, StepsJoined
<1>4. /\ \A k \in DOMAIN s : k \in DOMAIN u /\ u[k] = s[k]
      /\ \A k \in DOMAIN t : Len(s) + k \in DOMAIN u /\ u[Len(s) + k] = t[k]
      /\ \A k \in DOMAIN u : k \in DOMAIN s \/ k - Len(s) \in DOMAIN t
      /\ DOMAIN u = 1 .. Len(s) + Len(t) /\ Len(s) \in Nat /\ Len(t) \in Nat
      /\ DOMAIN s = 1 .. Len(s) /\ DOMAIN t = 1 .. Len(t)
  BY <1>1, Joined
<1> HIDE DEF u
<1>5. Piece(u)
  BY <1>2, OfItsOwn DEF Piece, StepsOf
<1>6. ASSUME NEW k \in DOMAIN u, k \in DOMAIN s
      PROVE  u[k] \in StepsOf(s) /\ \A y \in StepsOf(t) : \E l \in DOMAIN u : l > k /\ u[l] = y
  <2>1. \A l \in DOMAIN t : Len(s) + l > k
    BY <1>4, <1>6
  <2> QED
    BY <1>4, <1>6, <2>1 DEF StepsOf
<1>7. ASSUME NEW k \in DOMAIN u, k - Len(s) \in DOMAIN t
      PROVE  u[k] \in StepsOf(t) /\ \A y \in StepsOf(s) : \E l \in DOMAIN u : l < k /\ u[l] = y
  <2>1. Len(s) + (k - Len(s)) = k /\ \A l \in DOMAIN s : l < k
    BY <1>4, <1>7
  <2> QED
    BY <1>4, <1>7, <2>1 DEF StepsOf
<1>8. ASSUME NEW k \in DOMAIN u
      PROVE  \/ u[k] \in StepsOf(s) /\ \A y \in StepsOf(t) : \E l \in DOMAIN u : l > k /\ u[l] = y
             \/ u[k] \in StepsOf(t) /\ \A y \in StepsOf(s) : \E l \in DOMAIN u : l < k /\ u[l] = y
  BY <1>4, <1>6, <1>7
<1> QED
  BY <1>3, <1>5, <1>8 DEF u

(* One step that has no partner is a piece.                                *)
LEMMA OnePiece ==
  ASSUME NEW x, x.op \notin OfFile
  PROVE  Piece(<<x>>) /\ StepsOf(<<x>>) = {x}
<1>1. <<x>> \in Seq({x}) /\ DOMAIN <<x>> = {1} /\ <<x>>[1] = x
  OBVIOUS
<1>2. StepsOf(<<x>>) = {x}
  BY <1>1 DEF StepsOf
<1>3. Neat(<<x>>)
  BY <1>1 DEF Neat, Closed, Paired, Ordered, Saves, OfFile
<1> QED
  BY <1>1, <1>2, <1>3 DEF Piece

(* Pieces that may come one after the other make a piece, of their steps.  *)
LEMMA FlattenNeat ==
  ASSUME NEW S, NEW seqs \in Seq(Seq(S)),
         \A n \in DOMAIN seqs : Neat(seqs[n]),
         \A m, n \in DOMAIN seqs : m < n => Compatible(seqs[m], seqs[n])
  PROVE  /\ FlattenSeq(seqs) \in Seq(S) /\ Neat(FlattenSeq(seqs))
         /\ StepsOf(FlattenSeq(seqs)) = UNION {StepsOf(seqs[n]) : n \in DOMAIN seqs}
<1> DEFINE N == Len(seqs)
<1>0. N \in Nat /\ DOMAIN seqs = 1 .. N
  OBVIOUS
<1>1. CASE N = 0
  <2>1. FlattenSeq(seqs) = <<>> /\ DOMAIN seqs = {} /\ DOMAIN <<>> = {} /\ <<>> \in Seq(S)
    BY <1>1 DEF FlattenSeq
  <2>2. StepsOf(<<>>) = {} /\ Neat(<<>>)
    BY <2>1 DEF StepsOf, Neat, Closed
  <2> QED
    BY <2>1, <2>2
<1>2. CASE N # 0
  <2> DEFINE f == CHOOSE g : Joins(g, seqs, N)
  <2>1. Joins(f, seqs, N)
    BY <1>0, JoinsExists
  <2>2. FlattenSeq(seqs) = f[N]
    BY <1>2 DEF FlattenSeq, Joins
  <2> HIDE DEF f
  <2> DEFINE Upto(n) == UNION {StepsOf(seqs[m]) : m \in 1 .. n}
             Good(n) == f[n] \in Seq(S) /\ Neat(f[n]) /\ StepsOf(f[n]) = Upto(n)
             T == {n \in 1 .. N : ~ Good(n)}
  <2>3. T = {}
    <3> SUFFICES ASSUME T # {} PROVE FALSE
      OBVIOUS
    <3>0. T \subseteq Nat
      BY <1>0
    <3>1. PICK n \in T : \A m \in T : n <= m
      <4> HIDE DEF T
      <4> QED
        BY <3>0, Least
    <3>2. /\ n \in 1 .. N /\ n \in Nat \ {0} /\ seqs[n] \in Seq(S) /\ Neat(seqs[n]) /\ ~ Good(n)
      BY <1>0
    <3>3. CASE n = 1
      <4>1. f[1] = seqs[1]
        BY <2>1, <3>2, <3>3 DEF Joins
      <4>2. Upto(1) = StepsOf(seqs[1])
        OBVIOUS
      <4> QED
        BY <3>2, <3>3, <4>1, <4>2
    <3>4. CASE n # 1
      <4>1. n - 1 \in 1 .. N /\ ~ (n <= n - 1) /\ 1 .. n = 1 .. n - 1 \cup {n}
        BY <3>2, <3>4, SMTT(30)
      <4>2. Good(n - 1)
        BY <3>1, <4>1
      <4>3. f[n] = f[n - 1] \o seqs[n]
        BY <2>1, <3>2, <3>4 DEF Joins
      <4>4. Compatible(f[n - 1], seqs[n])
        <5>1. ASSUME NEW k \in DOMAIN f[n - 1]
              PROVE  \E m \in 1 .. n - 1 : \E j \in DOMAIN seqs[m] : f[n - 1][k] = seqs[m][j]
          <6>1. f[n - 1][k] \in StepsOf(f[n - 1])
            BY DEF StepsOf
          <6>2. PICK m \in 1 .. n - 1 : f[n - 1][k] \in StepsOf(seqs[m])
            BY <4>2, <6>1
          <6> QED
            BY <6>2 DEF StepsOf
        <5>2. \A m \in 1 .. n - 1 : m \in DOMAIN seqs /\ n \in DOMAIN seqs /\ Compatible(seqs[m], seqs[n])
          <6>1. \A m \in 1 .. n - 1 : m \in 1 .. N /\ m < n
            BY <3>2, <1>0
          <6> QED
            BY <1>0, <3>2, <6>1
        <5>3. ASSUME NEW k \in DOMAIN f[n - 1], NEW l \in DOMAIN seqs[n]
              PROVE  \E m \in 1 .. n - 1 : \E j \in DOMAIN seqs[m] :
                       f[n - 1][k] = seqs[m][j] /\ Compatible(seqs[m], seqs[n])
          BY <5>1, <5>2
        <5> SUFFICES ASSUME NEW k \in DOMAIN f[n - 1], NEW l \in DOMAIN seqs[n]
                     PROVE  LET s == f[n - 1] u == seqs[n] IN
                            /\ u[l].op # "post" /\ (u[l].op = "create" => u[l].row.target = NoTarget)
                            /\ s[k].op = "create" /\ s[k].row.target # NoTarget => u[l].op \in {"write", "insert"}
                            /\ s[k].op \in Whole => u[l].op \in Whole \cup {"unlist"}
                            /\ s[k].op = "insert" /\ u[l].op = "insert" => ~ SameData(s[k], u[l])
                            /\ s[k].op = "create" /\ u[l].op = "create" => s[k].image # u[l].image
          BY DEF Compatible
        <5>4. PICK m \in 1 .. n - 1 : \E j \in DOMAIN seqs[m] :
                       f[n - 1][k] = seqs[m][j] /\ Compatible(seqs[m], seqs[n])
          BY <5>3
        <5>5. PICK j \in DOMAIN seqs[m] : f[n - 1][k] = seqs[m][j] /\ Compatible(seqs[m], seqs[n])
          BY <5>4
        <5> QED
          BY <5>5, SMTT(30) DEF Compatible
      <4>5. f[n - 1] \o seqs[n] \in Seq(S) /\ Neat(f[n - 1] \o seqs[n])
        BY <3>2, <4>2, <4>4, NeatJoined
      <4>6. StepsOf(f[n - 1] \o seqs[n]) = StepsOf(f[n - 1]) \cup StepsOf(seqs[n])
        BY <3>2, <4>2, StepsJoined, SMTT(30)
      <4>7. Upto(n) = Upto(n - 1) \cup StepsOf(seqs[n])
        <5>1. \A m : m \in 1 .. n <=> m \in 1 .. n - 1 \/ m = n
          BY <4>1
        <5>2. ASSUME NEW x
              PROVE  (\E m \in 1 .. n : x \in StepsOf(seqs[m]))
                       <=> (\E m \in 1 .. n - 1 : x \in StepsOf(seqs[m])) \/ x \in StepsOf(seqs[n])
          BY <5>1
        <5>3. \A l, x : x \in Upto(l) <=> \E m \in 1 .. l : x \in StepsOf(seqs[m])
          OBVIOUS
        <5> HIDE DEF Upto
        <5> QED
          BY <5>2, <5>3
      <4>8. f[n - 1] \in Seq(S) /\ Neat(f[n - 1]) /\ StepsOf(f[n - 1]) = Upto(n - 1)
        BY <4>2
      <4>9. f[n] \in Seq(S) /\ Neat(f[n])
        BY <4>3, <4>5
      <4>10. StepsOf(f[n]) = Upto(n)
        <5> HIDE DEF Upto
        <5> QED
          BY <4>3, <4>6, <4>7, <4>8
      <4> QED
        BY <3>2, <4>9, <4>10
    <3> QED
      BY <3>3, <3>4
  <2>4. N \in 1 .. N
    BY <1>0, <1>2
  <2> QED
    BY <1>0, <2>2, <2>3, <2>4
<1> QED
  BY <1>1, <1>2

(* The steps that destroy the data of an image.                            *)
LEMMA Discards ==
  ASSUME TypeOK, OneRow, NEW i \in DOMAIN images
  PROVE  LET h == images[i].hash
         IN /\ Piece(DiscardAll(i))
            /\ StepsOf(DiscardAll(i)) =
                 UNION {{OnData("unlink", i, h, v), OnData("delete", i, h, v)} : v \in VersionsOf(i)}
<1> DEFINE V == VersionsOf(i)
           L == SetToSeq(V)
           h == images[i].hash
           seqs == [n \in DOMAIN L |-> Discard(i, L[n])]
           X(v) == {OnData("unlink", i, h, v), OnData("delete", i, h, v)}
           S == UNION {X(v) : v \in V}
<1>1. IsFiniteSet(V)
  <2> DEFINE own == {e \in datas : e.image = i}
  <2>1. IsFiniteSet(own)
    BY FS_Subset DEF OneRow
  <2> DEFINE f == [d \in own |-> d.version]
  <2>2. f \in Surjection(own, V)
    BY DEF Surjection, VersionsOf
  <2> QED
    BY <2>1, <2>2, FS_Surjection
<1>2. L \in Seq(V) /\ \A v \in V : \E n \in DOMAIN L : L[n] = v
  <2> HIDE DEF V
  <2> QED
    BY <1>1, SetToSeqLists DEF Lists
<1> HIDE DEF L, V
<1>3. \A n \in DOMAIN seqs : /\ L[n] \in V
                              /\ seqs[n] = <<OnData("unlink", i, h, L[n]), OnData("delete", i, h, L[n])>>
  BY <1>2 DEF Discard
<1>4. DOMAIN seqs = DOMAIN L
  OBVIOUS
<1> HIDE DEF h
<1>5. ASSUME NEW v \in V
      PROVE  LET s == <<OnData("unlink", i, h, v), OnData("delete", i, h, v)>>
             IN s \in Seq(S) /\ Neat(s) /\ StepsOf(s) = X(v)
  <2> DEFINE x == OnData("unlink", i, h, v)
             y == OnData("delete", i, h, v)
  <2>1. /\ x.op = "unlink" /\ y.op = "delete" /\ x.image = y.image
        /\ x.hash = y.hash /\ x.version = y.version
    BY DEF OnData
  <2>2. x \in S /\ y \in S /\ X(v) = {x, y}
    OBVIOUS
  <2> HIDE DEF x, y, S, X
  <2>3. <<x, y>> \in Seq(S) /\ DOMAIN <<x, y>> = {1, 2} /\ <<x, y>>[1] = x /\ <<x, y>>[2] = y
    BY <2>2
  <2>4. StepsOf(<<x, y>>) = {x, y}
    BY <2>3 DEF StepsOf
  <2>5. Neat(<<x, y>>)
    BY <2>1, <2>3 DEF Neat, Closed, Paired, Ordered, Saves, SameFile, Whole
  <2> QED
    BY <2>2, <2>3, <2>4, <2>5 DEF x, y
<1> HIDE DEF S
<1>6. seqs \in Seq(Seq(S))
  <2>1. \A n \in DOMAIN L : seqs[n] \in Seq(S)
    BY <1>3, <1>4, <1>5
  <2>2. DOMAIN L = 1 .. Len(L) /\ Len(L) \in Nat
    BY <1>2
  <2>3. seqs = [n \in 1 .. Len(L) |-> seqs[n]]
    BY <2>2
  <2> HIDE DEF seqs
  <2> QED
    BY <1>4, <2>1, <2>2, <2>3
<1>7. ASSUME NEW m \in DOMAIN seqs, NEW n \in DOMAIN seqs PROVE Compatible(seqs[m], seqs[n])
  <2>1. \A l \in DOMAIN seqs : \A k \in DOMAIN seqs[l] : seqs[l][k].op \in {"unlink", "delete"}
    BY <1>3 DEF OnData
  <2> QED
    BY <1>7, <2>1 DEF Compatible, Whole
<1>8. \A n \in DOMAIN seqs : Neat(seqs[n]) /\ StepsOf(seqs[n]) = X(L[n])
  BY <1>3, <1>5
<1> HIDE DEF seqs
<1>9. /\ FlattenSeq(seqs) \in Seq(S) /\ Neat(FlattenSeq(seqs))
      /\ StepsOf(FlattenSeq(seqs)) = UNION {StepsOf(seqs[n]) : n \in DOMAIN seqs}
  BY <1>6, <1>7, <1>8, FlattenNeat
<1>10. UNION {StepsOf(seqs[n]) : n \in DOMAIN seqs} = S
  <2>1. \A n \in DOMAIN seqs : StepsOf(seqs[n]) = X(L[n]) /\ L[n] \in V
    BY <1>3, <1>8
  <2>2. \A v \in V : \E n \in DOMAIN seqs : StepsOf(seqs[n]) = X(v)
    BY <1>2, <1>4, <1>8
  <2> HIDE DEF X
  <2> QED
    BY <2>1, <2>2 DEF S
<1>11. DiscardAll(i) = FlattenSeq(seqs)
  BY DEF DiscardAll, ForEach, seqs, L, V
<1>12. FlattenSeq(seqs) \in Seq(StepsOf(FlattenSeq(seqs)))
  BY <1>9, OfItsOwn DEF StepsOf
<1> QED
  BY <1>9, <1>10, <1>11, <1>12 DEF Piece, S, V, h

(* The steps that save an image in every version.                          *)
LEMMA SavesAll ==
  ASSUME NEW i, NEW h, NEW data
  PROVE  /\ Piece(SaveAll(i, h, data))
         /\ StepsOf(SaveAll(i, h, data)) =
              UNION {{[op |-> "write", hash |-> h, version |-> v, data |-> data], Insert(i, h, v, TRUE)} :
                       v \in {"ORIGINAL"} \cup Scaled}
<1> DEFINE V == {"ORIGINAL"} \cup Scaled
           L == SetToSeq(Scaled)
           W(v) == [op |-> "write", hash |-> h, version |-> v, data |-> data]
           seqs == [n \in DOMAIN L |-> Save(i, h, L[n], data)]
           X(v) == {W(v), Insert(i, h, v, TRUE)}
           S == UNION {X(v) : v \in V}
           first == Save(i, h, "ORIGINAL", data)
<1>1. /\ L \in Seq(Scaled) /\ \A v \in Scaled : \E n \in DOMAIN L : L[n] = v
      /\ \A m, n \in DOMAIN L : L[m] = L[n] => m = n
      /\ DOMAIN L = 1 .. Len(L) /\ Len(L) \in Nat
  <2>1. IsFiniteSet(Scaled) /\ "ORIGINAL" \notin Scaled
    BY ImagesAssumption
  <2> QED
    BY <2>1, SetToSeqLists DEF Lists
<1>2. "ORIGINAL" \notin Scaled
  BY ImagesAssumption
<1> HIDE DEF L
<1>a. "ORIGINAL" \in V /\ (\A v \in Scaled : v \in V) /\ \A v \in V : v = "ORIGINAL" \/ v \in Scaled
  OBVIOUS
<1> HIDE DEF V
<1>3. \A n \in DOMAIN seqs : /\ L[n] \in Scaled /\ L[n] \in V
                              /\ seqs[n] = <<W(L[n]), Insert(i, h, L[n], TRUE)>>
  <2>1. \A n \in DOMAIN L : L[n] \in Scaled /\ L[n] \in V
    BY <1>1, <1>a
  <2> QED
    BY <2>1 DEF Save
<1>4. DOMAIN seqs = DOMAIN L
  OBVIOUS
<1>5. ASSUME NEW v \in V
      PROVE  LET s == <<W(v), Insert(i, h, v, TRUE)>>
             IN /\ s \in Seq(S) /\ Neat(s) /\ StepsOf(s) = X(v)
                /\ DOMAIN s = {1, 2} /\ s[1].op = "write"
                /\ s[2].op = "insert" /\ s[2].version = v /\ s[2].image = i
  <2> DEFINE x == W(v)
             y == Insert(i, h, v, TRUE)
  <2>1. /\ x.op = "write" /\ y.op = "insert" /\ y.stored
        /\ x.hash = y.hash /\ x.version = y.version /\ y.version = v /\ y.image = i
    BY DEF Insert
  <2>2. x \in S /\ y \in S /\ X(v) = {x, y}
    OBVIOUS
  <2> HIDE DEF x, y, S, X
  <2>3. <<x, y>> \in Seq(S) /\ DOMAIN <<x, y>> = {1, 2} /\ <<x, y>>[1] = x /\ <<x, y>>[2] = y
    BY <2>2
  <2>4. StepsOf(<<x, y>>) = {x, y}
    BY <2>3 DEF StepsOf
  <2>5. Neat(<<x, y>>)
    BY <2>1, <2>3 DEF Neat, Closed, Paired, Ordered, Saves, SameFile, Whole
  <2> QED
    BY <2>1, <2>2, <2>3, <2>4, <2>5 DEF x, y
<1> HIDE DEF S, W
<1>b. ASSUME NEW n \in DOMAIN seqs
      PROVE  /\ seqs[n] \in Seq(S) /\ Neat(seqs[n]) /\ StepsOf(seqs[n]) = X(L[n])
             /\ DOMAIN seqs[n] = {1, 2} /\ seqs[n][1].op = "write"
             /\ seqs[n][2].op = "insert" /\ seqs[n][2].version = L[n]
  <2> DEFINE v == L[n]
  <2>1. v \in V /\ seqs[n] = <<W(v), Insert(i, h, v, TRUE)>>
    BY <1>3
  <2> HIDE DEF v, seqs, X
  <2> DEFINE s == <<W(v), Insert(i, h, v, TRUE)>>
  <2>2. /\ s \in Seq(S) /\ Neat(s) /\ StepsOf(s) = X(v)
        /\ DOMAIN s = {1, 2} /\ s[1].op = "write"
        /\ s[2].op = "insert" /\ s[2].version = v
    BY <1>5, <2>1
  <2>3. seqs[n] = s
    BY <2>1
  <2> HIDE DEF s
  <2> QED
    BY <2>2, <2>3 DEF v
<1>6. seqs \in Seq(Seq(S))
  <2>1. \A n \in DOMAIN L : seqs[n] \in Seq(S)
    BY <1>4, <1>b
  <2>2. seqs = [n \in 1 .. Len(L) |-> seqs[n]]
    BY <1>1
  <2> HIDE DEF seqs
  <2> QED
    BY <1>1, <1>4, <2>1, <2>2
<1>7. ASSUME NEW m \in DOMAIN seqs, NEW n \in DOMAIN seqs, m < n PROVE Compatible(seqs[m], seqs[n])
  <2>1. \A l \in DOMAIN seqs :
          /\ DOMAIN seqs[l] = {1, 2} /\ seqs[l][1].op = "write"
          /\ seqs[l][2].op = "insert" /\ seqs[l][2].version = L[l]
    BY <1>b
  <2>2. L[m] # L[n]
    <3>1. m # n
      BY <1>1, <1>4, <1>7
    <3> QED
      BY <1>1, <1>4, <3>1
  <2> HIDE DEF seqs
  <2>3. \A k \in DOMAIN seqs[m] : seqs[m][k].op \in {"write", "insert"} /\ (seqs[m][k].op = "insert" => k = 2)
    BY <2>1
  <2>4. \A k \in DOMAIN seqs[n] : seqs[n][k].op \in {"write", "insert"} /\ (seqs[n][k].op = "insert" => k = 2)
    BY <2>1
  <2> QED
    BY <2>1, <2>2, <2>3, <2>4 DEF Compatible, Whole, SameData
<1>8. \A n \in DOMAIN seqs : Neat(seqs[n]) /\ StepsOf(seqs[n]) = X(L[n])
  BY <1>b
<1>9. first \in Seq(S) /\ Neat(first) /\ StepsOf(first) = X("ORIGINAL")
  BY <1>5, <1>a DEF Save, W
<1>10. first = <<W("ORIGINAL"), Insert(i, h, "ORIGINAL", TRUE)>>
  BY DEF Save, W
<1> HIDE DEF seqs, first
<1>11. /\ FlattenSeq(seqs) \in Seq(S) /\ Neat(FlattenSeq(seqs))
       /\ StepsOf(FlattenSeq(seqs)) = UNION {StepsOf(seqs[n]) : n \in DOMAIN seqs}
  BY <1>6, <1>7, <1>8, FlattenNeat
<1>12. /\ \A v \in Scaled : X(v) \subseteq StepsOf(FlattenSeq(seqs))
       /\ \A x \in StepsOf(FlattenSeq(seqs)) : \E v \in Scaled : x \in X(v)
  <2>1. \A n \in DOMAIN seqs : StepsOf(seqs[n]) = X(L[n]) /\ L[n] \in Scaled
    BY <1>3, <1>8
  <2>2. \A v \in Scaled : \E n \in DOMAIN seqs : StepsOf(seqs[n]) = X(v)
    BY <1>1, <1>4, <1>8
  <2> HIDE DEF X
  <2> QED
    BY <1>11, <2>1, <2>2
<1>13. Compatible(first, FlattenSeq(seqs))
  <2>1. \A k \in DOMAIN FlattenSeq(seqs) : \E v \in Scaled :
          FlattenSeq(seqs)[k] = W(v) \/ FlattenSeq(seqs)[k] = Insert(i, h, v, TRUE)
    BY <1>12 DEF StepsOf
  <2>2. \A k \in DOMAIN first : first[k] = W("ORIGINAL") \/ first[k] = Insert(i, h, "ORIGINAL", TRUE)
    BY <1>9 DEF StepsOf
  <2>3. /\ \A v : W(v).op = "write"
        /\ \A v : Insert(i, h, v, TRUE).op = "insert" /\ Insert(i, h, v, TRUE).version = v
    BY DEF W, Insert
  <2> HIDE DEF seqs, first
  <2>4. \A k \in DOMAIN FlattenSeq(seqs) :
          /\ FlattenSeq(seqs)[k].op \in {"write", "insert"}
          /\ FlattenSeq(seqs)[k].op = "insert" => FlattenSeq(seqs)[k].version # "ORIGINAL"
    <3> SUFFICES ASSUME NEW k \in DOMAIN FlattenSeq(seqs)
                 PROVE  /\ FlattenSeq(seqs)[k].op \in {"write", "insert"}
                        /\ FlattenSeq(seqs)[k].op = "insert" => FlattenSeq(seqs)[k].version # "ORIGINAL"
      OBVIOUS
    <3>1. PICK v \in Scaled :
            FlattenSeq(seqs)[k] = W(v) \/ FlattenSeq(seqs)[k] = Insert(i, h, v, TRUE)
      BY <2>1
    <3>2. v # "ORIGINAL"
      BY <1>2
    <3> QED
      BY <2>3, <3>1, <3>2
  <2>5. \A k \in DOMAIN first : /\ first[k].op \in {"write", "insert"}
                                /\ first[k].op = "insert" => first[k].version = "ORIGINAL"
    BY <2>2, <2>3
  <2> QED
    BY <2>4, <2>5 DEF Compatible, Whole, SameData
<1> DEFINE u == first \o FlattenSeq(seqs)
<1>14. u \in Seq(S) /\ Neat(u) /\ StepsOf(u) = StepsOf(first) \cup StepsOf(FlattenSeq(seqs))
  BY <1>9, <1>11, <1>13, NeatJoined, StepsJoined
<1>15. StepsOf(u) = S
  <2>1. \A x : x \in S <=> \E v \in V : x \in X(v)
    BY DEF S
  <2> HIDE DEF X, u
  <2> QED
    BY <1>9, <1>12, <1>14, <1>a, <2>1
<1>16. SaveAll(i, h, data) = u
  BY DEF SaveAll, ForEach, seqs, L, first
<1> HIDE DEF u
<1>17. u \in Seq(StepsOf(u))
  BY <1>14, OfItsOwn DEF StepsOf
<1> QED
  BY <1>14, <1>15, <1>16, <1>17 DEF Piece, S, W, V

(* A step for each element of a list.                                      *)
Each(L, f) == FlattenSeq([n \in DOMAIN L |-> <<f[L[n]]>>])

(* These make a piece on their own.                                        *)
Alike(S, f) == (\A x \in S : f[x].op = "link") \/ (\A x \in S : f[x].op \in Whole)

(* They may all be links, or all be to become steps when they are reached. *)
LEMMA Singles ==
  ASSUME NEW S, NEW L, Lists(L, S), NEW X, NEW f, f \in [S -> X], Alike(S, f)
  PROVE  /\ Piece(Each(L, f)) /\ \A x \in S : f[x] \in StepsOf(Each(L, f))
         /\ \A y \in StepsOf(Each(L, f)) : \E x \in S : y = f[x]
<1> DEFINE seqs == [n \in DOMAIN L |-> <<f[L[n]]>>]
<1>1. /\ L \in Seq(S) /\ \A x \in S : \E n \in DOMAIN L : L[n] = x
      /\ DOMAIN L = 1 .. Len(L) /\ Len(L) \in Nat
  BY DEF Lists
<1>2. \A n \in DOMAIN L : L[n] \in S
  BY <1>1
<1>3. ASSUME NEW n \in DOMAIN L
      PROVE  /\ seqs[n] = <<f[L[n]]>> /\ seqs[n] \in Seq(X) /\ DOMAIN seqs[n] = {1} /\ seqs[n][1] = f[L[n]]
             /\ StepsOf(seqs[n]) = {f[L[n]]} /\ Neat(seqs[n])
  <2> DEFINE x == f[L[n]]
  <2>1. x \in X /\ x.op \in Whole \cup {"link"}
    BY <1>2 DEF Alike
  <2>2. seqs[n] = <<x>>
    OBVIOUS
  <2> HIDE DEF x, seqs
  <2>3. <<x>> \in Seq(X) /\ DOMAIN <<x>> = {1} /\ <<x>>[1] = x
    BY <2>1
  <2>4. StepsOf(<<x>>) = {x}
    BY <2>3 DEF StepsOf
  <2>5. Neat(<<x>>)
    BY <2>1, <2>3 DEF Neat, Closed, Paired, Ordered, Saves, Whole
  <2> QED
    BY <2>2, <2>3, <2>4, <2>5 DEF x
<1>4. DOMAIN seqs = DOMAIN L /\ seqs = [n \in 1 .. Len(L) |-> seqs[n]]
  BY <1>1
<1> HIDE DEF seqs
<1>5. seqs \in Seq(Seq(X))
  BY <1>1, <1>3, <1>4
<1>6. ASSUME NEW m \in DOMAIN seqs, NEW n \in DOMAIN seqs PROVE Compatible(seqs[m], seqs[n])
  <2>1. \A k \in DOMAIN seqs[m] : seqs[m][k] = f[L[m]]
    BY <1>3, <1>4
  <2>2. \A k \in DOMAIN seqs[n] : seqs[n][k] = f[L[n]]
    BY <1>3, <1>4
  <2>3. L[m] \in S /\ L[n] \in S
    BY <1>2, <1>4
  <2> QED
    BY <2>1, <2>2, <2>3 DEF Compatible, Whole, Alike
<1>7. /\ FlattenSeq(seqs) \in Seq(X) /\ Neat(FlattenSeq(seqs))
      /\ StepsOf(FlattenSeq(seqs)) = UNION {StepsOf(seqs[n]) : n \in DOMAIN seqs}
  <2>1. \A n \in DOMAIN seqs : Neat(seqs[n])
    BY <1>3, <1>4
  <2>2. \A m, n \in DOMAIN seqs : m < n => Compatible(seqs[m], seqs[n])
    BY <1>6
  <2> QED
    BY <1>5, <2>1, <2>2, FlattenNeat
<1>8. UNION {StepsOf(seqs[n]) : n \in DOMAIN seqs} = {f[x] : x \in S}
  BY <1>1, <1>2, <1>3, <1>4
<1>9. FlattenSeq(seqs) \in Seq(StepsOf(FlattenSeq(seqs)))
  BY <1>7, OfItsOwn DEF StepsOf
<1> QED
  BY <1>7, <1>8, <1>9 DEF Piece, Each, seqs
-----------------------------------------------------------------------------
(* The programs.                                                           *)

(* An idle actor begins.                                                   *)
LEMMA BegunGrown ==
  ASSUME TypeOK, NEW a \in Actor, NEW t, Piece(t), Begin(a, t), last' \in last .. MaxRows
  PROVE  Grown(a, t) /\ work[a] = <<>>
<1>1. work[a] = <<>> /\ work' = [work EXCEPT ![a] = t] /\ DOMAIN work = Actor
  BY DEF Begin, TypeOK
<1>2. t \o <<>> = t
  BY DEF Piece
<1>3. work' = [work EXCEPT ![a] = t \o Left(@)]
  BY <1>1, <1>2 DEF Left
<1> QED
  BY <1>1, <1>3 DEF Grown, Begin

(* A step becomes the steps it is made of.                                 *)
LEMMA ReplacedGrown ==
  ASSUME TypeOK, Programs, NEW a \in Actor, NEW t, work[a] # <<>>, Head(work[a]).op \in Whole,
         Replace(a, t), UNCHANGED <<store, last, crashes>>
  PROVE  Grown(a, t)
<1>1. DOMAIN work = Actor /\ Head(work[a]) = work[a][1]
  <2>1. work[a] \in Seq(Ahead(a))
    BY DEF Programs
  <2> QED
    BY <2>1, Rest DEF TypeOK
<1>2. work' = [work EXCEPT ![a] = t \o Left(@)]
  BY <1>1 DEF Replace, Left
<1>3. last' \in last .. MaxRows
  BY Numbers
<1> QED
  BY <1>1, <1>2, <1>3 DEF Grown, Replace

(* What the first step says.                                               *)
LEMMA FirstStep ==
  ASSUME TypeOK, Programs, NEW a \in Actor, work[a] # <<>>
  PROVE  /\ Head(work[a]) = work[a][1] /\ Head(work[a]) \in Ahead(a)
         /\ Typed(Head(work[a])) /\ Duty(a, Head(work[a]))
<1>1. work[a] \in Seq(Ahead(a))
  BY DEF Programs
<1>2. Head(work[a]) = work[a][1] /\ Head(work[a]) \in Ahead(a)
  BY <1>1, Rest
<1> QED
  BY <1>2 DEF Programs

(* ImageService.destroy() destroys the data of the image, and the image.   *)
Destroying(i, t) == t = DiscardAll(i) \o <<On("drop", i)>>

(* Its steps are sound.                                                    *)
LEMMA LoadSound ==
  ASSUME TypeOK, Programs, Identity, OneRow, NEW a \in Actor, NEW s \in Ahead(a),
         s.op = "load", NEW i \in DOMAIN images, last' = last, NEW t, Destroying(i, t)
  PROVE  Sound(a, t) /\ a # "inbox"
<1> DEFINE h == images[i].hash
           D == DiscardAll(i)
           e == On("drop", i)
           X(v) == {OnData("unlink", i, h, v), OnData("delete", i, h, v)}
<1>1. Piece(D) /\ StepsOf(D) = UNION {X(v) : v \in VersionsOf(i)}
  BY Discards
<1>2. /\ e.op = "drop" /\ e.image = i /\ e.hash = h
      /\ \A v : \A x \in X(v) : x.op \in {"unlink", "delete"} /\ x.image = i /\ x.hash = h /\ x.version = v
  BY DEF On, OnData
<1>3. /\ Duty(a, s) /\ i \in Id /\ h \in Hash /\ i <= last
      /\ VersionsOf(i) \subseteq ImageVersions
  <2>1. images[i] \in ImageRow /\ datas \subseteq ImageData
    BY DEF TypeOK
  <2> QED
    BY <2>1, Numbers DEF ImageRow, ImageData, VersionsOf, Programs, TypeOK, Id
<1>4. a # "inbox" /\ (a = "user" \/ a \notin {"inbox", "user"})
  BY <1>3 DEF Duty, OfFile
<1>t. t = D \o <<e>>
  BY DEF Destroying
<1> HIDE DEF D, e, X, h
<1>5. /\ \A x \in StepsOf(D) : /\ x.op \in {"unlink", "delete"} /\ x.image = i /\ x.hash = h
                               /\ x.version \in ImageVersions
  BY <1>1, <1>2, <1>3
<1>6. Piece(<<e>>) /\ StepsOf(<<e>>) = {e} /\ DOMAIN <<e>> = {1} /\ <<e>>[1] = e
  <2>1. e.op \notin OfFile
    BY <1>2 DEF OfFile
  <2> QED
    BY <2>1, OnePiece
<1>7. Compatible(D, <<e>>)
  <2>1. \A k \in DOMAIN D : D[k].op \in {"unlink", "delete"}
    BY <1>5 DEF StepsOf
  <2> QED
    BY <1>2, <1>6, <2>1 DEF Compatible, Whole
<1>8. /\ Piece(t) /\ StepsOf(t) = StepsOf(D) \cup {e}
      /\ \A k \in DOMAIN t : t[k] \in StepsOf(D) => \E l \in DOMAIN t : l > k /\ t[l] = e
  <2>1. e \notin StepsOf(D)
    BY <1>2, <1>5
  <2>2. /\ Piece(t) /\ StepsOf(t) = StepsOf(D) \cup StepsOf(<<e>>)
        /\ \A k \in DOMAIN t :
             \/ t[k] \in StepsOf(D) /\ \A y \in StepsOf(<<e>>) : \E l \in DOMAIN t : l > k /\ t[l] = y
             \/ t[k] \in StepsOf(<<e>>)
    BY <1>1, <1>6, <1>7, <1>t, PiecesJoined
  <2> QED
    BY <1>6, <2>1, <2>2
<1>9. \A k \in DOMAIN t : /\ t[k].op \in {"unlink", "delete", "drop"} /\ t[k].image = i /\ t[k].hash = h
                          /\ t[k].op # "drop" => t[k].version \in ImageVersions /\ t[k] \in StepsOf(D)
  <2>1. \A k \in DOMAIN t : t[k] \in StepsOf(D) \cup {e}
    BY <1>8 DEF StepsOf
  <2> QED
    BY <1>2, <1>5, <2>1
<1>10. \A k \in DOMAIN t : Fulfilled(t, k)
  BY <1>2, <1>8, <1>9 DEF Fulfilled, Drops
<1>11. \A k \in DOMAIN t : Typed(t[k])'
  BY <1>3, <1>9 DEF Typed, Operation, OfImage, OfPost, OfFile
<1>12. \A k \in DOMAIN t : Duty(a, t[k])
  BY <1>4, <1>9 DEF Duty, OfFile
<1>13. About(t) /\ InsertsOwn(a, t)
  BY <1>9 DEF About, InsertsOwn, Known, h
<1> QED
  BY <1>4, <1>8, <1>9, <1>10, <1>11, <1>12, <1>13 DEF Sound, Piece, Neat

(* ImageService.update() destroys the old data and saves the new.          *)
Refreshing(s, i, h, data, t) ==
  /\ i = s.image /\ h = s.hash /\ data = s.data
  /\ t = DiscardAll(i) \o SaveAll(i, h, data)

(* Its steps are sound.                                                    *)
LEMMA RefreshSound ==
  ASSUME TypeOK, Programs, Identity, OneRow, NEW a \in Actor, NEW s \in Ahead(a),
         s.op = "refresh", NEW i \in DOMAIN images, NEW h, NEW data, NEW t, Refreshing(s, i, h, data, t),
         last' = last
  PROVE  Sound(a, t) /\ \A k \in DOMAIN t : t[k].op \in OfFile
<1> DEFINE D == DiscardAll(i)
           E == SaveAll(i, h, data)
           X(v) == {OnData("unlink", i, h, v), OnData("delete", i, h, v)}
           Y(v) == {[op |-> "write", hash |-> h, version |-> v, data |-> data], Insert(i, h, v, TRUE)}
           V == {"ORIGINAL"} \cup Scaled
<1>1. /\ s \in Ahead(a) /\ Typed(s) /\ Duty(a, s) /\ images[i].hash = h
      /\ a = "inbox" /\ images[i].target # NoTarget
  <2>1. s \in Ahead(a) /\ Typed(s) /\ Duty(a, s) /\ s.image = i /\ s.hash = h
    BY DEF Programs, Refreshing
  <2>2. a = "inbox"
    BY <2>1 DEF Duty, OfFile
  <2>3. images[i].hash = h /\ images[i].target # NoTarget
    BY <2>1, <2>2 DEF Identity, SameHash, OwnImages, OfImage
  <2> QED
    BY <2>1, <2>2, <2>3
<1>2. Piece(D) /\ StepsOf(D) = UNION {X(v) : v \in VersionsOf(i)}
  BY <1>1, Discards
<1>3. Piece(E) /\ StepsOf(E) = UNION {Y(v) : v \in V}
  BY ONLY SavesAll
<1>4. /\ \A v : \A x \in X(v) : x.op \in {"unlink", "delete"} /\ x.image = i /\ x.hash = h /\ x.version = v
      /\ \A v : \A x \in Y(v) : /\ x.op \in {"write", "insert"} /\ x.hash = h /\ x.version = v
                                /\ x.op = "insert" => x.image = i /\ x.stored = TRUE
                                /\ x.op = "write" => x.data = data
      /\ \A v : \E x \in X(v) : x.op = "delete"
      /\ \A v : \E x \in Y(v) : x.op = "insert"
  BY DEF OnData, Insert
<1>5. /\ i \in Id /\ h \in Hash /\ i <= last /\ data \in {"whole", "small"}
      /\ VersionsOf(i) \subseteq ImageVersions /\ V \subseteq ImageVersions \ {"RESIZED"} /\ "ORIGINAL" \in V
  <2>1. datas \subseteq ImageData
    BY DEF TypeOK
  <2> QED
    BY <1>1, <2>1, Numbers, ImagesAssumption DEF Refreshing, ImageData, VersionsOf, Typed, OfImage, ImageVersions
<1>t. t = D \o E
  BY DEF Refreshing
<1> HIDE DEF D, E, X, Y, V
<1>6. \A x \in StepsOf(D) : /\ x.op \in {"unlink", "delete"} /\ x.image = i /\ x.hash = h
                            /\ x.version \in ImageVersions
  BY <1>2, <1>4, <1>5
<1>7. \A x \in StepsOf(E) : /\ x.op \in {"write", "insert"} /\ x.hash = h /\ x.version \in V
                            /\ x.op = "insert" => x.image = i /\ x.stored = TRUE
                            /\ x.op = "write" => x.data = data
  BY <1>3, <1>4
<1>8. ASSUME NEW v \in VersionsOf(i)
      PROVE  \E x \in StepsOf(D) : x.op = "delete" /\ x.image = i /\ x.version = v
  <2>1. PICK x \in X(v) : x.op = "delete"
    BY <1>4
  <2>2. x \in StepsOf(D) /\ x.image = i /\ x.version = v
    BY <1>2, <1>4
  <2> QED
    BY <2>1, <2>2
<1>9. \E x \in StepsOf(E) : Brings(x, i)
  <2>1. PICK x \in Y("ORIGINAL") : x.op = "insert"
    BY <1>4
  <2>2. x \in StepsOf(E) /\ x.image = i /\ x.version = "ORIGINAL" /\ x.stored = TRUE
    BY <1>3, <1>4, <1>5, <2>1
  <2> QED
    BY <2>1, <2>2 DEF Brings
<1>10. Compatible(D, E)
  <2>1. \A k \in DOMAIN D : D[k].op \in {"unlink", "delete"}
    BY <1>6 DEF StepsOf
  <2>2. \A k \in DOMAIN E : E[k].op \in {"write", "insert"}
    BY <1>7 DEF StepsOf
  <2> QED
    BY <2>1, <2>2 DEF Compatible, Whole
<1>11. /\ Piece(t) /\ StepsOf(t) = StepsOf(D) \cup StepsOf(E)
       /\ \A k \in DOMAIN t :
            \/ t[k] \in StepsOf(D) /\ \A y \in StepsOf(E) : \E l \in DOMAIN t : l > k /\ t[l] = y
            \/ t[k] \in StepsOf(E) /\ \A y \in StepsOf(D) : \E l \in DOMAIN t : l < k /\ t[l] = y
  <2>1. Piece(D) /\ Piece(E)
    BY <1>2, <1>3
  <2> QED
    BY <1>10, <1>t, <2>1, PiecesJoined
<1>12. \A k \in DOMAIN t :
         /\ t[k].op \in {"unlink", "delete", "write", "insert"} /\ t[k].hash = h
         /\ t[k].version \in ImageVersions /\ (t[k].op = "insert" => t[k].version # "RESIZED")
         /\ t[k].op # "write" => t[k].image = i
         /\ t[k].op = "insert" => t[k].stored = TRUE
         /\ t[k].op = "write" => t[k].data = data
  BY <1>5, <1>6, <1>7, <1>11
<1>13. ASSUME NEW k \in DOMAIN t, t[k].op = "delete"
       PROVE  \E l \in DOMAIN t : l > k /\ Brings(t[l], t[k].image)
  <2>1. t[k] \in StepsOf(D) /\ t[k].image = i
    BY <1>6, <1>7, <1>11, <1>13
  <2>2. \A y \in StepsOf(E) : \E l \in DOMAIN t : l > k /\ t[l] = y
    BY <1>7, <1>11, <1>13
  <2> QED
    BY <1>9, <2>1, <2>2
<1>14. \A k \in DOMAIN t : Fulfilled(t, k)
  BY <1>12, <1>13 DEF Fulfilled
<1>15. \A k \in DOMAIN t : Typed(t[k])'
  BY <1>5, <1>12 DEF Typed, Operation, OfImage, OfPost, OfFile
<1>16. \A k \in DOMAIN t : Duty(a, t[k])
  BY <1>1, <1>12 DEF Duty
<1>17. About(t)
  BY <1>1, <1>12 DEF About, Known, OfImage
<1>18. InsertsOwn(a, t)
  <2> SUFFICES ASSUME NEW k \in DOMAIN t, t[k].op = "insert", NEW d \in datas, SameData(d, t[k])
               PROVE  \E j \in DOMAIN t : j < k /\ t[j].op = "delete" /\ SameData(d, t[j])
    BY <1>1, <1>12 DEF InsertsOwn
  <2>1. d.image = i /\ d.version = t[k].version
    BY <1>12 DEF SameData
  <2>2. PICK x \in StepsOf(D) : x.op = "delete" /\ x.image = i /\ x.version = d.version
    BY <1>8, <2>1 DEF VersionsOf
  <2>3. \E j \in DOMAIN t : j < k /\ t[j] = x
    BY <1>6, <1>7, <1>11, <2>2
  <2> QED
    BY <2>1, <2>2, <2>3 DEF SameData
<1>19. \A k \in DOMAIN t : t[k].op # "create"
  BY <1>12
<1>20. t \in Seq(StepsOf(t)) /\ Closed(t) /\ \A k \in DOMAIN t : Ordered(t, k)
  BY <1>11 DEF Piece, Neat
<1>21. \A k \in DOMAIN t : t[k].op \in OfFile
  BY <1>12 DEF OfFile
<1> QED
  BY <1>14, <1>15, <1>16, <1>17, <1>18, <1>19, <1>20, <1>21 DEF Sound

(* Steps that are to become steps, about images that are there.            *)
LEMMA CallsSound ==
  ASSUME TypeOK, last' = last, NEW a \in Actor, NEW t, Piece(t),
         \A x \in StepsOf(t) :
           /\ Typed(x) /\ Duty(a, x) /\ x.op \in Whole \cup {"unlist"}
           /\ x.op \in Whole => Known(x)
           /\ x.op = "refresh" => images[x.image].target # NoTarget
  PROVE  Sound(a, t)
<1>1. \A k \in DOMAIN t :
        /\ Typed(t[k]) /\ Duty(a, t[k]) /\ t[k].op \in {"load", "refresh", "resize", "unlist"}
        /\ t[k].op \in Whole => Known(t[k])
        /\ t[k].op = "refresh" => images[t[k].image].target # NoTarget
  BY DEF StepsOf, Whole
<1>2. \A k \in DOMAIN t : Typed(t[k])'
  BY <1>1, TypedKept, Numbers
<1>3. \A k \in DOMAIN t : Fulfilled(t, k)
  BY <1>1 DEF Fulfilled
<1>4. About(t) /\ InsertsOwn(a, t)
  BY <1>1 DEF About, InsertsOwn, OfImage, Whole
<1> QED
  BY <1>1, <1>2, <1>3, <1>4 DEF Sound, Piece, Neat

(* Images are finitely many.                                               *)
LEMMA ImagesFinite ==
  ASSUME TypeOK, NEW S, S \subseteq DOMAIN images
  PROVE  S \subseteq Nat /\ IsFiniteSet(S)
<1>1. last \in Nat /\ S \subseteq 1 .. last
  BY Numbers DEF TypeOK
<1>2. IsFiniteSet(1 .. last)
  BY <1>1, FS_Interval
<1> QED
  BY <1>1, <1>2, FS_Subset

(* A call for each of some images.                                         *)
Calls(op, S) == FlattenSeq([n \in DOMAIN InOrder(S) |-> <<On(op, InOrder(S)[n])>>])

(* They make a piece of a program, one step for each image.                *)
LEMMA CallsOf ==
  ASSUME TypeOK, NEW S, S \subseteq DOMAIN images, NEW op \in Whole
  PROVE  Piece(Calls(op, S)) /\ StepsOf(Calls(op, S)) = {On(op, i) : i \in S}
<1> DEFINE L == InOrder(S)
           X == {On(op, i) : i \in S}
           f == [i \in S |-> On(op, i)]
<1>1. Lists(L, S)
  BY ImagesFinite, InOrderLists
<1>2. L \in Seq(S) /\ \A n \in DOMAIN L : L[n] \in S
  BY <1>1 DEF Lists
<1>3. f \in [S -> X] /\ \A i \in S : f[i] = On(op, i)
  OBVIOUS
<1>4. Alike(S, f)
  BY DEF On, Alike
<1>5. {f[i] : i \in S} = X
  OBVIOUS
<1> HIDE DEF f, L, X
<1>a. f \in [S -> X]
  BY <1>3
<1>6. [n \in DOMAIN L |-> <<On(op, L[n])>>] = [n \in DOMAIN L |-> <<f[L[n]]>>]
  BY <1>2, <1>3
<1>7. /\ Piece(Each(L, f)) /\ \A x \in S : f[x] \in StepsOf(Each(L, f))
      /\ \A y \in StepsOf(Each(L, f)) : \E x \in S : y = f[x]
  BY <1>1, <1>a, <1>4, Singles
<1>8. Calls(op, S) = Each(L, f)
  BY <1>6 DEF Calls, Each, L
<1>9. StepsOf(Each(L, f)) = {f[x] : x \in S}
  BY <1>7
<1> QED
  BY <1>5, <1>7, <1>8, <1>9 DEF X

(* A step that is about an image that is there.                            *)
LEMMA OnTyped ==
  ASSUME TypeOK, NEW i \in DOMAIN images, NEW op \in {"load", "resize", "drop"}
  PROVE  /\ On(op, i).op = op /\ On(op, i).image = i /\ On(op, i).hash = images[i].hash
         /\ Typed(On(op, i)) /\ Known(On(op, i))
<1>1. On(op, i).op = op /\ On(op, i).image = i /\ On(op, i).hash = images[i].hash
  BY DEF On
<1>2. i \in Id /\ i <= last /\ images[i].hash \in Hash
  BY Numbers DEF ImageRow
<1>3. Typed(On(op, i))
  BY <1>1, <1>2 DEF Typed, Operation, OfPost, OfFile
<1> QED
  BY <1>1, <1>3 DEF Known

(* The user compresses or removes an image.                                *)
Calling(op, i, t) == t = <<On(op, i)>>

(* The step is sound.                                                      *)
LEMMA CallSound ==
  ASSUME TypeOK, NEW i \in DOMAIN images, NEW op \in {"load", "resize"}, last' = last,
         NEW t, Calling(op, i, t)
  PROVE  Piece(t) /\ Sound("user", t)
<1> DEFINE e == On(op, i)
<1>1. e.op = op /\ Typed(e) /\ Known(e)
  BY OnTyped
<1>2. t = <<e>>
  BY DEF Calling
<1> HIDE DEF e
<1>3. Piece(t) /\ StepsOf(t) = {e}
  <2>1. e.op \notin OfFile
    BY <1>1 DEF OfFile
  <2> QED
    BY <1>2, <2>1, OnePiece
<1>4. "user" \in Actor /\ Duty("user", e)
  BY <1>1 DEF Actor, Duty
<1>5. e.op \in Whole /\ e.op # "refresh"
  BY <1>1 DEF Whole
<1> QED
  BY <1>1, <1>3, <1>4, <1>5, CallsSound

(* An observer destroys the images of a listing and the listing.           *)
Unlisting(p, t) ==
  t = Calls("load", {i \in DOMAIN images : images[i].owner = p})
        \o <<[op |-> "unlist", hash |-> "none", post |-> p, target |-> posts[p].hash]>>

(* Its steps are sound.                                                    *)
LEMMA UnlistingSound ==
  ASSUME TypeOK, NEW a \in Observers, NEW p \in DOMAIN posts, posts[p].hash \in Listing, last' = last,
         NEW t, Unlisting(p, t)
  PROVE  Piece(t) /\ Sound(a, t)
<1> DEFINE own == {i \in DOMAIN images : images[i].owner = p}
           c == Calls("load", own)
           e == [op |-> "unlist", hash |-> "none", post |-> p, target |-> posts[p].hash]
<1>1. Piece(c) /\ StepsOf(c) = {On("load", i) : i \in own}
  BY CallsOf DEF Whole
<1>2. e.op = "unlist" /\ Typed(e)
  BY Numbers DEF Typed, Operation, OfImage, OfPost, OfFile
<1>3. t = c \o <<e>>
  BY DEF Unlisting
<1>4. \A i \in own : Typed(On("load", i)) /\ Known(On("load", i)) /\ On("load", i).op = "load"
  BY OnTyped
<1>5. a \in Actor /\ a \notin {"inbox", "user"}
  BY ImagesAssumption DEF Actor
<1> HIDE DEF c, e
<1>6. \A x \in StepsOf(c) : Typed(x) /\ Known(x) /\ x.op = "load"
  BY <1>1, <1>4
<1>7. Piece(<<e>>) /\ StepsOf(<<e>>) = {e}
  <2>1. e.op \notin OfFile
    BY <1>2 DEF OfFile
  <2> QED
    BY <2>1, OnePiece
<1>8. Compatible(c, <<e>>)
  <2>1. \A k \in DOMAIN c : c[k].op = "load"
    BY <1>6 DEF StepsOf
  <2>2. \A k \in DOMAIN <<e>> : <<e>>[k].op = "unlist"
    BY <1>2
  <2> QED
    BY <2>1, <2>2 DEF Compatible, Whole
<1>9. Piece(t) /\ StepsOf(t) = StepsOf(c) \cup {e}
  <2>1. Piece(c)
    BY <1>1
  <2> QED
    BY <1>3, <1>7, <1>8, <2>1, PiecesJoined
<1>10. \A x \in StepsOf(t) : Typed(x) /\ (x.op = "load" \/ x.op = "unlist") /\ (x.op = "load" => Known(x))
  BY <1>2, <1>6, <1>9
<1>11. \A x \in StepsOf(t) :
           /\ Typed(x) /\ Duty(a, x) /\ x.op \in Whole \cup {"unlist"}
           /\ x.op \in Whole => Known(x)
           /\ x.op = "refresh" => images[x.image].target # NoTarget
  BY <1>5, <1>10 DEF Duty, Whole
<1> QED
  BY <1>5, <1>9, <1>11, CallsSound

(* createResizedVersion() saves the small version.                         *)
Resizing(i, t) == t = Resized(i)

(* Its steps are sound.                                                    *)
LEMMA ResizeSound ==
  ASSUME TypeOK, Programs, NEW a \in Actor, NEW s \in Ahead(a), s.op = "resize",
         NEW i \in DOMAIN images, last' = last, NEW t, Resizing(i, t)
  PROVE  Sound(a, t) /\ a = "user"
<1> DEFINE h == images[i].hash
           W == [op |-> "write", hash |-> h, version |-> "RESIZED", data |-> "small"]
           Y == Insert(i, h, "RESIZED", TRUE)
           X == OnData("unlink", i, h, "RESIZED")
           Z == OnData("update", i, h, "RESIZED")
<1>1. a = "user"
  BY ImagesAssumption DEF Programs, Duty, Actor
<1>2. /\ W.op = "write" /\ W.hash = h /\ W.version = "RESIZED" /\ W.data = "small"
      /\ Y.op = "insert" /\ Y.image = i /\ Y.hash = h /\ Y.version = "RESIZED" /\ Y.stored = TRUE
      /\ X.op = "unlink" /\ X.image = i /\ X.hash = h /\ X.version = "RESIZED"
      /\ Z.op = "update" /\ Z.image = i /\ Z.hash = h /\ Z.version = "RESIZED"
  BY DEF Insert, OnData
<1>3. i \in Id /\ i <= last /\ h \in Hash /\ "RESIZED" \in ImageVersions
  BY Numbers DEF ImageRow, ImageVersions
<1>4. Head(<<W, Y>>) = W
  OBVIOUS
<1>5. IF "RESIZED" \in VersionsOf(i) THEN t = <<X, W, Z>> ELSE t = <<W, Y>>
  BY <1>4 DEF Resizing, Resized, Save
<1>h. h = images[i].hash
  OBVIOUS
<1> HIDE DEF W, Y, X, Z, h
<1>6. CASE "RESIZED" \in VersionsOf(i)
  <2>1. t = <<X, W, Z>>
    BY <1>5, <1>6
  <2>2. /\ DOMAIN t = {1, 2, 3} /\ t[1] = X /\ t[2] = W /\ t[3] = Z
        /\ t \in Seq(StepsOf(t))
    BY <2>1 DEF StepsOf
  <2>3. Closed(t) /\ \A k \in DOMAIN t : Ordered(t, k) /\ Fulfilled(t, k)
    BY <1>2, <2>2 DEF Closed, Paired, Ordered, Fulfilled, Saves, SameFile, Whole
  <2>4. \A k \in DOMAIN t : Typed(t[k])' /\ Duty(a, t[k])
    BY <1>1, <1>2, <1>3, <2>2 DEF Typed, Operation, OfImage, OfPost, OfFile, Duty
  <2>5. About(t) /\ InsertsOwn(a, t) /\ \A k \in DOMAIN t : t[k].op # "create"
    BY <1>2, <1>h, <2>2 DEF About, InsertsOwn, OfImage, Known
  <2> QED
    BY <1>1, <2>2, <2>3, <2>4, <2>5 DEF Sound
<1>7. CASE "RESIZED" \notin VersionsOf(i)
  <2>1. t = <<W, Y>>
    BY <1>5, <1>7
  <2>2. /\ DOMAIN t = {1, 2} /\ t[1] = W /\ t[2] = Y
        /\ t \in Seq(StepsOf(t))
    BY <2>1 DEF StepsOf
  <2>3. Closed(t) /\ \A k \in DOMAIN t : Ordered(t, k) /\ Fulfilled(t, k)
    BY <1>2, <2>2 DEF Closed, Paired, Ordered, Fulfilled, Saves, SameFile, Whole
  <2>4. \A k \in DOMAIN t : Typed(t[k])' /\ Duty(a, t[k])
    BY <1>1, <1>2, <1>3, <2>2, ZenonT(60) DEF Typed, Operation, OfImage, OfPost, OfFile, Duty
  <2>5. About(t) /\ \A k \in DOMAIN t : t[k].op # "create"
    BY <1>2, <1>h, <2>2 DEF About, OfImage, Known
  <2>6. InsertsOwn(a, t)
    <3>1. \A d \in datas : ~ (d.image = i /\ d.version = "RESIZED")
      BY <1>7 DEF VersionsOf
    <3> QED
      BY <1>1, <1>2, <2>2, <3>1 DEF InsertsOwn, SameData
  <2> QED
    BY <1>1, <2>2, <2>3, <2>4, <2>5, <2>6 DEF Sound
<1> QED
  BY <1>1, <1>6, <1>7

(* A new image is created and saved, and then some steps taken.            *)
Creating(i, h, row, data, c, t) ==
  /\ row.hash = h
  /\ t = (<<[op |-> "create", image |-> i, row |-> row, hash |-> h]>> \o SaveAll(i, h, data)) \o c

(* The steps of it are sound when those that follow are calls, of images   *)
(* of which one may be the new one.                                        *)
LEMMA CreationSound ==
  ASSUME TypeOK, NEW a \in {"inbox", "user"}, work[a] = <<>>, last < MaxRows, NEW i, i = last + 1, last' = i,
         NEW h \in Hash, NEW row \in ImageRow, NEW data \in {"whole", "small"}, NEW c, NEW t,
         Creating(i, h, row, data, c, t),
         a = "user" => row.owner = Template /\ row.target = NoTarget,
         c = <<>> \/ (Piece(c) /\ row.target = NoTarget),
         \A x \in StepsOf(c) :
           /\ a = "user" /\ x.op = "resize" /\ x.hash \in Hash
           /\ Known(x) \/ (x.image = i /\ x.hash = h)
  PROVE  Piece(t) /\ Sound(a, t)
<1> DEFINE n == [op |-> "create", image |-> i, row |-> row, hash |-> h]
           E == SaveAll(i, h, data)
           Y(v) == {[op |-> "write", hash |-> h, version |-> v, data |-> data], Insert(i, h, v, TRUE)}
           V == {"ORIGINAL"} \cup Scaled
           m == <<n>>
           b == m \o E
<1>1. n.op = "create" /\ n.image = i /\ n.row = row /\ n.hash = h
  OBVIOUS
<1>2. row.hash = h /\ t = b \o c
  BY DEF Creating
<1>3. Piece(E) /\ StepsOf(E) = UNION {Y(v) : v \in V}
  BY ONLY SavesAll
<1>4. /\ \A v : \A x \in Y(v) : /\ x.op \in {"write", "insert"} /\ x.hash = h /\ x.version = v
                                /\ x.op = "insert" => x.image = i /\ x.stored = TRUE
                                /\ x.op = "write" => x.data = data
      /\ \A v : \E x \in Y(v) : x.op = "insert"
  BY DEF Insert
<1>5. V \subseteq ImageVersions \ {"RESIZED"} /\ "ORIGINAL" \in V
  BY ImagesAssumption DEF ImageVersions
<1>6. /\ last \in Nat /\ MaxRows \in Nat /\ i \in Id /\ i > last /\ i \notin DOMAIN images
      /\ i <= last' /\ a \in Actor
  <2>1. last \in Nat /\ MaxRows \in Nat /\ DOMAIN images \subseteq 1 .. last
    BY Numbers DEF TypeOK
  <2> QED
    BY <2>1 DEF Id, Actor
<1>b. b = m \o E
  OBVIOUS
<1> HIDE DEF n, E, Y, V, b
<1>7. \A x \in StepsOf(E) : /\ x.op \in {"write", "insert"} /\ x.hash = h /\ x.version \in V
                            /\ x.op = "insert" => x.image = i /\ x.stored = TRUE
                            /\ x.op = "write" => x.data = data
  BY <1>3, <1>4
<1>8. \E x \in StepsOf(E) : Brings(x, i)
  <2>1. PICK x \in Y("ORIGINAL") : x.op = "insert"
    BY <1>4
  <2>2. x \in StepsOf(E) /\ x.image = i /\ x.version = "ORIGINAL" /\ x.stored = TRUE
    BY <1>3, <1>4, <1>5, <2>1
  <2> QED
    BY <2>1, <2>2 DEF Brings
<1>9. Piece(m) /\ StepsOf(m) = {n} /\ DOMAIN m = {1} /\ m[1] = n
  <2>1. n.op \notin OfFile
    BY <1>1 DEF OfFile
  <2> QED
    BY <2>1, OnePiece
<1> HIDE DEF m
<1>10. Compatible(m, E)
  <2>1. \A k \in DOMAIN E : E[k].op \in {"write", "insert"}
    BY <1>7 DEF StepsOf
  <2> QED
    BY <1>1, <1>9, <2>1 DEF Compatible, Whole
<1>11. /\ Piece(b) /\ StepsOf(b) = {n} \cup StepsOf(E)
       /\ \A k \in DOMAIN b :
            b[k] = n => \A y \in StepsOf(E) : \E l \in DOMAIN b : l > k /\ b[l] = y
  <2>1. Piece(E) /\ n \notin StepsOf(E)
    BY <1>1, <1>3, <1>7
  <2>2. /\ Piece(b) /\ StepsOf(b) = StepsOf(m) \cup StepsOf(E)
        /\ \A k \in DOMAIN b :
             \/ b[k] \in StepsOf(m) /\ \A y \in StepsOf(E) : \E l \in DOMAIN b : l > k /\ b[l] = y
             \/ b[k] \in StepsOf(E) /\ \A y \in StepsOf(m) : \E l \in DOMAIN b : l < k /\ b[l] = y
    BY <1>9, <1>10, <1>b, <2>1, PiecesJoined
  <2> QED
    BY <1>9, <2>1, <2>2
<1>12. /\ Piece(t) /\ StepsOf(t) = StepsOf(b) \cup StepsOf(c)
       /\ \A k \in DOMAIN t :
            t[k] = n => \A y \in StepsOf(E) : \E l \in DOMAIN t : l > k /\ t[l] = y
  <2>1. CASE c = <<>>
    <3>1. t = b
      BY <1>2, <1>11, <2>1 DEF Piece
    <3>2. StepsOf(c) = {}
      BY <2>1 DEF StepsOf
    <3> QED
      BY <1>11, <3>1, <3>2
  <2>2. CASE Piece(c) /\ row.target = NoTarget
    <3>1. \A k \in DOMAIN c : c[k].op = "resize"
      BY DEF StepsOf
    <3>2. \A k \in DOMAIN b : /\ b[k].op \in {"create", "write", "insert"}
                              /\ b[k].op = "create" => b[k].row.target = NoTarget
      <4> TAKE k \in DOMAIN b
      <4>1. b[k] \in {n} \cup StepsOf(E)
        <5>1. b[k] \in StepsOf(b)
          BY DEF StepsOf
        <5> QED
          BY <1>11, <5>1
      <4>2. CASE b[k] = n
        <5>1. n.op = "create" /\ n.row.target = NoTarget
          BY <1>1, <2>2
        <5> QED
          BY <4>2, <5>1
      <4>3. CASE b[k] \in StepsOf(E)
        <5>1. b[k].op \in {"write", "insert"}
          BY <1>7, <4>3
        <5> QED
          BY <5>1
      <4> QED
        BY <4>1, <4>2, <4>3
    <3>3. Compatible(b, c)
      BY <3>1, <3>2 DEF Compatible, Whole
    <3>4. Piece(b) /\ Piece(c)
      BY <1>11, <2>2
    <3>5. /\ Piece(t) /\ StepsOf(t) = StepsOf(b) \cup StepsOf(c)
      BY <1>2, <3>3, <3>4, PiecesJoined
    <3>6. \A k \in DOMAIN b : k \in DOMAIN t /\ t[k] = b[k]
      <4> DEFINE U == StepsOf(b) \cup StepsOf(c)
      <4>1. b \in Seq(U) /\ c \in Seq(U)
        <5>1. StepsOf(b) \subseteq U /\ StepsOf(c) \subseteq U
          OBVIOUS
        <5> HIDE DEF U
        <5> QED
          BY <3>4, <5>1 DEF Piece
      <4> HIDE DEF U
      <4> QED
        BY <1>2, <4>1, Joined
    <3>7. \A k \in DOMAIN t : t[k] = n => k \in DOMAIN b
      <4> DEFINE U == StepsOf(b) \cup StepsOf(c)
      <4>1. b \in Seq(U) /\ c \in Seq(U)
        <5>1. StepsOf(b) \subseteq U /\ StepsOf(c) \subseteq U
          OBVIOUS
        <5> HIDE DEF U
        <5> QED
          BY <3>4, <5>1 DEF Piece
      <4> HIDE DEF U
      <4>2. /\ \A k \in DOMAIN t : k \in DOMAIN b \/ k - Len(b) \in DOMAIN c
            /\ \A k \in DOMAIN c : t[Len(b) + k] = c[k]
            /\ Len(b) \in Nat /\ DOMAIN t = 1 .. Len(b) + Len(c) /\ Len(c) \in Nat
        BY <1>2, <4>1, Joined
      <4>3. \A k \in DOMAIN t : Len(b) + (k - Len(b)) = k
        BY <4>2
      <4> QED
        BY <1>1, <3>1, <4>2, <4>3
    <3> QED
      BY <1>11, <3>5, <3>6, <3>7
  <2> QED
    BY <2>1, <2>2
<1>13. ASSUME NEW k \in DOMAIN t
       PROVE  \/ t[k] = n
              \/ t[k] \in StepsOf(E)
              \/ t[k] \in StepsOf(c)
  BY <1>11, <1>12 DEF StepsOf
<1>14. \A k \in DOMAIN t :
         /\ t[k].op \in {"create", "write", "insert", "resize"} /\ t[k].hash \in Hash
         /\ t[k].op = "create" => t[k] = n
         /\ t[k].op \in {"write", "insert"} => t[k].version \in ImageVersions \ {"RESIZED"}
         /\ t[k].op = "write" => t[k].data = data
         /\ t[k].op = "insert" => t[k].image = i /\ t[k].hash = h /\ t[k].stored = TRUE
         /\ t[k].op = "resize" => a = "user" /\ (Known(t[k]) \/ (t[k].image = i /\ t[k].hash = h))
  BY <1>1, <1>5, <1>7, <1>13
<1>15. \A k \in DOMAIN t : Fulfilled(t, k)
  <2> SUFFICES ASSUME NEW k \in DOMAIN t, t[k].op = "create"
               PROVE  \E l \in DOMAIN t : l > k /\ Brings(t[l], t[k].image)
    BY <1>14 DEF Fulfilled
  <2> QED
    BY <1>1, <1>8, <1>12, <1>14
<1>16. \A k \in DOMAIN t : Typed(t[k])'
  <2> SUFFICES ASSUME NEW k \in DOMAIN t PROVE Typed(t[k])'
    OBVIOUS
  <2>1. CASE t[k].op = "create"
    BY <1>1, <1>2, <1>6, <1>14, <2>1 DEF Typed, Operation, OfImage, OfPost, OfFile
  <2>2. CASE t[k].op = "write"
    BY <1>14, <2>2 DEF Typed, Operation, OfImage, OfPost, OfFile
  <2>3. CASE t[k].op = "insert"
    BY <1>6, <1>14, <2>3 DEF Typed, Operation, OfImage, OfPost, OfFile
  <2>4. CASE t[k].op = "resize"
    <3>1. t[k].image \in Id /\ t[k].image <= last'
      BY <1>6, <1>14, <2>4, Numbers DEF Known
    <3> QED
      BY <1>14, <2>4, <3>1 DEF Typed, Operation, OfImage, OfPost, OfFile
  <2> QED
    BY <1>14, <2>1, <2>2, <2>3, <2>4
<1>17. \A k \in DOMAIN t : Duty(a, t[k])
  BY <1>1, <1>14 DEF Duty, OfFile
<1>18. About(t)
  <2>1. \A k \in DOMAIN t : t[k].op \in OfImage =>
          Known(t[k]) \/ (t[k].image = i /\ t[k].hash = h)
    BY <1>1, <1>14 DEF OfImage
  <2>2. \A k \in DOMAIN t : t[k].op \in OfImage =>
          IF t[k].image = i THEN t[k].hash = h ELSE Known(t[k])
    BY <1>6, <2>1 DEF Known
  <2> QED
    BY <1>1, <1>6, <1>14, <2>2 DEF About
<1>19. InsertsOwn(a, t)
  <2>1. \A d \in datas : d.image # i
    BY <1>6 DEF TypeOK
  <2> QED
    BY <1>6, <1>14, <2>1 DEF InsertsOwn, SameData
<1>20. t \in Seq(StepsOf(t)) /\ Closed(t) /\ \A k \in DOMAIN t : Ordered(t, k)
  BY <1>12 DEF Piece, Neat
<1> QED
  BY <1>12, <1>15, <1>16, <1>17, <1>18, <1>19, <1>20 DEF Sound

(* ImageAddCommand may resize the images of the template and the new one.  *)
ResizesAll(i, h, c) == c = Calls("resize", OfTemplate) \o <<[op |-> "resize", image |-> i, hash |-> h]>>

(* The calls make a piece.                                                 *)
LEMMA ResizesAllPiece ==
  ASSUME TypeOK, NEW i, NEW h \in Hash, NEW c, ResizesAll(i, h, c)
  PROVE  /\ Piece(c)
         /\ \A x \in StepsOf(c) : /\ x.op = "resize" /\ x.hash \in Hash
                                  /\ Known(x) \/ (x.image = i /\ x.hash = h)
<1> DEFINE r == Calls("resize", OfTemplate)
           e == [op |-> "resize", image |-> i, hash |-> h]
           m == <<e>>
<1>1. Piece(r) /\ StepsOf(r) = {On("resize", j) : j \in OfTemplate}
  <2>1. OfTemplate \subseteq DOMAIN images
    BY DEF OfTemplate
  <2> QED
    BY <2>1, CallsOf DEF Whole
<1>2. \A j \in OfTemplate : Typed(On("resize", j)) /\ Known(On("resize", j)) /\ On("resize", j).op = "resize"
  BY OnTyped DEF OfTemplate
<1>3. e.op = "resize" /\ e.image = i /\ e.hash = h
  OBVIOUS
<1>4. c = r \o m
  BY DEF ResizesAll
<1> HIDE DEF r, e
<1>5. \A x \in StepsOf(r) : x.op = "resize" /\ x.hash \in Hash /\ Known(x)
  BY <1>1, <1>2 DEF Typed
<1>6. Piece(m) /\ StepsOf(m) = {e} /\ DOMAIN m = {1} /\ m[1] = e
  <2>1. e.op \notin OfFile
    BY <1>3 DEF OfFile
  <2> QED
    BY <2>1, OnePiece
<1> HIDE DEF m
<1>7. Compatible(r, m)
  <2>1. \A k \in DOMAIN r : r[k].op = "resize"
    BY <1>5 DEF StepsOf
  <2> QED
    BY <1>3, <1>6, <2>1 DEF Compatible, Whole
<1>8. Piece(c) /\ StepsOf(c) = StepsOf(r) \cup StepsOf(m)
  <2>1. Piece(r)
    BY <1>1
  <2> QED
    BY <1>4, <1>6, <1>7, <2>1, PiecesJoined
<1> QED
  BY <1>3, <1>5, <1>6, <1>8

(* The message of an image that is there refreshes it.                     *)
Refresh(i, h, data) == [op |-> "refresh", image |-> i, hash |-> h, data |-> data]
Refreshes(K, h, data, t) ==
  t = FlattenSeq([n \in DOMAIN InOrder(K) |-> <<Refresh(InOrder(K)[n], h, data)>>])

(* Its steps are sound.                                                    *)
LEMMA RefreshesSound ==
  ASSUME TypeOK, last' = last, NEW h \in Hash, NEW data \in {"whole", "small"}, NEW K, NEW t,
         Refreshes(K, h, data, t),
         K \subseteq {i \in DOMAIN images : images[i].hash = h /\ images[i].target # NoTarget}
  PROVE  Piece(t) /\ Sound("inbox", t) /\ \A k \in DOMAIN t : t[k].op = "refresh"
<1> DEFINE L == InOrder(K)
           X == {Refresh(i, h, data) : i \in K}
           f == [i \in K |-> Refresh(i, h, data)]
<1>1. Lists(L, K)
  BY ImagesFinite, InOrderLists
<1>2. L \in Seq(K) /\ \A n \in DOMAIN L : L[n] \in K
  BY <1>1 DEF Lists
<1>3. f \in [K -> X] /\ \A i \in K : f[i] = Refresh(i, h, data)
  OBVIOUS
<1>4. Alike(K, f)
  BY DEF Refresh, Alike, Whole
<1>5. \A i \in K : /\ Refresh(i, h, data).op = "refresh" /\ Refresh(i, h, data).image = i
                   /\ Refresh(i, h, data).hash = h /\ Refresh(i, h, data).data = data
  BY DEF Refresh
<1>a. f \in [K -> X]
  BY <1>3
<1> HIDE DEF f, L, X
<1>6. [n \in DOMAIN L |-> <<Refresh(L[n], h, data)>>] = [n \in DOMAIN L |-> <<f[L[n]]>>]
  BY <1>2, <1>3
<1>7. /\ Piece(Each(L, f)) /\ \A x \in K : f[x] \in StepsOf(Each(L, f))
      /\ \A y \in StepsOf(Each(L, f)) : \E x \in K : y = f[x]
  BY <1>1, <1>a, <1>4, Singles
<1>8. t = Each(L, f)
  BY <1>6 DEF Refreshes, Each, L
<1>9. \A y \in StepsOf(t) : \E i \in K : y = Refresh(i, h, data)
  BY <1>3, <1>7, <1>8
<1>10. "inbox" \in Actor
  BY DEF Actor
<1>11. ASSUME NEW x \in StepsOf(t)
       PROVE  /\ Typed(x) /\ Duty("inbox", x) /\ x.op \in Whole \cup {"unlist"}
              /\ x.op \in Whole => Known(x)
              /\ x.op = "refresh" => images[x.image].target # NoTarget
  <2>1. PICK i \in K : x = Refresh(i, h, data)
    BY <1>9
  <2>2. /\ x.op = "refresh" /\ x.image = i /\ x.hash = h /\ x.data = data
        /\ i \in DOMAIN images /\ images[i].hash = h /\ images[i].target # NoTarget
    BY <1>5, <2>1
  <2>3. i \in Id /\ i <= last
    BY <2>2, Numbers
  <2>4. Typed(x)
    BY <2>2, <2>3 DEF Typed, Operation, OfImage, OfPost, OfFile
  <2> QED
    BY <2>2, <2>4 DEF Duty, Known, Whole
<1>12. \A k \in DOMAIN t : t[k].op = "refresh"
  BY <1>5, <1>9 DEF StepsOf
<1> QED
  BY <1>7, <1>8, <1>10, <1>11, <1>12, CallsSound

(* The message of a listing or a market: its post, the rows of images that *)
(* are to come, and the links of those that came before.                   *)
PostStep(p, t) == [op |-> "post", hash |-> "none", post |-> p, target |-> t]
Placeholders(p, t, M) == FlattenSeq([n \in DOMAIN M |-> Placeholder(p + n, M[n], p, t)])
LinkAll(p, S) == FlattenSeq([n \in DOMAIN InOrder(S) |-> <<Link(InOrder(S)[n], images[InOrder(S)[n]].hash, p)>>])
Posting(p, t, M, u) ==
  /\ M = SetToSeq(Missing(t))
  /\ u = (<<PostStep(p, t)>> \o Placeholders(p, t, M)) \o LinkAll(p, WithTarget(t))

(* The owner of the rows that are made before their images come.           *)
OwnerOf(p, t) == IF t \in Listing THEN p ELSE Nobody

Places(x, p, t, M) ==
  \E n \in DOMAIN M : \/ x = Create(p + n, M[n], NoTarget, OwnerOf(p, t))
                      \/ x = Insert(p + n, M[n], "ORIGINAL", FALSE)
                      \/ t \notin Listing /\ x = Link(p + n, M[n], p)
Joining(x, p, t) == \E i \in WithTarget(t) : x = Link(i, images[i].hash, p)

(* What the rows of these images are made by.                              *)
LEMMA PlaceholdersPiece ==
  ASSUME NEW p \in Nat, NEW t, NEW M, NEW H, M \in Seq(H)
  PROVE  /\ Piece(Placeholders(p, t, M))
         /\ \A x \in StepsOf(Placeholders(p, t, M)) : Places(x, p, t, M)
<1> DEFINE seqs == [n \in DOMAIN M |-> Placeholder(p + n, M[n], p, t)]
           c(n) == Create(p + n, M[n], NoTarget, OwnerOf(p, t))
           d(n) == Insert(p + n, M[n], "ORIGINAL", FALSE)
           e(n) == Link(p + n, M[n], p)
           X == UNION {{c(n), d(n), e(n)} : n \in DOMAIN M}
<1>1. DOMAIN M = 1 .. Len(M) /\ Len(M) \in Nat
  OBVIOUS
<1>2. \A n : /\ c(n).op = "create" /\ c(n).image = p + n /\ c(n).row.target = NoTarget
             /\ d(n).op = "insert" /\ d(n).image = p + n /\ d(n).stored = FALSE
             /\ e(n).op = "link" /\ e(n).image = p + n
  BY DEF Create, Insert, Link
<1>3. \A n \in DOMAIN M : seqs[n] = IF t \in Listing THEN <<c(n), d(n)>> ELSE <<c(n), d(n), e(n)>>
  BY DEF Placeholder, OwnerOf
<1>4. ASSUME NEW n \in DOMAIN M PROVE c(n) \in X /\ d(n) \in X /\ e(n) \in X
  <2> DEFINE Y(m) == {c(m), d(m), e(m)}
  <2>1. c(n) \in Y(n) /\ d(n) \in Y(n) /\ e(n) \in Y(n)
    OBVIOUS
  <2>2. X = UNION {Y(m) : m \in DOMAIN M}
    OBVIOUS
  <2> HIDE DEF c, d, e, X, Y
  <2> QED
    BY <2>1, <2>2
<1>5. DOMAIN seqs = DOMAIN M /\ seqs = [n \in 1 .. Len(M) |-> seqs[n]]
  BY <1>1
<1> HIDE DEF c, d, e, X, seqs
<1>6. ASSUME NEW n \in DOMAIN M
      PROVE  /\ seqs[n] \in Seq(X) /\ Neat(seqs[n])
             /\ \A k \in DOMAIN seqs[n] : \/ seqs[n][k] = c(n)
                                          \/ seqs[n][k] = d(n)
                                          \/ t \notin Listing /\ seqs[n][k] = e(n)
             /\ c(n) \in StepsOf(seqs[n])
  <2>1. CASE t \in Listing
    <3>1. seqs[n] = <<c(n), d(n)>>
      BY <1>3, <2>1
    <3>2. /\ DOMAIN seqs[n] = {1, 2} /\ seqs[n][1] = c(n) /\ seqs[n][2] = d(n)
          /\ seqs[n] \in Seq(X)
      BY <1>4, <3>1
    <3>3. Neat(seqs[n])
      BY <1>2, <3>2 DEF Neat, Closed, Paired, Ordered, Saves, Whole
    <3> QED
      BY <3>2, <3>3 DEF StepsOf
  <2>2. CASE t \notin Listing
    <3>1. seqs[n] = <<c(n), d(n), e(n)>>
      BY <1>3, <2>2
    <3>2. /\ DOMAIN seqs[n] = {1, 2, 3} /\ seqs[n][1] = c(n) /\ seqs[n][2] = d(n) /\ seqs[n][3] = e(n)
          /\ seqs[n] \in Seq(X)
      BY <1>4, <3>1
    <3>3. Closed(seqs[n])
      BY <1>2, <3>2 DEF Closed, Paired, Saves
    <3>4. Ordered(seqs[n], 1)
      BY <1>2, <3>2 DEF Ordered, Whole
    <3>5. Ordered(seqs[n], 2)
      BY <1>2, <3>2 DEF Ordered, Whole
    <3>6. Ordered(seqs[n], 3)
      BY <1>2, <3>2 DEF Ordered, Whole
    <3> QED
      BY <2>2, <3>2, <3>3, <3>4, <3>5, <3>6 DEF StepsOf, Neat
  <2> QED
    BY <2>1, <2>2
<1>7. seqs \in Seq(Seq(X))
  BY <1>1, <1>5, <1>6
<1>8. ASSUME NEW m \in DOMAIN seqs, NEW n \in DOMAIN seqs, m < n PROVE Compatible(seqs[m], seqs[n])
  <2>1. p + m # p + n
    BY <1>1, <1>5, <1>8
  <2>2. ASSUME NEW l \in DOMAIN M, NEW k \in DOMAIN seqs[l]
        PROVE  /\ seqs[l][k].op \in {"create", "insert", "link"} /\ seqs[l][k].image = p + l
               /\ seqs[l][k].op = "create" => seqs[l][k].row.target = NoTarget
    <3>1. seqs[l][k] = c(l) \/ seqs[l][k] = d(l) \/ seqs[l][k] = e(l)
      BY <1>6
    <3> QED
      BY <1>2, <3>1
  <2>3. m \in DOMAIN M /\ n \in DOMAIN M
    BY <1>5
  <2> QED
    BY <2>1, <2>2, <2>3 DEF Compatible, Whole, SameData
<1>9. /\ FlattenSeq(seqs) \in Seq(X) /\ Neat(FlattenSeq(seqs))
      /\ StepsOf(FlattenSeq(seqs)) = UNION {StepsOf(seqs[n]) : n \in DOMAIN seqs}
  <2>1. \A n \in DOMAIN seqs : Neat(seqs[n])
    BY <1>5, <1>6
  <2> QED
    BY <1>7, <1>8, <2>1, FlattenNeat
<1>10. FlattenSeq(seqs) \in Seq(StepsOf(FlattenSeq(seqs)))
  BY <1>9, OfItsOwn DEF StepsOf
<1>11. ASSUME NEW x \in StepsOf(FlattenSeq(seqs))
       PROVE  \E n \in DOMAIN M : x = c(n) \/ x = d(n) \/ (t \notin Listing /\ x = e(n))
  <2>1. PICK n \in DOMAIN seqs : x \in StepsOf(seqs[n])
    BY <1>9
  <2>2. PICK k \in DOMAIN seqs[n] : x = seqs[n][k]
    BY <2>1 DEF StepsOf
  <2> QED
    BY <1>5, <1>6, <2>2
<1>12. Placeholders(p, t, M) = FlattenSeq(seqs)
  BY DEF Placeholders, seqs
<1> QED
  BY <1>9, <1>10, <1>11, <1>12 DEF Piece, Places, c, d, e

(* A link for each of some images.                                         *)
LEMMA LinkAllPiece ==
  ASSUME TypeOK, NEW S, S \subseteq DOMAIN images, NEW p
  PROVE  LET u == LinkAll(p, S)
         IN /\ Piece(u) /\ \A i \in S : Link(i, images[i].hash, p) \in StepsOf(u)
            /\ \A x \in StepsOf(u) : \E i \in S : x = Link(i, images[i].hash, p)
<1> DEFINE L == InOrder(S)
           l(i) == Link(i, images[i].hash, p)
           X == {l(i) : i \in S}
           f == [i \in S |-> l(i)]
<1>1. Lists(L, S)
  BY ImagesFinite, InOrderLists
<1>2. L \in Seq(S) /\ \A n \in DOMAIN L : L[n] \in S
  BY <1>1 DEF Lists
<1>3. f \in [S -> X] /\ \A i \in S : f[i] = l(i)
  OBVIOUS
<1>4. Alike(S, f)
  BY DEF Link, Alike
<1>a. f \in [S -> X]
  BY <1>3
<1> HIDE DEF f, L, X, l
<1>6. [n \in DOMAIN L |-> <<l(L[n])>>] = [n \in DOMAIN L |-> <<f[L[n]]>>]
  BY <1>2, <1>3
<1>7. /\ Piece(Each(L, f)) /\ \A x \in S : f[x] \in StepsOf(Each(L, f))
      /\ \A y \in StepsOf(Each(L, f)) : \E x \in S : y = f[x]
  BY <1>1, <1>a, <1>4, Singles
<1>8. LinkAll(p, S) = Each(L, f)
  BY <1>6 DEF LinkAll, Each, L, l
<1> QED
  BY <1>3, <1>7, <1>8 DEF l

(* What the message of a post is made of.                                  *)
LEMMA PostingPiece ==
  ASSUME TypeOK, NEW p \in Nat, p > last, NEW t \in Target, NEW M, NEW u, Posting(p, t, M, u)
  PROVE  /\ Piece(u) /\ Lists(M, Missing(t)) /\ IsFiniteSet(Missing(t))
         /\ PostStep(p, t) \in StepsOf(u)
         /\ \A i \in WithTarget(t) : Link(i, images[i].hash, p) \in StepsOf(u)
         /\ \A x \in StepsOf(u) : x = PostStep(p, t) \/ Places(x, p, t, M) \/ Joining(x, p, t)
<1> DEFINE e == PostStep(p, t)
           m == <<e>>
           B == Placeholders(p, t, M)
           C == LinkAll(p, WithTarget(t))
           b == m \o B
<1>1. IsFiniteSet(Missing(t)) /\ Lists(M, Missing(t)) /\ M \in Seq(Missing(t))
  <2>1. Missing(t) \subseteq Depicts[t] /\ IsFiniteSet(Depicts[t])
    BY ImagesAssumption DEF Missing
  <2>2. IsFiniteSet(Missing(t))
    BY <2>1, FS_Subset
  <2>3. Lists(SetToSeq(Missing(t)), Missing(t))
    BY <2>2, SetToSeqLists
  <2> QED
    BY <2>2, <2>3 DEF Posting, Lists
<1>2. u = b \o C /\ b = m \o B
  BY DEF Posting
<1>3. e.op = "post"
  BY DEF PostStep
<1>4. /\ Piece(B)
      /\ \A x \in StepsOf(B) : Places(x, p, t, M)
  BY <1>1, PlaceholdersPiece
<1>5. /\ Piece(C) /\ \A i \in WithTarget(t) : Link(i, images[i].hash, p) \in StepsOf(C)
      /\ \A x \in StepsOf(C) : Joining(x, p, t)
  <2>1. WithTarget(t) \subseteq DOMAIN images
    BY DEF WithTarget
  <2> QED
    BY <2>1, LinkAllPiece DEF Joining
<1> HIDE DEF e, B, C, b
<1>6. Piece(m) /\ StepsOf(m) = {e} /\ DOMAIN m = {1} /\ m[1] = e
  <2>1. e.op \notin OfFile
    BY <1>3 DEF OfFile
  <2> QED
    BY <2>1, OnePiece
<1> HIDE DEF m
<1>7. \A x \in StepsOf(B) : /\ x.op \in {"create", "insert", "link"}
                            /\ x.op = "create" => x.row.target = NoTarget
  BY <1>4 DEF Places, Create, Insert, Link
<1>8. \A x \in StepsOf(C) : x.op = "link"
  BY <1>5 DEF Joining, Link
<1>9. Piece(b) /\ StepsOf(b) = {e} \cup StepsOf(B)
  <2>1. \A k \in DOMAIN B : /\ B[k].op \in {"create", "insert", "link"}
                            /\ B[k].op = "create" => B[k].row.target = NoTarget
    BY <1>7 DEF StepsOf
  <2>2. Compatible(m, B)
    BY <1>3, <1>6, <2>1 DEF Compatible, Whole
  <2>3. Piece(B)
    BY <1>4
  <2> QED
    BY <1>2, <1>6, <2>2, <2>3, PiecesJoined
<1>10. Piece(u) /\ StepsOf(u) = StepsOf(b) \cup StepsOf(C)
  <2>1. \A k \in DOMAIN b : b[k].op \in {"post", "create", "insert", "link"}
    BY <1>3, <1>7, <1>9 DEF StepsOf
  <2>2. \A k \in DOMAIN b : b[k].op = "create" => b[k].row.target = NoTarget
    BY <1>3, <1>7, <1>9 DEF StepsOf
  <2>3. \A k \in DOMAIN C : C[k].op = "link"
    BY <1>8 DEF StepsOf
  <2>4. Compatible(b, C)
    BY <2>1, <2>2, <2>3 DEF Compatible, Whole
  <2>5. Piece(b) /\ Piece(C)
    BY <1>5, <1>9
  <2> QED
    BY <1>2, <2>4, <2>5, PiecesJoined
<1>11. e = PostStep(p, t)
  BY DEF e
<1> QED
  BY <1>1, <1>4, <1>5, <1>9, <1>10, <1>11

(* The steps of the message are sound.                                     *)
LEMMA PostingSound ==
  ASSUME TypeOK, Programs, work["inbox"] = <<>>, NEW p, p = last + 1, NEW t \in Target, NEW M, NEW u,
         Posting(p, t, M, u), last' = p + Len(M), last' <= MaxRows
  PROVE  Sound("inbox", u) /\ last' \in last .. MaxRows
<1>1. last \in Nat /\ MaxRows \in Nat /\ p \in Nat /\ p > last
  BY Numbers
<1>2. /\ Piece(u) /\ Lists(M, Missing(t))
      /\ \A x \in StepsOf(u) : x = PostStep(p, t) \/ Places(x, p, t, M) \/ Joining(x, p, t)
  BY <1>1, PostingPiece
<1>3. /\ DOMAIN M = 1 .. Len(M) /\ Len(M) \in Nat
      /\ \A n \in DOMAIN M : M[n] \in Hash /\ p + n \in Id /\ p + n <= last' /\ p + n > last /\ p + n # p
                             /\ p + n \notin DOMAIN images
  <2>1. M \in Seq(Missing(t)) /\ Missing(t) \subseteq Hash
    BY <1>2, ImagesAssumption DEF Lists, Missing
  <2>2. DOMAIN M = 1 .. Len(M) /\ Len(M) \in Nat /\ \A n \in DOMAIN M : M[n] \in Hash
    BY <2>1
  <2>3. DOMAIN images \subseteq 1 .. last
    BY DEF TypeOK
  <2> QED
    BY <1>1, <2>2, <2>3 DEF Id
<1>4. last' \in last .. MaxRows /\ p \in Id /\ p <= last'
  BY <1>1, <1>3 DEF Id
<1>5. \A i \in WithTarget(t) : i \in DOMAIN images /\ i \in Id /\ i <= last' /\ images[i].hash \in Hash
  BY <1>1, <1>4, Numbers DEF WithTarget, ImageRow
<1>6. OwnerOf(p, t) \in Id \cup {Template, Nobody}
  BY <1>4 DEF OwnerOf
<1>7. \A n \in DOMAIN M : [hash |-> M[n], target |-> NoTarget, owner |-> OwnerOf(p, t)] \in ImageRow
  BY <1>3, <1>6 DEF ImageRow
<1>8. ASSUME NEW k \in DOMAIN u
      PROVE  \/ u[k] = PostStep(p, t)
             \/ \E n \in DOMAIN M : u[k] = Create(p + n, M[n], NoTarget, OwnerOf(p, t))
             \/ \E n \in DOMAIN M : u[k] = Insert(p + n, M[n], "ORIGINAL", FALSE)
             \/ \E n \in DOMAIN M : u[k] = Link(p + n, M[n], p)
             \/ \E i \in WithTarget(t) : u[k] = Link(i, images[i].hash, p)
  <2>1. u[k] \in StepsOf(u)
    BY DEF StepsOf
  <2> QED
    BY <1>2, <2>1 DEF Places, Joining
<1>9. ASSUME NEW k \in DOMAIN u
      PROVE  /\ u[k].op \in {"post", "create", "insert", "link"}
             /\ u[k].op = "post" => u[k].post = p /\ u[k].target = t
             /\ u[k].op = "link" => u[k].post = p
             /\ u[k].op \in {"create", "insert"} =>
                  \E n \in DOMAIN M : u[k].image = p + n /\ u[k].hash = M[n]
             /\ u[k].op = "create" => /\ u[k].row \in ImageRow /\ u[k].row.hash = u[k].hash
                                      /\ u[k].row.target = NoTarget
             /\ u[k].op = "insert" => u[k].version = "ORIGINAL" /\ u[k].stored = FALSE
             /\ u[k].op = "link" => \/ Known(u[k])
                                    \/ \E n \in DOMAIN M : u[k].image = p + n /\ u[k].hash = M[n]
  <2>1. CASE u[k] = PostStep(p, t)
    BY <2>1 DEF PostStep
  <2>2. CASE \E n \in DOMAIN M : u[k] = Create(p + n, M[n], NoTarget, OwnerOf(p, t))
    <3>1. PICK n \in DOMAIN M : u[k] = Create(p + n, M[n], NoTarget, OwnerOf(p, t))
      BY <2>2
    <3>2. /\ u[k].op = "create" /\ u[k].image = p + n /\ u[k].hash = M[n]
          /\ u[k].row = [hash |-> M[n], target |-> NoTarget, owner |-> OwnerOf(p, t)]
      BY <3>1 DEF Create
    <3>3. u[k].row \in ImageRow /\ u[k].row.hash = M[n] /\ u[k].row.target = NoTarget
      BY <1>7, <3>2
    <3> QED
      BY <3>2, <3>3
  <2>3. CASE \E n \in DOMAIN M : u[k] = Insert(p + n, M[n], "ORIGINAL", FALSE)
    BY <2>3 DEF Insert
  <2>4. CASE \E n \in DOMAIN M : u[k] = Link(p + n, M[n], p)
    BY <2>4 DEF Link
  <2>5. CASE \E i \in WithTarget(t) : u[k] = Link(i, images[i].hash, p)
    BY <1>5, <2>5 DEF Link, Known
  <2> QED
    BY <1>8, <2>1, <2>2, <2>3, <2>4, <2>5
<1>10. \A k \in DOMAIN u : u[k].op \in OfImage =>
         /\ \/ Known(u[k])
            \/ \E n \in DOMAIN M : u[k].image = p + n /\ u[k].hash = M[n]
         /\ u[k].image \in Id /\ u[k].image <= last' /\ u[k].hash \in Hash
  <2>1. \A x : Known(x) => x.image \in Id /\ x.image <= last' /\ x.hash \in Hash
    BY <1>1, <1>4, Numbers DEF Known, ImageRow
  <2> QED
    BY <1>3, <1>9, <2>1, ZenonT(60) DEF OfImage
<1>11. \A k \in DOMAIN u : Fulfilled(u, k)
  BY <1>9 DEF Fulfilled
<1>12. ASSUME NEW k \in DOMAIN u PROVE Typed(u[k])'
  <2>1. CASE u[k].op = "post"
    BY <1>4, <1>9, <2>1 DEF Typed, Operation, OfImage, OfPost, OfFile
  <2>2. CASE u[k].op = "create"
    BY <1>9, <1>10, <2>2 DEF Typed, Operation, OfImage, OfPost, OfFile
  <2>3. CASE u[k].op = "insert"
    BY <1>9, <1>10, <2>3 DEF Typed, Operation, OfImage, OfPost, OfFile, ImageVersions
  <2>4. CASE u[k].op = "link"
    BY <1>4, <1>9, <1>10, <2>4 DEF Typed, Operation, OfImage, OfPost, OfFile
  <2> QED
    BY <1>9, <2>1, <2>2, <2>3, <2>4
<1>13. \A k \in DOMAIN u : Duty("inbox", u[k])
  BY <1>9 DEF Duty
<1>14. About(u)
  <2>1. ASSUME NEW k \in DOMAIN u, NEW l \in DOMAIN u, u[k].op \in OfImage, u[l].op \in OfImage,
               u[k].image = u[l].image, ~ Known(u[k])
        PROVE  u[k].image > last /\ u[k].hash = u[l].hash
    <3>1. PICK n \in DOMAIN M : u[k].image = p + n /\ u[k].hash = M[n]
      BY <1>10, <2>1
    <3>2. ~ Known(u[l])
      BY <1>3, <2>1, <3>1 DEF Known
    <3>3. PICK m \in DOMAIN M : u[l].image = p + m /\ u[l].hash = M[m]
      BY <1>10, <2>1, <3>2
    <3>4. m = n
      <4>1. p + m = p + n
        BY <2>1, <3>1, <3>3
      <4>2. m \in Nat /\ n \in Nat
        BY <1>3
      <4> QED
        BY <1>1, <4>1, <4>2
    <3> QED
      BY <1>3, <3>1, <3>3, <3>4
  <2>2. \A k \in DOMAIN u : u[k].op = "create" => u[k].image > last /\ u[k].image # p
    BY <1>3, <1>9, ZenonT(60)
  <2> QED
    BY <1>1, <1>9, <2>1, <2>2 DEF About
<1>15. InsertsOwn("inbox", u)
  <2>1. \A d \in datas : d.image \in DOMAIN images
    BY DEF TypeOK
  <2>2. \A k \in DOMAIN u : u[k].op = "insert" => u[k].image \notin DOMAIN images
    BY <1>3, <1>9
  <2> QED
    BY <2>1, <2>2 DEF InsertsOwn, SameData
<1>16. u \in Seq(StepsOf(u)) /\ Closed(u) /\ \A k \in DOMAIN u : Ordered(u, k)
  BY <1>2 DEF Piece, Neat
<1> QED
  BY <1>4, <1>11, <1>12, <1>13, <1>14, <1>15, <1>16 DEF Sound
-----------------------------------------------------------------------------
(* What the messages announce.                                             *)

(* The inbox begins the steps of u.                                        *)
Starts(u) == Begin("inbox", u) /\ last' \in Nat /\ last <= last'

(* They are all that it has to do, and nothing else changes.               *)
LEMMA Started ==
  ASSUME TypeOK, NEW u, Piece(u), Starts(u)
  PROVE  /\ Ahead("inbox") = {} /\ Ahead("inbox")' = StepsOf(u)
         /\ images' = images /\ posts' = posts /\ disturbed' = disturbed
         /\ \A t : WithTarget(t)' = WithTarget(t)
<1>1. work["inbox"] = <<>> /\ work'["inbox"] = u
  BY DEF TypeOK, Actor, Starts, Begin
<1>2. Ahead("inbox") = {} /\ Ahead("inbox")' = StepsOf(u)
  BY <1>1 DEF Ahead, StepsOf
<1>3. images' = images /\ posts' = posts /\ disturbed' = disturbed
  BY DEF Starts, Begin, store
<1> QED
  BY <1>2, <1>3 DEF WithTarget

(* Posts keep the images that are linked to them.                          *)
LEMMA StartedEarly ==
  ASSUME TypeOK, Announced, NEW u, Piece(u), Starts(u)
  PROVE  Early'
<1>1. /\ Ahead("inbox") = {} /\ images' = images /\ posts' = posts /\ disturbed' = disturbed
      /\ \A t : WithTarget(t)' = WithTarget(t)
  BY Started
<1>2. \A i, p : Linked(i, p) => Linked(i, p)'
  BY <1>1 DEF Linked
<1> QED
  BY <1>1, <1>2 DEF Early, Announced

(* An image that a message brings is the first with its hash and target.   *)
LEMMA CreatingAnnounced ==
  ASSUME TypeOK, Announced, NEW i, i = last + 1, NEW h, NEW row, NEW data, NEW c, NEW u,
         Creating(i, h, row, data, c, u), c = <<>>, Piece(u), Starts(u),
         row.owner = Nobody, row.target \in Target, h \in Depicts[row.target],
         \A j \in WithTarget(row.target) : images[j].hash # h
  PROVE  Announced'
<1> DEFINE n == [op |-> "create", image |-> i, row |-> row, hash |-> h]
           m == <<n>>
           E == SaveAll(i, h, data)
<1>1. /\ Ahead("inbox") = {} /\ Ahead("inbox")' = StepsOf(u)
      /\ images' = images /\ posts' = posts /\ disturbed' = disturbed
      /\ \A t : WithTarget(t)' = WithTarget(t)
  BY Started
<1>2. \A x \in StepsOf(E) : x.op \in {"write", "insert"}
  <2>1. StepsOf(E) = UNION {{[op |-> "write", hash |-> h, version |-> v, data |-> data], Insert(i, h, v, TRUE)} :
                               v \in {"ORIGINAL"} \cup Scaled}
    BY ONLY SavesAll
  <2> QED
    BY <2>1 DEF Insert
<1>3. StepsOf(u) = {n} \cup StepsOf(E)
  <2> DEFINE S == {n} \cup StepsOf(E)
  <2>1. E \in Seq(StepsOf(E))
    BY ONLY SavesAll DEF Piece
  <2>2. m \in Seq(S) /\ E \in Seq(S) /\ StepsOf(m) = {n}
    <3>1. n \in S /\ StepsOf(E) \subseteq S
      OBVIOUS
    <3>2. DOMAIN m = {1} /\ m[1] = n
      OBVIOUS
    <3> HIDE DEF S, E, n
    <3>3. m \in Seq(S) /\ E \in Seq(S)
      BY <2>1, <3>1
    <3> QED
      BY <3>2, <3>3 DEF StepsOf
  <2>3. u = (m \o E) \o <<>>
    BY DEF Creating
  <2> HIDE DEF S, E, m
  <2>4. u = m \o E
    <3>1. m \o E \in Seq(S)
      BY <2>2
    <3> QED
      BY <2>3, <3>1
  <2> QED
    BY <2>2, <2>4, StepsJoined
<1>4. n.op = "create" /\ n.image = i /\ n.row = row /\ n.hash = h
  OBVIOUS
<1> HIDE DEF n, E
<1>5. \A x \in Ahead("inbox")' : x.op \in {"create", "write", "insert"} /\ (x.op = "create" => x = n)
  BY <1>1, <1>2, <1>3, <1>4
<1>6. Targets'
  <2>1. \A p \in DOMAIN posts : p < i
    BY Numbers
  <2> QED
    BY <1>1, <1>4, <1>5, <2>1 DEF Targets, Announced
<1>7. Linking'
  BY <1>5 DEF Linking
<1>8. Early'
  BY StartedEarly
<1>9. Owners'
  <2>1. \A x \in Ahead("inbox")' : x.op = "create" => x.row.owner \notin Id
    <3>1. Nobody \notin Id
      BY Numbers DEF Nobody, Id
    <3> QED
      BY <1>4, <1>5, <3>1
  <2>2. \A p \in Id : \A j, g : Claims(p, j, g)' => Claims(p, j, g)
    BY <1>1, <1>5, <2>1 DEF Claims
  <2>3. \A p, j, k \in Id : \A g \in Hash : Claims(p, j, g)' /\ Claims(p, k, g)' => j = k
    BY <2>2 DEF Owners, Announced
  <2> QED
    BY <1>1, <2>1, <2>3 DEF Owners, Announced
<1> QED
  BY <1>6, <1>7, <1>8, <1>9 DEF Announced

(* The message of a post.                                                  *)
LEMMA PostingAnnounced ==
  ASSUME TypeOK, Announced, NEW p, p = last + 1, NEW t \in Target, NEW M, NEW u,
         Posting(p, t, M, u), Piece(u), Starts(u), last' = p + Len(M)
  PROVE  Announced'
<1>1. /\ Ahead("inbox") = {} /\ Ahead("inbox")' = StepsOf(u)
      /\ images' = images /\ posts' = posts /\ disturbed' = disturbed
      /\ \A t2 : WithTarget(t2)' = WithTarget(t2)
  BY Started
<1>2. last \in Nat /\ p \in Nat /\ p > last
  BY Numbers
<1>3. /\ Lists(M, Missing(t)) /\ IsFiniteSet(Missing(t))
      /\ PostStep(p, t) \in StepsOf(u)
      /\ \A i \in WithTarget(t) : Link(i, images[i].hash, p) \in StepsOf(u)
      /\ \A x \in StepsOf(u) : x = PostStep(p, t) \/ Places(x, p, t, M) \/ Joining(x, p, t)
  BY <1>2, PostingPiece
<1>4. /\ DOMAIN M = 1 .. Len(M) /\ Len(M) \in Nat
      /\ \A n \in DOMAIN M : M[n] \in Missing(t) /\ n \in Nat /\ p + n > last /\ p + n \notin DOMAIN images
      /\ \A m, n \in DOMAIN M : M[m] = M[n] => m = n
      /\ p \notin DOMAIN posts /\ p <= last'
  <2>1. M \in Seq(Missing(t)) /\ \A m, n \in 1 .. Len(M) : M[m] = M[n] => m = n
    BY <1>3 DEF Lists
  <2>2. DOMAIN M = 1 .. Len(M) /\ Len(M) \in Nat /\ \A n \in DOMAIN M : M[n] \in Missing(t)
    BY <2>1
  <2>3. DOMAIN images \subseteq 1 .. last /\ DOMAIN posts \subseteq 1 .. last
    BY DEF TypeOK
  <2> QED
    BY <1>2, <2>1, <2>2, <2>3
<1>5. ASSUME NEW x \in Ahead("inbox")'
      PROVE  /\ x.op \in {"post", "create", "insert", "link"}
             /\ x.op = "post" => x.post = p /\ x.target = t
             /\ x.op = "link" => x.post = p
             /\ x.op = "create" => x.row.target = NoTarget /\ x.row.owner = OwnerOf(p, t)
             /\ x.op \in {"create", "link"} =>
                  \/ \E n \in DOMAIN M : /\ x.image = p + n /\ x.hash = M[n]
                                         /\ x.op = "link" => t \notin Listing
                  \/ x.op = "link" /\ x.image \in WithTarget(t) /\ x.hash = images[x.image].hash
  <2>1. CASE x = PostStep(p, t)
    BY <2>1 DEF PostStep
  <2>2. CASE Places(x, p, t, M)
    BY <2>2 DEF Places, Create, Insert, Link
  <2>3. CASE Joining(x, p, t)
    BY <2>3 DEF Joining, Link
  <2> QED
    BY <1>1, <1>3, <2>1, <2>2, <2>3
<1>6. \A u2 \in Target : Posts(p, u2)' => u2 = t
  BY <1>1, <1>4, <1>5 DEF Posts
<1>7. \A i, j \in WithTarget(t) : images[i].hash = images[j].hash \/ t \in Market => i = j
  <2>1. \A i \in WithTarget(t) : images[i].target = t /\ images[i].target # NoTarget /\ i \in DOMAIN images
    BY ImagesAssumption DEF WithTarget
  <2>2. \A i \in WithTarget(t) : images[i].hash \in Depicts[t]
    BY <2>1 DEF Targets, Announced
  <2>3. t \in Market => \A i, j \in WithTarget(t) : images[i].hash = images[j].hash
    BY <2>2, ImagesAssumption
  <2>4. \A i, j \in WithTarget(t) : images[i].hash = images[j].hash => i = j
    BY <2>1 DEF Targets, Announced
  <2> QED
    BY <2>3, <2>4
<1>8. \A n \in DOMAIN M : \A i \in WithTarget(t) : t \in Listing /\ images[i].hash # M[n]
  BY <1>4 DEF Missing, Target
<1>9. Targets'
  BY <1>1, <1>5 DEF Targets, Announced
<1>10. Linking'
  <2>1. \A x \in Ahead("inbox")' : x.op \in {"post", "link"} => \A q \in DOMAIN posts' : q <= x.post
    BY <1>1, <1>2, <1>5, Numbers
  <2>2. ASSUME NEW x \in Ahead("inbox")', x.op = "link"
        PROVE  /\ \A y \in Ahead("inbox")' : y.op = "post" => y.post = x.post
               /\ \A u2 \in Target : Posts(x.post, u2)' =>
                    /\ x.image \in DOMAIN images' /\ images'[x.image].target # NoTarget
                         => images'[x.image].target = u2
                    /\ u2 \in Market => \A i \in WithTarget(u2)' : i = x.image
    <3>1. x.post = p /\ \A y \in Ahead("inbox")' : y.op = "post" => y.post = p
      BY <1>5, <2>2
    <3>2. SUFFICES /\ x.image \in DOMAIN images => images[x.image].target = t
                   /\ t \in Market => \A i \in WithTarget(t) : i = x.image
      BY <1>1, <1>6, <3>1
    <3>3. CASE x.image \in WithTarget(t)
      BY <1>7, <3>3 DEF WithTarget
    <3>4. CASE x.image \notin WithTarget(t)
      <4>1. PICK n \in DOMAIN M : x.image = p + n /\ t \notin Listing
        BY <1>5, <2>2, <3>4
      <4>2. WithTarget(t) = {} /\ x.image \notin DOMAIN images
        BY <1>4, <1>8, <4>1
      <4> QED
        BY <4>2
    <3> QED
      BY <3>3, <3>4
  <2>3. ASSUME NEW y \in Ahead("inbox")', y.op = "post", NEW i \in WithTarget(y.target)'
        PROVE  \E x \in Ahead("inbox")' : x.op = "link" /\ x.image = i /\ x.post = y.post
    <3>1. y.post = p /\ y.target = t /\ i \in WithTarget(t)
      BY <1>1, <1>5, <2>3
    <3>2. Link(i, images[i].hash, p) \in Ahead("inbox")'
      BY <1>1, <1>3, <3>1
    <3> QED
      BY <3>1, <3>2 DEF Link
  <2> QED
    BY <2>1, <2>2, <2>3 DEF Linking
<1>11. Early'
  BY StartedEarly
<1>12. Owners'
  <2>1. ASSUME NEW x \in Ahead("inbox")', x.op = "create", x.row.owner \in Id
        PROVE  x.row.owner = p /\ t \in Listing
    <3>1. Nobody \notin Id
      BY Numbers DEF Nobody, Id
    <3> QED
      BY <1>5, <2>1, <3>1 DEF OwnerOf
  <2>2. \A x \in Ahead("inbox")' : x.op = "create" /\ x.row.owner \in Id =>
          /\ x.row.owner <= last'
          /\ \A u2 \in Target : Posts(x.row.owner, u2)' => u2 \in Listing
    BY <1>4, <1>6, <2>1
  <2>3. ASSUME NEW q \in Id, NEW i, NEW h, Claims(q, i, h)'
        PROVE  \/ Claims(q, i, h) /\ q # p
               \/ q = p /\ \E n \in DOMAIN M : i = p + n /\ h = M[n]
               \/ q = p /\ i \in WithTarget(t) /\ h = images[i].hash
    <3>1. CASE i \in DOMAIN images' /\ images'[i].owner = q /\ images'[i].hash = h
      <4>1. q \in DOMAIN posts
        BY <1>1, <3>1 DEF Owners, Announced
      <4> QED
        BY <1>1, <1>4, <3>1, <4>1 DEF Claims
    <3>2. CASE \E x \in Ahead("inbox")' :
                 /\ \/ x.op = "link" /\ x.post = q
                    \/ x.op = "create" /\ x.row.owner = q
                 /\ x.image = i /\ x.hash = h
      BY <1>5, <2>1, <3>2
    <3> QED
      BY <2>3, <3>1, <3>2 DEF Claims
  <2>4. ASSUME NEW q \in Id, NEW i \in Id, NEW j \in Id, NEW h \in Hash, Claims(q, i, h)', Claims(q, j, h)'
        PROVE  i = j
    <3>1. CASE q # p
      <4>1. Claims(q, i, h) /\ Claims(q, j, h)
        BY <2>3, <2>4, <3>1
      <4> QED
        BY <4>1 DEF Owners, Announced
    <3>2. CASE q = p
      <4> DEFINE Coming(k) == \E n \in DOMAIN M : k = p + n /\ h = M[n]
                 There(k) == k \in WithTarget(t) /\ h = images[k].hash
      <4>1. (Coming(i) \/ There(i)) /\ (Coming(j) \/ There(j))
        BY <2>3, <2>4, <3>2
      <4>2. Coming(i) /\ Coming(j) => i = j
        BY <1>4
      <4>3. There(i) /\ There(j) => i = j
        BY <1>7
      <4>4. ~ (Coming(i) /\ There(j)) /\ ~ (Coming(j) /\ There(i))
        BY <1>8
      <4> QED
        BY <4>1, <4>2, <4>3, <4>4
    <3> QED
      BY <3>1, <3>2
  <2>5. \A q, i, j \in Id : \A h \in Hash : Claims(q, i, h)' /\ Claims(q, j, h)' => i = j
    BY <2>4
  <2> QED
    BY <1>1, <2>2, <2>5 DEF Owners, Announced
<1> QED
  BY <1>9, <1>10, <1>11, <1>12 DEF Announced
-----------------------------------------------------------------------------
(* Steps keep the invariant.                                               *)

(* Programs that are well formed have operations of the model.             *)
LEMMA WorkTyped ==
  ASSUME Programs'
  PROVE  \A b \in Actor : \A n \in DOMAIN work'[b] : work'[b][n].op \in Operation
<1> SUFFICES ASSUME NEW b \in Actor, NEW n \in DOMAIN work'[b] PROVE work'[b][n].op \in Operation
  OBVIOUS
<1>1. work'[b][n] \in Ahead(b)'
  BY DEF Ahead
<1> QED
  BY <1>1 DEF Programs, Typed

(* New steps keep the invariant when they announce nothing new.            *)
LEMMA GrownKeeps ==
  ASSUME IInv, NEW a \in Actor, NEW t, Grown(a, t), Sound(a, t), Announced'
  PROVE  IInv'
BY GrownTypes, GrownPrograms, GrownIdentity, GrownRows, GrownFiles, GrownOriginals DEF IInv

(* The hashes that programs touch are hashes.                              *)
LEMMA TouchesHashes ==
  ASSUME Programs, NEW b \in Actor
  PROVE  Touches(work[b]) \subseteq Hash
<1>1. \A n \in DOMAIN work[b] : work[b][n] \in Ahead(b) /\ Typed(work[b][n])
  BY DEF Programs, Ahead
<1>2. \A n \in DOMAIN work[b] : work[b][n].op = "unlist" => Depicts[work[b][n].target] \subseteq Hash
  BY <1>1, ImagesAssumption DEF Typed, Target
<1> QED
  BY <1>2 DEF Touches

(* Programs that are cut off.                                              *)
LEMMA CutKeeps ==
  ASSUME IInv, NEW A \in SUBSET Actor, Cut(A), images' = images, datas' = datas, files' = files,
         DOMAIN posts' = DOMAIN posts, \A p \in DOMAIN posts : posts'[p] = posts[p],
         last' = last, crashes' \in 0 .. MaxCrashes
  PROVE  IInv'
<1>1. /\ Programs' /\ \A b \in Actor : Ahead(b)' \subseteq Ahead(b)
      /\ \A b \in Actor : Ahead(b)' = IF b \in A THEN {} ELSE Ahead(b)
      /\ \A b \in A : \A x \in Ahead(b) : x.op \notin {"post", "unlist"} => x.hash \in disturbed'
  BY CutOff DEF IInv
<1>2. disturbed \subseteq disturbed' /\ disturbed' \subseteq Hash
  <2>1. \A b \in A : Touches(work[b]) \subseteq Hash
    BY TouchesHashes DEF IInv
  <2> QED
    BY <2>1 DEF Cut, IInv, TypeOK
<1>3. TypeOK'
  <2>1. DOMAIN work' = Actor /\ \A b \in Actor : \A n \in DOMAIN work'[b] : work'[b][n].op \in Operation
    BY <1>1, WorkTyped DEF Cut
  <2> QED
    BY <1>2, <2>1 DEF IInv, TypeOK
<1>4. Fewer
  <2>1. \A x \in Ahead("inbox") : x.op = "link" => x \in Ahead("inbox")' \/ x.hash \in disturbed'
    BY <1>1 DEF Actor
  <2>2. \A i \in DOMAIN images : images[i].owner \in Id => images[i].owner \in DOMAIN posts
    BY DEF IInv, Announced, Owners
  <2> QED
    BY <1>1, <1>2, <2>1, <2>2 DEF Fewer
<1>5. Identity' /\ Announced'
  BY <1>4, FewerIdentity, FewerAnnounced DEF IInv
<1>6. OneRow' /\ Originals'
  BY OneRowCut, OriginalsCut DEF IInv
<1>7. Files'
  <2>1. SameHeads
    BY HeadsCut DEF IInv
  <2>2. \A h, v : RowsFor(h, v)' = RowsFor(h, v)
    BY DEF RowsFor
  <2> QED
    BY <1>2, <2>1, <2>2, FilesQuiet DEF IInv
<1> QED
  BY <1>1, <1>3, <1>5, <1>6, <1>7 DEF IInv

(* A step that throws ends its program.                                    *)
LEMMA ThrewKeeps ==
  ASSUME IInv, NEW a \in Actor, Threw(a), images' = images, datas' = datas, files' = files,
         DOMAIN posts' = DOMAIN posts, \A p \in DOMAIN posts : posts'[p] = posts[p],
         last' = last, crashes' = crashes
  PROVE  IInv'
<1>1. DOMAIN work = Actor /\ crashes \in 0 .. MaxCrashes
  BY DEF IInv, TypeOK
<1>2. Cut({a})
  BY <1>1 DEF Cut, Threw
<1> QED
  BY <1>1, <1>2, CutKeeps

(* What the first step is, and what doing it changes.                      *)
LEMMA RunningFirst ==
  ASSUME IInv, NEW a \in Actor, NEW op, Running(a, op)
  PROVE  /\ work[a] # <<>> /\ Head(work[a]) = work[a][1] /\ work[a][1] \in Ahead(a)
         /\ Typed(work[a][1]) /\ Duty(a, work[a][1]) /\ work[a][1].op = op
         /\ Done(a) => Shift(a) /\ disturbed' = disturbed
         /\ work' = [work EXCEPT ![a] = Tail(@)] => Shift(a)
<1>1. work[a] # <<>> /\ Head(work[a]).op = op
  BY DEF Running
<1>2. /\ Head(work[a]) = work[a][1] /\ Head(work[a]) \in Ahead(a)
      /\ Typed(Head(work[a])) /\ Duty(a, Head(work[a]))
  BY <1>1, FirstStep DEF IInv
<1>3. work[a] \in Seq(Ahead(a)) /\ DOMAIN work = Actor
  BY DEF IInv, Programs, TypeOK
<1>4. <<>> \o Tail(work[a]) = Tail(work[a])
  BY <1>1, <1>3, Rest
<1>5. Done(a) => Shift(a) /\ disturbed' = disturbed
  BY <1>1, <1>3, <1>4 DEF Done, Replace, Shift
<1> QED
  BY <1>1, <1>2, <1>5 DEF Shift

(* A step that is about data and files.                                    *)
LEMMA DataStepKeeps ==
  ASSUME IInv, NEW a \in Actor, Shift(a), last' = last, crashes' = crashes, images' = images, posts' = posts,
         work[a][1].op # "link",
         datas' \subseteq ImageData, \A d \in datas' : d.image \in DOMAIN images,
         files' \in [Hash -> [ImageVersions -> {"none", "whole", "small"}]],
         disturbed \subseteq disturbed', disturbed' \subseteq Hash
  PROVE  TypeOK' /\ Programs' /\ Identity' /\ Announced'
<1>1. /\ DOMAIN work' = Actor /\ Programs' /\ \A b \in Actor : Ahead(b)' \subseteq Ahead(b)
      /\ \A b \in Actor \ {a} : Ahead(b)' = Ahead(b)
      /\ Ahead(a) \subseteq Ahead(a)' \cup {work[a][1]}
  BY Shifted DEF IInv
<1>2. TypeOK'
  <2>1. \A b \in Actor : \A n \in DOMAIN work'[b] : work'[b][n].op \in Operation
    BY <1>1, WorkTyped
  <2> QED
    BY <1>1, <2>1 DEF IInv, TypeOK
<1>3. Fewer
  <2>1. \A x \in Ahead("inbox") : x.op = "link" => x \in Ahead("inbox")'
    BY <1>1 DEF Actor
  <2>2. \A i \in DOMAIN images : images[i].owner \in Id => images[i].owner \in DOMAIN posts
    BY DEF IInv, Announced, Owners
  <2> QED
    BY <1>1, <2>1, <2>2 DEF Fewer
<1> QED
  BY <1>1, <1>2, <1>3, FewerIdentity, FewerAnnounced DEF IInv

(* Originals stay where they are.                                          *)
LEMMA OriginalsQuiet ==
  ASSUME TypeOK, Programs, Originals, NEW a \in Actor, Shift(a), last' = last,
         work[a][1].op \notin {"insert", "drop"}, datas' = datas, disturbed \subseteq disturbed',
         \A i \in DOMAIN images' : i \in DOMAIN images /\ images'[i].target = images[i].target
                                     /\ images'[i].hash = images[i].hash
  PROVE  Originals'
<1>1. \A i : HasOriginal(i)' <=> HasOriginal(i)
  BY DEF HasOriginal
<1>2. \A i : ~ Brings(work[a][1], i) /\ ~ Drops(work[a][1], i)
  BY DEF Brings, Drops
<1> QED
  BY <1>1, <1>2, OriginalsShifted

(* The rows and files of a step that is not about them.                    *)
LEMMA QuietKeeps ==
  ASSUME IInv, NEW a \in Actor, Shift(a), last' = last, work[a][1].op \notin OfFile \cup {"drop"},
         datas' = datas, files' = files, disturbed' = disturbed, DOMAIN images \subseteq DOMAIN images',
         \A i \in DOMAIN images : images'[i].hash = images[i].hash
  PROVE  OneRow' /\ Files'
<1>1. OneRow'
  BY OneRowShifted DEF IInv, OfFile
<1>2. \A d \in datas : images'[d.image].hash = images[d.image].hash
  BY DEF IInv, TypeOK
<1>3. \A h, v : RowsFor(h, v)' = RowsFor(h, v)
  BY <1>2 DEF RowsFor
<1>4. SameHeads
  BY HeadsShifted DEF IInv
<1>5. Files'
  BY <1>3, <1>4, FilesQuiet DEF IInv
<1> QED
  BY <1>1, <1>5
-----------------------------------------------------------------------------
(* Each action keeps the invariant.                                        *)

(* ImageDataService.create() writes the file first.                        *)
LEMMA WriteKeeps ==
  ASSUME IInv, NEW a \in Actor, saveImageFile(a), UNCHANGED <<last, crashes>>
  PROVE  IInv'
<1> DEFINE s == work[a][1]
<1>1. /\ s.op = "write" /\ Typed(s) /\ Shift(a) /\ disturbed' = disturbed
      /\ files' = [files EXCEPT ![s.hash][s.version] = s.data]
      /\ images' = images /\ datas' = datas /\ posts' = posts /\ last' = last /\ crashes' = crashes
  BY RunningFirst DEF saveImageFile
<1>2. files' \in [Hash -> [ImageVersions -> {"none", "whole", "small"}]]
  <2>1. s.hash \in Hash /\ s.version \in ImageVersions /\ s.data \in {"none", "whole", "small"}
    BY <1>1 DEF Typed, OfFile
  <2>2. files \in [Hash -> [ImageVersions -> {"none", "whole", "small"}]]
    BY DEF IInv, TypeOK
  <2> HIDE DEF s
  <2> QED
    BY <1>1, <2>1, <2>2
<1>3. TypeOK' /\ Programs' /\ Identity' /\ Announced'
  <2>1. datas \subseteq ImageData /\ disturbed \subseteq Hash /\ \A d \in datas : d.image \in DOMAIN images
    BY DEF IInv, TypeOK
  <2> QED
    BY <1>1, <1>2, <2>1, DataStepKeeps
<1>4. OneRow'
  BY <1>1, OneRowShifted DEF IInv
<1>5. Files'
  BY <1>1, FilesWritten DEF IInv
<1>6. Originals'
  BY <1>1, OriginalsQuiet DEF IInv
<1> QED
  BY <1>3, <1>4, <1>5, <1>6 DEF IInv

(* Then the row is inserted, unless the image has gone.                    *)
LEMMA InsertKeeps ==
  ASSUME IInv, NEW a \in Actor, InsertData(a), UNCHANGED <<last, crashes>>
  PROVE  IInv'
<1> DEFINE s == work[a][1]
           r == [image |-> s.image, version |-> s.version, stored |-> s.stored]
<1>1. /\ s.op = "insert" /\ Typed(s) /\ Finds(a, s.image \in DOMAIN images)
      /\ Done(a) => Shift(a) /\ disturbed' = disturbed
      /\ datas' = datas \cup {d \in {r} : s.image \in DOMAIN images}
      /\ images' = images /\ files' = files /\ posts' = posts /\ last' = last /\ crashes' = crashes
  BY RunningFirst DEF InsertData
<1>2. CASE s.image \notin DOMAIN images
  <2>1. Threw(a) /\ datas' = datas
    BY <1>1, <1>2 DEF Finds
  <2> QED
    BY <1>1, <2>1, ThrewKeeps
<1>3. CASE s.image \in DOMAIN images
  <2>1. Shift(a) /\ disturbed' = disturbed /\ datas' = datas \cup {r}
    BY <1>1, <1>3 DEF Finds
  <2>2. r \in ImageData /\ r.image = s.image /\ r.version = s.version /\ r.stored = s.stored
    BY <1>1 DEF Typed, OfImage, OfFile, ImageData
  <2>3. TypeOK' /\ Programs' /\ Identity' /\ Announced'
    <3>1. /\ datas' \subseteq ImageData /\ disturbed \subseteq Hash /\ \A d \in datas' : d.image \in DOMAIN images
          /\ files \in [Hash -> [ImageVersions -> {"none", "whole", "small"}]]
      BY <1>3, <2>1, <2>2 DEF IInv, TypeOK
    <3> HIDE DEF r, s
    <3>2. s.op # "link"
      BY <1>1
    <3> QED
      BY <1>1, <2>1, <3>1, <3>2, DataStepKeeps DEF s
  <2>4. OneRow'
    BY <1>1, <2>1, OneRowInserted DEF IInv
  <2>5. Files'
    BY <1>1, <1>3, <2>1, FilesInserted DEF IInv
  <2>6. Originals'
    <3> HIDE DEF r
    <3>1. \A i : HasOriginal(i) => HasOriginal(i)'
      BY <2>1 DEF HasOriginal
    <3>2. \A i : Brings(s, i) => HasOriginal(i)'
      BY <2>1, <2>2 DEF HasOriginal, Brings
    <3>3. \A i : ~ Drops(s, i)
      BY <1>1 DEF Drops
    <3> HIDE DEF s
    <3> QED
      BY <1>1, <2>1, <3>1, <3>2, <3>3, OriginalsShifted DEF IInv, s
  <2> QED
    BY <2>3, <2>4, <2>5, <2>6 DEF IInv
<1> QED
  BY <1>2, <1>3

(* A file is removed, or its row is not there any more.                    *)
LEMMA UnlinkKeeps ==
  ASSUME IInv, NEW a \in Actor, removeImageFile(a), UNCHANGED <<last, crashes>>
  PROVE  IInv'
<1> DEFINE s == work[a][1]
<1>1. /\ s.op = "unlink" /\ Typed(s)
      /\ \/ ~ HasRow(s) /\ Threw(a) /\ UNCHANGED files
         \/ /\ HasRow(s) /\ Shift(a)
            /\ disturbed' = disturbed \cup {h \in {s.hash} : Meets(a, s, {"insert", "update", "delete"})}
            /\ files' = IF Removable(s.hash, s.version)
                        THEN [files EXCEPT ![s.hash][s.version] = "none"] ELSE files
      /\ images' = images /\ datas' = datas /\ posts' = posts /\ last' = last /\ crashes' = crashes
  BY RunningFirst DEF removeImageFile
<1>2. CASE ~ HasRow(s)
  BY <1>1, <1>2, ThrewKeeps
<1>3. CASE HasRow(s)
  <2>1. /\ Shift(a)
        /\ disturbed' = disturbed \cup {h \in {s.hash} : Meets(a, s, {"insert", "update", "delete"})}
        /\ files' = IF Removable(s.hash, s.version)
                    THEN [files EXCEPT ![s.hash][s.version] = "none"] ELSE files
    BY <1>1, <1>3
  <2>2. s.hash \in Hash /\ s.version \in ImageVersions
    BY <1>1 DEF Typed, OfFile
  <2>3. /\ files' \in [Hash -> [ImageVersions -> {"none", "whole", "small"}]]
        /\ disturbed \subseteq disturbed' /\ disturbed' \subseteq Hash
    <3>1. files \in [Hash -> [ImageVersions -> {"none", "whole", "small"}]] /\ disturbed \subseteq Hash
      BY DEF IInv, TypeOK
    <3> HIDE DEF s
    <3> QED
      BY <2>1, <2>2, <3>1
  <2>4. TypeOK' /\ Programs' /\ Identity' /\ Announced'
    <3>1. datas \subseteq ImageData /\ \A d \in datas : d.image \in DOMAIN images
      BY DEF IInv, TypeOK
    <3> QED
      BY <1>1, <2>1, <2>3, <3>1, DataStepKeeps
  <2>5. OneRow'
    BY <1>1, <2>1, OneRowShifted DEF IInv
  <2>6. Files'
    BY <1>1, <1>3, <2>1, FilesRemoved DEF IInv
  <2>7. Originals'
    BY <1>1, <2>1, <2>3, OriginalsQuiet DEF IInv
  <2> QED
    BY <2>4, <2>5, <2>6, <2>7 DEF IInv
<1> QED
  BY <1>2, <1>3

(* The row of a file that has been written again.                          *)
LEMMA UpdateKeeps ==
  ASSUME IInv, NEW a \in Actor, UpdateData(a), UNCHANGED <<last, crashes>>
  PROVE  IInv'
<1> DEFINE s == work[a][1]
<1>1. /\ s.op = "update" /\ Typed(s)
      /\ \/ ~ HasRow(s) /\ Threw(a)
         \/ /\ HasRow(s) /\ Shift(a)
            /\ disturbed' = disturbed \cup {h \in {s.hash} : Meets(a, s, {"delete"})}
      /\ images' = images /\ datas' = datas /\ files' = files /\ posts' = posts
      /\ last' = last /\ crashes' = crashes
  BY RunningFirst DEF UpdateData, store
<1>2. CASE ~ HasRow(s)
  BY <1>1, <1>2, ThrewKeeps
<1>3. CASE HasRow(s)
  <2>1. Shift(a) /\ disturbed' = disturbed \cup {h \in {s.hash} : Meets(a, s, {"delete"})}
    BY <1>1, <1>3
  <2>2. disturbed \subseteq disturbed' /\ disturbed' \subseteq Hash
    <3>1. s.hash \in Hash /\ disturbed \subseteq Hash
      BY <1>1 DEF Typed, IInv, TypeOK
    <3> HIDE DEF s
    <3> QED
      BY <2>1, <3>1
  <2>3. TypeOK' /\ Programs' /\ Identity' /\ Announced'
    <3>1. /\ datas \subseteq ImageData /\ \A d \in datas : d.image \in DOMAIN images
          /\ files \in [Hash -> [ImageVersions -> {"none", "whole", "small"}]]
      BY DEF IInv, TypeOK
    <3> QED
      BY <1>1, <2>1, <2>2, <3>1, DataStepKeeps
  <2>4. OneRow'
    BY <1>1, <2>1, OneRowShifted DEF IInv
  <2>5. Files'
    <3>1. UNCHANGED store
      BY <1>1 DEF store
    <3> QED
      BY <1>1, <1>3, <2>1, <3>1, FilesUpdated DEF IInv
  <2>6. Originals'
    BY <1>1, <2>1, <2>2, OriginalsQuiet DEF IInv
  <2> QED
    BY <2>3, <2>4, <2>5, <2>6 DEF IInv
<1> QED
  BY <1>2, <1>3

(* The row goes.                                                           *)
LEMMA DeleteKeeps ==
  ASSUME IInv, NEW a \in Actor, DeleteData(a), UNCHANGED <<last, crashes>>
  PROVE  IInv'
<1> DEFINE s == work[a][1]
<1>1. /\ s.op = "delete" /\ Finds(a, HasRow(s))
      /\ Done(a) => Shift(a) /\ disturbed' = disturbed
      /\ datas' = {d \in datas : ~ (d.image = s.image /\ d.version = s.version)}
      /\ images' = images /\ files' = files /\ posts' = posts /\ last' = last /\ crashes' = crashes
  BY RunningFirst DEF DeleteData
<1>2. CASE ~ HasRow(s)
  <2>1. Threw(a) /\ datas' = datas
    BY <1>1, <1>2 DEF Finds, HasRow
  <2> QED
    BY <1>1, <2>1, ThrewKeeps
<1>3. CASE HasRow(s)
  <2>1. Shift(a) /\ disturbed' = disturbed
    BY <1>1, <1>3 DEF Finds
  <2>2. datas' \subseteq datas /\ \A d \in datas' : ~ SameData(d, s)
    BY <1>1 DEF SameData
  <2>3. TypeOK' /\ Programs' /\ Identity' /\ Announced'
    <3>1. /\ datas' \subseteq ImageData /\ \A d \in datas' : d.image \in DOMAIN images
          /\ files \in [Hash -> [ImageVersions -> {"none", "whole", "small"}]] /\ disturbed \subseteq Hash
      BY <2>2 DEF IInv, TypeOK
    <3> QED
      BY <1>1, <2>1, <3>1, DataStepKeeps
  <2>4. OneRow'
    BY <1>1, <2>1, <2>2, OneRowShifted DEF IInv
  <2>5. Files'
    BY <1>1, <2>1, FilesDeleted DEF IInv
  <2>6. Originals'
    <3>1. \A i : HasOriginal(i) => \/ HasOriginal(i)'
                                   \/ s.image = i /\ s.version = "ORIGINAL"
      BY <1>1 DEF HasOriginal
    <3>2. \A i : ~ Brings(s, i) /\ ~ Drops(s, i)
      BY <1>1 DEF Brings, Drops
    <3> HIDE DEF s
    <3> QED
      BY <1>1, <2>1, <3>1, <3>2, OriginalsShifted DEF IInv, s
  <2> QED
    BY <2>3, <2>4, <2>5, <2>6 DEF IInv
<1> QED
  BY <1>2, <1>3

(* Images go, and the rows that have come for them since.                  *)
LEMMA CascadeKeeps ==
  ASSUME IInv, NEW a \in Actor, NEW op \in {"drop", "unlist"}, Running(a, op), NEW gone, Cascade(a, gone),
         UNCHANGED <<last, crashes, files>>,
         DOMAIN posts' \subseteq DOMAIN posts, \A p \in DOMAIN posts' : posts'[p] = posts[p],
         \A i \in DOMAIN images : images[i].owner \in DOMAIN posts => images[i].owner \in DOMAIN posts' \/ i \in gone,
         \A i \in DOMAIN images : Drops(work[a][1], i) => i \in gone
  PROVE  IInv'
<1> DEFINE s == work[a][1]
<1>1. /\ s.op = op /\ Shift(a) /\ last' = last /\ crashes' = crashes /\ files' = files
      /\ images' = Without(images, gone) /\ datas' = {d \in datas : d.image \notin gone}
      /\ disturbed' = disturbed \cup {images[d.image].hash : d \in {e \in datas : e.image \in gone}}
  BY RunningFirst DEF Cascade
<1>2. DOMAIN images' = DOMAIN images \ gone /\ \A i \in DOMAIN images' : images'[i] = images[i]
  BY <1>1 DEF Without
<1>3. /\ DOMAIN work' = Actor /\ Programs' /\ \A b \in Actor : Ahead(b)' \subseteq Ahead(b)
      /\ \A b \in Actor \ {a} : Ahead(b)' = Ahead(b)
      /\ Ahead(a) \subseteq Ahead(a)' \cup {s}
  BY <1>1, Shifted DEF IInv
<1>4. disturbed \subseteq disturbed' /\ disturbed' \subseteq Hash
  <2>1. \A d \in datas : images[d.image].hash \in Hash
    BY DEF IInv, TypeOK, ImageRow
  <2>2. disturbed \subseteq Hash
    BY DEF IInv, TypeOK
  <2> QED
    BY <1>1, <2>1, <2>2
<1> HIDE DEF s
<1>5. TypeOK'
  <2>1. \A b \in Actor : \A n \in DOMAIN work'[b] : work'[b][n].op \in Operation
    BY <1>3, WorkTyped
  <2>2. datas' \subseteq datas /\ \A d \in datas' : d.image \in DOMAIN images'
    BY <1>1, <1>2 DEF IInv, TypeOK
  <2> QED
    BY <1>1, <1>2, <1>3, <1>4, <2>1, <2>2 DEF IInv, TypeOK
<1>6. Fewer
  <2>1. \A x \in Ahead("inbox") : x.op = "link" => x \in Ahead("inbox")'
    BY <1>1, <1>3 DEF Actor
  <2>2. \A i \in DOMAIN images' : images[i].owner \in Id => images[i].owner \in DOMAIN posts'
    BY <1>2 DEF IInv, Announced, Owners
  <2> QED
    BY <1>1, <1>2, <1>3, <1>4, <2>1, <2>2 DEF Fewer
<1>7. Identity' /\ Announced'
  BY <1>6, FewerIdentity, FewerAnnounced DEF IInv
<1>8. OneRow'
  BY <1>1, OneRowShifted DEF IInv, s
<1>9. Files'
  <2>1. s.op \notin OfFile
    BY <1>1 DEF OfFile
  <2> QED
    BY <1>1, <2>1, FilesCascaded DEF IInv, s
<1>10. Originals'
  <2>1. \A i \in DOMAIN images' : HasOriginal(i) => HasOriginal(i)'
    BY <1>1, <1>2 DEF HasOriginal
  <2>2. \A i \in DOMAIN images' : ~ Brings(s, i) /\ ~ Drops(s, i)
    BY <1>1, <1>2 DEF Brings, s
  <2> QED
    BY <1>1, <1>2, <1>4, <2>1, <2>2, OriginalsShifted DEF IInv, s
<1> QED
  BY <1>3, <1>5, <1>7, <1>8, <1>9, <1>10 DEF IInv

(* An image is destroyed.                                                  *)
LEMMA DropKeeps ==
  ASSUME IInv, NEW a \in Actor, DropImage(a), UNCHANGED <<last, crashes>>
  PROVE  IInv'
<1> DEFINE i == Head(work[a]).image
<1>1. /\ Running(a, "drop")
      /\ \/ i \in DOMAIN images /\ Cascade(a, {i})
         \/ i \notin DOMAIN images /\ Threw(a) /\ UNCHANGED <<images, datas>>
      /\ files' = files /\ posts' = posts /\ last' = last /\ crashes' = crashes
  BY DEF DropImage
<1>2. Head(work[a]) = work[a][1]
  BY <1>1, RunningFirst
<1>3. CASE Cascade(a, {i})
  <2>1. \A j \in DOMAIN images : Drops(work[a][1], j) => j \in {i}
    BY <1>2 DEF Drops
  <2> HIDE DEF i
  <2> QED
    BY <1>1, <1>3, <2>1, CascadeKeeps
<1>4. CASE i \notin DOMAIN images /\ Threw(a) /\ UNCHANGED <<images, datas>>
  BY <1>1, <1>4, ThrewKeeps
<1> QED
  BY <1>1, <1>3, <1>4

(* A listing is destroyed.                                                 *)
LEMMA UnlistKeeps ==
  ASSUME IInv, NEW a \in Actor, UnlistListing(a), UNCHANGED <<last, crashes>>
  PROVE  IInv'
<1> DEFINE p == Head(work[a]).post
           gone == {i \in DOMAIN images : images[i].owner = p}
<1>1. /\ Running(a, "unlist")
      /\ \/ p \in DOMAIN posts /\ Cascade(a, gone)
         \/ p \notin DOMAIN posts /\ Threw(a) /\ UNCHANGED <<images, datas>>
      /\ posts' = Without(posts, {p})
      /\ files' = files /\ last' = last /\ crashes' = crashes
  BY DEF UnlistListing
<1>2. DOMAIN posts' = DOMAIN posts \ {p} /\ \A q \in DOMAIN posts' : posts'[q] = posts[q]
  BY <1>1 DEF Without
<1>3. CASE Cascade(a, gone)
  <2>1. work[a][1].op = "unlist"
    BY <1>1, RunningFirst
  <2>2. \A j \in DOMAIN images : ~ Drops(work[a][1], j)
    BY <2>1 DEF Drops
  <2>3. \A i \in DOMAIN images : images[i].owner \in DOMAIN posts => images[i].owner \in DOMAIN posts' \/ i \in gone
    BY <1>2
  <2> HIDE DEF p, gone
  <2> QED
    BY <1>1, <1>2, <1>3, <2>2, <2>3, CascadeKeeps
<1>4. CASE p \notin DOMAIN posts /\ Threw(a) /\ UNCHANGED <<images, datas>>
  <2>1. DOMAIN posts' = DOMAIN posts /\ \A q \in DOMAIN posts : posts'[q] = posts[q]
    BY <1>2, <1>4
  <2> QED
    BY <1>1, <1>4, <2>1, ThrewKeeps
<1> QED
  BY <1>1, <1>3, <1>4

(* An image gets its row, unless the post it is for has gone.              *)
LEMMA CreateKeeps ==
  ASSUME IInv, NEW a \in Actor, CreateImage(a), UNCHANGED <<last, crashes>>
  PROVE  IInv'
<1> DEFINE s == work[a][1]
           fits == s.row.owner \in DOMAIN posts \cup {Template, Nobody}
<1>1. /\ s.op = "create" /\ Finds(a, fits) /\ (Done(a) => Shift(a) /\ disturbed' = disturbed)
      /\ images' = IF fits THEN [i \in DOMAIN images \cup {s.image} |->
                                   IF i = s.image THEN s.row ELSE images[i]] ELSE images
      /\ datas' = datas /\ files' = files /\ posts' = posts /\ last' = last /\ crashes' = crashes
  BY RunningFirst DEF CreateImage
<1>2. CASE ~ fits
  <2>1. Threw(a) /\ images' = images
    BY <1>1, <1>2 DEF Finds
  <2> QED
    BY <1>1, <2>1, ThrewKeeps
<1>3. CASE fits
  <2>1. Shift(a) /\ disturbed' = disturbed /\ Created(a)
    BY <1>1, <1>3 DEF Finds, Created
  <2>2. /\ Identity' /\ Announced' /\ Typed(s) /\ s.image \in Id /\ s.row \in ImageRow
        /\ DOMAIN images' = DOMAIN images \cup {s.image} /\ images'[s.image] = s.row
        /\ \A i \in DOMAIN images : i # s.image /\ images'[i] = images[i]
        /\ s \in Ahead(a)
    BY <2>1, NewImage, CreatedIdentity, CreatedAnnounced DEF IInv
  <2>3. Programs' /\ DOMAIN work' = Actor
    BY <1>1, <2>1, Shifted DEF IInv
  <2>4. s.image \notin DOMAIN posts /\ s.image \in 1 .. last
    <3>1. s.image \notin DOMAIN posts
      BY <1>1, <2>2 DEF IInv, Identity, NewIds
    <3>2. s.image <= last /\ s.image \in Nat /\ s.image # 0 /\ last \in Nat
      BY <1>1, <2>2, Numbers DEF Typed, OfImage, IInv
    <3> QED
      BY <3>1, <3>2
  <2> HIDE DEF s
  <2>5. TypeOK'
    <3>1. \A b \in Actor : \A n \in DOMAIN work'[b] : work'[b][n].op \in Operation
      BY <2>3, WorkTyped
    <3>2. DOMAIN images' \subseteq 1 .. last /\ \A i \in DOMAIN images' : images'[i] \in ImageRow
      BY <2>2, <2>4 DEF IInv, TypeOK
    <3>3. \A d \in datas : d.image \in DOMAIN images'
      BY <2>2 DEF IInv, TypeOK
    <3>4. DOMAIN posts \subseteq (1 .. last) \ DOMAIN images'
      BY <2>2, <2>4 DEF IInv, TypeOK
    <3> QED
      BY <1>1, <2>1, <2>3, <3>1, <3>2, <3>3, <3>4 DEF IInv, TypeOK
  <2>6. OneRow' /\ Files'
    <3>1. s.op \notin OfFile \cup {"drop"}
      BY <1>1 DEF OfFile
    <3>2. \A i \in DOMAIN images : images'[i].hash = images[i].hash
      BY <2>2
    <3> QED
      BY <1>1, <2>1, <2>2, <3>1, <3>2, QuietKeeps DEF s
  <2>7. Originals'
    <3>1. \A i : HasOriginal(i)' <=> HasOriginal(i)
      BY <1>1 DEF HasOriginal
    <3>2. \A i : ~ Brings(s, i) /\ ~ Drops(s, i)
      BY <1>1 DEF Brings, Drops
    <3> QED
      BY <1>1, <2>1, <2>2, <3>1, <3>2, OriginalsShifted DEF IInv, s
  <2> QED
    BY <2>2, <2>3, <2>5, <2>6, <2>7 DEF IInv
<1> QED
  BY <1>2, <1>3

(* A listing or a market gets its row.                                     *)
LEMMA PostKeeps ==
  ASSUME IInv, NEW a \in Actor, CreatePost(a), UNCHANGED <<last, crashes>>
  PROVE  IInv'
<1> DEFINE s == work[a][1]
<1>1. /\ s.op = "post" /\ Typed(s) /\ Duty(a, s) /\ s \in Ahead(a) /\ Shift(a) /\ disturbed' = disturbed
      /\ posts' = [p \in DOMAIN posts \cup {s.post} |->
                     IF p = s.post THEN [hash |-> s.target, image |-> NoImage] ELSE posts[p]]
      /\ datas' = datas /\ files' = files /\ images' = images /\ last' = last /\ crashes' = crashes
  BY RunningFirst DEF CreatePost
<1>2. a = "inbox"
  BY <1>1 DEF Duty, OfFile
<1>3. Identity' /\ Announced'
  <2>1. Posted
    BY <1>1, <1>2 DEF Posted
  <2> QED
    BY <2>1, PostedKeeps DEF IInv
<1>4. Programs' /\ DOMAIN work' = Actor
  BY <1>1, Shifted DEF IInv
<1> HIDE DEF s
<1>5. TypeOK'
  <2>1. \A b \in Actor : \A n \in DOMAIN work'[b] : work'[b][n].op \in Operation
    BY <1>4, WorkTyped
  <2>2. s.post \notin DOMAIN images /\ s.post \in 1 .. last /\ s.target \in Target
    <3>1. s.post \notin DOMAIN images
      BY <1>1 DEF IInv, Identity, NewIds
    <3>2. s.post <= last /\ s.post \in Nat /\ s.post # 0 /\ last \in Nat /\ s.target \in Target
      BY <1>1, Numbers DEF Typed, OfPost, IInv
    <3> QED
      BY <3>1, <3>2
  <2>3. DOMAIN posts' = DOMAIN posts \cup {s.post}
    BY <1>1
  <2>4. DOMAIN posts' \subseteq (1 .. last) \ DOMAIN images
    BY <2>2, <2>3 DEF IInv, TypeOK
  <2>5. \A p \in DOMAIN posts' : posts'[p] \in [hash : Target, image : Id \cup {NoImage}]
    <3>1. \A p \in DOMAIN posts : posts[p] \in [hash : Target, image : Id \cup {NoImage}]
      BY DEF IInv, TypeOK
    <3>2. [hash |-> s.target, image |-> NoImage] \in [hash : Target, image : Id \cup {NoImage}]
      BY <2>2
    <3> QED
      BY <1>1, <3>1, <3>2
  <2> QED
    BY <1>1, <1>4, <2>1, <2>4, <2>5 DEF IInv, TypeOK
<1>6. OneRow' /\ Files'
  <2>1. s.op \notin OfFile \cup {"drop"}
    BY <1>1 DEF OfFile
  <2> QED
    BY <1>1, <2>1, QuietKeeps DEF s
<1>7. Originals'
  <2>1. s.op \notin {"insert", "drop"}
    BY <1>1
  <2> QED
    BY <1>1, <2>1, OriginalsQuiet DEF IInv, s
<1> QED
  BY <1>3, <1>4, <1>5, <1>6, <1>7 DEF IInv

(* An image and a post are linked, when both are there.                    *)
LEMMA LinkKeeps ==
  ASSUME IInv, NEW a \in Actor, LinkImage(a), UNCHANGED <<last, crashes>>
  PROVE  IInv'
<1> DEFINE s == work[a][1]
           there == s.image \in DOMAIN images /\ s.post \in DOMAIN posts
           ofListing == there /\ posts[s.post].hash \in Listing
<1>1. /\ s.op = "link" /\ Typed(s) /\ Duty(a, s) /\ s \in Ahead(a)
      /\ Finds(a, there) /\ (Done(a) => Shift(a) /\ disturbed' = disturbed)
      /\ images' = IF ofListing THEN [images EXCEPT ![s.image].owner = s.post] ELSE images
      /\ posts' = IF there /\ ~ ofListing THEN [posts EXCEPT ![s.post].image = s.image] ELSE posts
      /\ datas' = datas /\ files' = files /\ last' = last /\ crashes' = crashes
  BY RunningFirst DEF LinkImage
<1>2. CASE ~ there
  <2>1. Threw(a) /\ images' = images /\ posts' = posts
    BY <1>1, <1>2 DEF Finds
  <2> QED
    BY <1>1, <2>1, ThrewKeeps
<1>3. CASE there
  <2>1. Shift(a) /\ disturbed' = disturbed
    BY <1>1, <1>3 DEF Finds
  <2>2. a = "inbox"
    BY <1>1 DEF Duty, OfFile
  <2>3. Identity' /\ Announced'
    <3>1. LinkedOne
      BY <1>1, <1>3, <2>1, <2>2 DEF LinkedOne
    <3> QED
      BY <3>1, LinkedKeeps DEF IInv
  <2>4. Programs' /\ DOMAIN work' = Actor
    BY <1>1, <2>1, Shifted DEF IInv
  <2>5. /\ s.image \in Id /\ s.post \in Id
        /\ \A i \in DOMAIN images : images[i] \in ImageRow
        /\ \A p \in DOMAIN posts : posts[p] \in [hash : Target, image : Id \cup {NoImage}]
    BY <1>3, Numbers DEF IInv
  <2> HIDE DEF s
  <2>6. /\ DOMAIN images' = DOMAIN images
        /\ \A i \in DOMAIN images : /\ images'[i] \in ImageRow /\ images'[i].hash = images[i].hash
                                    /\ images'[i].target = images[i].target
    <3>1. CASE ~ ofListing
      BY <1>1, <2>5, <3>1
    <3>2. CASE ofListing
      <4>1. images' = [images EXCEPT ![s.image].owner = s.post]
        BY <1>1, <3>2
      <4> QED
        BY <2>5, <4>1 DEF ImageRow
    <3> QED
      BY <3>1, <3>2
  <2>7. /\ DOMAIN posts' = DOMAIN posts
        /\ \A p \in DOMAIN posts : posts'[p] \in [hash : Target, image : Id \cup {NoImage}]
    <3>1. CASE ~ (there /\ ~ ofListing)
      BY <1>1, <2>5, <3>1
    <3>2. CASE there /\ ~ ofListing
      <4>1. posts' = [posts EXCEPT ![s.post].image = s.image]
        BY <1>1, <3>2
      <4> QED
        BY <2>5, <4>1
    <3> QED
      BY <3>1, <3>2
  <2> HIDE DEF there, ofListing
  <2>8. TypeOK'
    <3>1. \A b \in Actor : \A n \in DOMAIN work'[b] : work'[b][n].op \in Operation
      BY <2>4, WorkTyped
    <3> QED
      BY <1>1, <2>1, <2>4, <2>6, <2>7, <3>1 DEF IInv, TypeOK
  <2>9. OneRow' /\ Files'
    <3>1. s.op \notin OfFile \cup {"drop"}
      BY <1>1 DEF OfFile
    <3>2. DOMAIN images \subseteq DOMAIN images' /\ \A i \in DOMAIN images : images'[i].hash = images[i].hash
      BY <2>6
    <3> QED
      BY <1>1, <2>1, <3>1, <3>2, QuietKeeps DEF s
  <2>10. Originals'
    <3>1. s.op \notin {"insert", "drop"}
      BY <1>1
    <3>2. \A i \in DOMAIN images' : i \in DOMAIN images /\ images'[i].target = images[i].target
                                     /\ images'[i].hash = images[i].hash
      BY <2>6
    <3> QED
      BY <1>1, <2>1, <3>1, <3>2, OriginalsQuiet DEF IInv, s
  <2> QED
    BY <2>3, <2>4, <2>8, <2>9, <2>10 DEF IInv
<1> QED
  BY <1>2, <1>3

(* An image that is there is to be destroyed.                              *)
LEMMA LoadKeeps ==
  ASSUME IInv, NEW a \in Actor, LoadImage(a), UNCHANGED <<last, crashes>>
  PROVE  IInv'
<1>1. /\ Running(a, "load") /\ UNCHANGED store
      /\ IF Head(work[a]).image \in DOMAIN images
         THEN Replace(a, DiscardAll(Head(work[a]).image) \o <<On("drop", Head(work[a]).image)>>)
         ELSE Threw(a)
  BY DEF LoadImage
<1>2. /\ Head(work[a]) \in Ahead(a) /\ Head(work[a]).op = "load" /\ work[a] # <<>>
      /\ images' = images /\ datas' = datas /\ files' = files /\ posts' = posts
  BY <1>1, RunningFirst DEF store
<1>3. CASE Head(work[a]).image \notin DOMAIN images
  BY <1>1, <1>2, <1>3, ThrewKeeps
<1>4. ASSUME NEW s \in Ahead(a), s.op = "load", NEW i \in DOMAIN images, s.image = i,
             NEW t, Destroying(i, t), Replace(a, t)
      PROVE  IInv'
  <2>1. Sound(a, t) /\ a # "inbox"
    BY <1>4, LoadSound DEF IInv
  <2>2. Grown(a, t)
    <3>1. Head(work[a]).op \in Whole
      BY <1>2 DEF Whole
    <3> QED
      BY <1>1, <1>2, <1>4, <3>1, ReplacedGrown DEF IInv
  <2>3. Announced'
    BY <2>1, <2>2, GrownAnnounced DEF IInv
  <2> QED
    BY <2>1, <2>2, <2>3, GrownKeeps
<1>5. CASE Head(work[a]).image \in DOMAIN images
  <2> DEFINE j == Head(work[a]).image
             u == DiscardAll(j) \o <<On("drop", j)>>
  <2>1. j \in DOMAIN images /\ j = Head(work[a]).image /\ Destroying(j, u) /\ Replace(a, u)
    BY <1>1, <1>5 DEF Destroying
  <2> HIDE DEF u
  <2>2. \E i \in DOMAIN images : i = Head(work[a]).image /\ \E t : Destroying(i, t) /\ Replace(a, t)
    BY <2>1
  <2> HIDE DEF j
  <2>3. PICK i \in DOMAIN images : i = Head(work[a]).image /\ \E t : Destroying(i, t) /\ Replace(a, t)
    BY <2>2
  <2>4. PICK t : Destroying(i, t) /\ Replace(a, t)
    BY <2>3
  <2>5. PICK s \in Ahead(a) : s.op = "load" /\ s.image = i
    BY <1>2, <2>3
  <2> QED
    BY <1>4, <2>4, <2>5
<1> QED
  BY <1>3, <1>5

(* An image that is there gets its data.                                   *)
LEMMA RefreshKeeps ==
  ASSUME IInv, NEW a \in Actor, RefreshImage(a), UNCHANGED <<last, crashes>>
  PROVE  IInv'
<1>1. /\ Running(a, "refresh") /\ UNCHANGED store
      /\ IF Head(work[a]).image \in DOMAIN images
         THEN Replace(a, DiscardAll(Head(work[a]).image)
                           \o SaveAll(Head(work[a]).image, Head(work[a]).hash, Head(work[a]).data))
         ELSE Threw(a)
  BY DEF RefreshImage
<1>2. /\ Head(work[a]) \in Ahead(a) /\ Head(work[a]).op = "refresh" /\ work[a] # <<>>
      /\ images' = images /\ datas' = datas /\ files' = files /\ posts' = posts
  BY <1>1, RunningFirst DEF store
<1>3. CASE Head(work[a]).image \notin DOMAIN images
  BY <1>1, <1>2, <1>3, ThrewKeeps
<1>4. ASSUME NEW s \in Ahead(a), s.op = "refresh", NEW i \in DOMAIN images, NEW h, NEW data, NEW t,
             Refreshing(s, i, h, data, t), Replace(a, t)
      PROVE  IInv'
  <2>1. Sound(a, t) /\ \A k \in DOMAIN t : t[k].op \in OfFile
    BY <1>4, RefreshSound DEF IInv
  <2>2. Grown(a, t)
    <3>1. Head(work[a]).op \in Whole
      BY <1>2 DEF Whole
    <3> QED
      BY <1>1, <1>2, <1>4, <3>1, ReplacedGrown DEF IInv
  <2>3. Announced'
    <3>1. \A k \in DOMAIN t : t[k].op \notin {"create", "post", "link"}
      BY <2>1 DEF OfFile
    <3> QED
      BY <2>1, <2>2, <3>1, GrownAnnounced DEF IInv
  <2> QED
    BY <2>1, <2>2, <2>3, GrownKeeps
<1>5. CASE Head(work[a]).image \in DOMAIN images
  <2> DEFINE r == Head(work[a])
             u == DiscardAll(r.image) \o SaveAll(r.image, r.hash, r.data)
  <2>1. /\ r.image \in DOMAIN images /\ Refreshing(r, r.image, r.hash, r.data, u) /\ Replace(a, u)
        /\ r \in Ahead(a) /\ r.op = "refresh"
    BY <1>1, <1>2, <1>5 DEF Refreshing
  <2> HIDE DEF r, u
  <2>2. PICK s \in Ahead(a) : s.op = "refresh" /\ s = r
    BY <2>1
  <2>3. PICK i \in DOMAIN images : i = r.image
    BY <2>1
  <2>4. PICK t : Refreshing(s, i, r.hash, r.data, t) /\ Replace(a, t)
    BY <2>1, <2>2, <2>3
  <2>5. PICK h : h = r.hash
    OBVIOUS
  <2>6. PICK data : data = r.data
    OBVIOUS
  <2>7. Refreshing(s, i, h, data, t)
    BY <2>4, <2>5, <2>6
  <2> QED
    BY <1>4, <2>2, <2>4, <2>7
<1> QED
  BY <1>3, <1>5

(* An image that is there is resized, unless it is small already.          *)
LEMMA ResizeKeeps ==
  ASSUME IInv, NEW a \in Actor, createResizedVersion(a), UNCHANGED <<last, crashes>>
  PROVE  IInv'
<1> DEFINE j == Head(work[a]).image
<1>1. /\ Running(a, "resize") /\ UNCHANGED store
      /\ \/ Threw(a)
         \/ j \in DOMAIN images /\ Replace(a, Resized(j))
         \/ Done(a)
  BY DEF createResizedVersion
<1>2. /\ Head(work[a]) \in Ahead(a) /\ Head(work[a]).op = "resize" /\ work[a] # <<>>
      /\ images' = images /\ datas' = datas /\ files' = files /\ posts' = posts
      /\ work[a][1].op = "resize" /\ (Done(a) => Shift(a) /\ disturbed' = disturbed)
  BY <1>1, RunningFirst DEF store
<1>3. CASE Threw(a)
  BY <1>1, <1>2, <1>3, ThrewKeeps
<1>4. CASE Done(a)
  <2>1. Shift(a) /\ disturbed' = disturbed
    BY <1>2, <1>4
  <2>2. TypeOK' /\ Programs' /\ Identity' /\ Announced'
    <3>1. /\ datas \subseteq ImageData /\ \A d \in datas : d.image \in DOMAIN images
          /\ files \in [Hash -> [ImageVersions -> {"none", "whole", "small"}]] /\ disturbed \subseteq Hash
      BY DEF IInv, TypeOK
    <3> QED
      BY <1>2, <2>1, <3>1, DataStepKeeps
  <2>3. OneRow' /\ Files'
    BY <1>2, <2>1, QuietKeeps DEF OfFile
  <2>4. Originals'
    BY <1>2, <2>1, OriginalsQuiet DEF IInv
  <2> QED
    BY <2>2, <2>3, <2>4 DEF IInv
<1>5. ASSUME NEW i \in DOMAIN images, NEW t, Resizing(i, t), Replace(a, t)
      PROVE  IInv'
  <2>1. Sound(a, t) /\ a # "inbox"
    BY <1>2, <1>5, ResizeSound DEF IInv
  <2>2. Grown(a, t)
    <3>1. Head(work[a]).op \in Whole
      BY <1>2 DEF Whole
    <3> QED
      BY <1>1, <1>2, <1>5, <3>1, ReplacedGrown DEF IInv
  <2>3. Announced'
    BY <2>1, <2>2, GrownAnnounced DEF IInv
  <2> QED
    BY <2>1, <2>2, <2>3, GrownKeeps
<1>6. CASE j \in DOMAIN images /\ Replace(a, Resized(j))
  <2>1. PICK i \in DOMAIN images : i = j
    BY <1>6
  <2>2. PICK t : t = Resized(i)
    OBVIOUS
  <2>3. Resizing(i, t) /\ Replace(a, t)
    BY <1>6, <2>1, <2>2 DEF Resizing
  <2> QED
    BY <1>5, <2>3
<1> QED
  BY <1>1, <1>3, <1>4, <1>6

(* Nothing joined to two pieces leaves them as they are.                   *)
LEMMA NothingMore ==
  ASSUME NEW s, NEW t, Piece(s), Piece(t)
  PROVE  (s \o t) \o <<>> = s \o t
<1> DEFINE S == StepsOf(s) \cup StepsOf(t)
<1>1. s \in Seq(S) /\ t \in Seq(S)
  BY DEF Piece
<1>2. s \o t \in Seq(S)
  BY <1>1
<1> QED
  BY <1>2

(* A message about a listing or a market begins.                           *)
LEMMA ReceivePostKeeps ==
  ASSUME IInv, NEW t \in Target, ReceivePost(t)
  PROVE  IInv'
<1> DEFINE q == last + 1
           L == SetToSeq(Missing(t))
           w == (<<PostStep(q, t)>> \o Placeholders(q, t, L)) \o LinkAll(q, WithTarget(t))
<1>1. /\ q + Len(L) <= MaxRows /\ last' = q + Len(L) /\ Begin("inbox", w)
  BY DEF ReceivePost, PostStep, Placeholders, LinkAll, Links, ForEach
<1>2. Posting(q, t, L, w)
  BY DEF Posting
<1> HIDE DEF w, L, q
<1>3. PICK p : p = last + 1 /\ p = q
  BY DEF q
<1>4. PICK M : M = L
  OBVIOUS
<1>5. PICK u : u = w
  OBVIOUS
<1>6. Posting(p, t, M, u) /\ Begin("inbox", u) /\ last' = p + Len(M) /\ last' <= MaxRows
  BY <1>1, <1>2, <1>3, <1>4, <1>5
<1>7. last \in Nat /\ "inbox" \in Actor /\ p \in Nat /\ p > last
  BY <1>3, Numbers DEF IInv
<1>8. work["inbox"] = <<>>
  BY <1>6 DEF Begin
<1>9. Piece(u)
  BY <1>6, <1>7, PostingPiece DEF IInv
<1>10. Sound("inbox", u) /\ last' \in last .. MaxRows
  BY <1>3, <1>6, <1>8, PostingSound DEF IInv
<1>11. Grown("inbox", u)
  BY <1>6, <1>7, <1>9, <1>10, BegunGrown DEF IInv
<1>12. Starts(u)
  BY <1>6, <1>7, <1>10, Numbers DEF Starts, IInv
<1>13. Announced'
  BY <1>3, <1>6, <1>9, <1>12, PostingAnnounced DEF IInv
<1> QED
  BY <1>7, <1>10, <1>11, <1>13, GrownKeeps

(* A message about an image that is known begins.                          *)
LEMMA RefreshesKeeps ==
  ASSUME IInv, NEW h \in Hash, NEW data \in {"whole", "small"}, NEW K, NEW u,
         Refreshes(K, h, data, u), Begin("inbox", u), last' = last,
         K \subseteq {i \in DOMAIN images : images[i].hash = h /\ images[i].target # NoTarget}
  PROVE  IInv'
<1>1. Piece(u) /\ Sound("inbox", u) /\ \A k \in DOMAIN u : u[k].op = "refresh"
  BY RefreshesSound DEF IInv
<1>2. "inbox" \in Actor /\ last' \in last .. MaxRows
  BY Numbers DEF IInv
<1>3. Grown("inbox", u)
  BY <1>1, <1>2, BegunGrown DEF IInv
<1>4. Announced'
  <2>1. \A k \in DOMAIN u : u[k].op \notin {"create", "post", "link"}
    BY <1>1
  <2> QED
    BY <1>1, <1>2, <1>3, <2>1, GrownAnnounced DEF IInv
<1> QED
  BY <1>1, <1>2, <1>3, <1>4, GrownKeeps

(* A message about an image that is not known begins.                      *)
LEMMA CreatesKeeps ==
  ASSUME IInv, NEW i, i = last + 1, NEW h \in Hash, NEW row \in ImageRow, NEW data \in {"whole", "small"},
         NEW u, Creating(i, h, row, data, <<>>, u), Begin("inbox", u), last < MaxRows, last' = i,
         row.owner = Nobody, row.target \in Target, h \in Depicts[row.target],
         \A j \in WithTarget(row.target) : images[j].hash # h
  PROVE  IInv'
<1>1. /\ "inbox" \in Actor /\ last' \in last .. MaxRows /\ last \in Nat /\ last' \in Nat /\ last <= last'
  BY Numbers DEF IInv
<1>2. work["inbox"] = <<>>
  BY DEF Begin
<1>3. StepsOf(<<>>) = {}
  BY DEF StepsOf
<1>4. Piece(u) /\ Sound("inbox", u)
  BY <1>2, <1>3, CreationSound DEF IInv
<1>5. Grown("inbox", u)
  BY <1>1, <1>4, BegunGrown DEF IInv
<1>6. Starts(u)
  BY <1>1 DEF Starts
<1>7. Announced'
  BY <1>4, <1>6, CreatingAnnounced DEF IInv
<1> QED
  BY <1>1, <1>4, <1>5, <1>7, GrownKeeps

(* Any message about an image.                                             *)
LEMMA ReceiveImageKeeps ==
  ASSUME IInv, NEW t \in Target, NEW data \in Received, NEW h \in Depicts[t], ReceiveImage(h, t, data)
  PROVE  IInv'
<1> DEFINE K == {i \in WithTarget(t) : images[i].hash = h}
<1>1. h \in Hash /\ data \in {"whole", "small"} /\ t # NoTarget
  BY ImagesAssumption
<1>2. CASE /\ K # {}
           /\ Begin("inbox", ForEach(InOrder(K), LAMBDA i : <<Refresh(i, h, data)>>)) /\ last' = last
  <2> DEFINE w == FlattenSeq([n \in DOMAIN InOrder(K) |-> <<Refresh(InOrder(K)[n], h, data)>>])
  <2>1. Begin("inbox", w)
    BY <1>2 DEF ForEach
  <2>2. Refreshes(K, h, data, w)
    BY DEF Refreshes
  <2>3. K \subseteq {i \in DOMAIN images : images[i].hash = h /\ images[i].target # NoTarget}
    BY <1>1 DEF WithTarget
  <2> HIDE DEF K, w
  <2> QED
    BY <1>1, <1>2, <2>1, <2>2, <2>3, RefreshesKeeps
<1>3. CASE /\ K = {} /\ last < MaxRows /\ last' = last + 1
           /\ Begin("inbox", <<Create(last + 1, h, t, Nobody)>> \o SaveAll(last + 1, h, data))
  <2> DEFINE row == [hash |-> h, target |-> t, owner |-> Nobody]
             j == last + 1
             w == <<Create(j, h, t, Nobody)>> \o SaveAll(j, h, data)
  <2>1. row \in ImageRow /\ row.owner = Nobody /\ row.target = t /\ row.hash = h
    BY <1>1 DEF ImageRow
  <2>2. \A i \in WithTarget(t) : images[i].hash # h
    BY <1>3
  <2>3. Begin("inbox", w)
    BY <1>3
  <2>4. Creating(j, h, row, data, <<>>, w)
    <3>1. Piece(SaveAll(j, h, data)) /\ Piece(<<Create(j, h, t, Nobody)>>)
      <4>1. Create(j, h, t, Nobody).op \notin OfFile
        BY DEF Create, OfFile
      <4> QED
        BY <4>1, SavesAll, OnePiece
    <3>2. w \o <<>> = w
      BY <3>1, NothingMore
    <3> QED
      BY <2>1, <3>2 DEF Creating, Create
  <2> HIDE DEF row, w
  <2>5. PICK r \in ImageRow : r = row
    BY <2>1
  <2>6. PICK i : i = last + 1 /\ i = j
    OBVIOUS
  <2>7. PICK u : u = w
    OBVIOUS
  <2>8. /\ Creating(i, h, r, data, <<>>, u) /\ Begin("inbox", u) /\ last < MaxRows /\ last' = i
        /\ r.owner = Nobody /\ r.target \in Target /\ h \in Depicts[r.target]
        /\ \A k \in WithTarget(r.target) : images[k].hash # h
    BY <1>3, <2>1, <2>2, <2>3, <2>4, <2>5, <2>6, <2>7
  <2> QED
    BY <1>1, <2>6, <2>8, CreatesKeeps
<1> QED
  BY <1>2, <1>3 DEF ReceiveImage, Refresh

(* The user adds an image.                                                 *)
LEMMA AddsKeeps ==
  ASSUME IInv, NEW i, i = last + 1, NEW h \in Hash, NEW row \in ImageRow,
         row.owner = Template, row.target = NoTarget,
         NEW c, c = <<>> \/ ResizesAll(i, h, c), NEW u, Creating(i, h, row, "whole", c, u),
         Begin("user", u), last < MaxRows, last' = i
  PROVE  IInv'
<1>1. /\ "user" \in Actor /\ "user" \in {"inbox", "user"} /\ last' \in last .. MaxRows
      /\ "whole" \in {"whole", "small"} /\ "user" # "inbox"
  BY Numbers DEF IInv
<1>2. work["user"] = <<>>
  BY DEF Begin
<1>3. /\ c = <<>> \/ (Piece(c) /\ row.target = NoTarget)
      /\ \A x \in StepsOf(c) : /\ x.op = "resize" /\ x.hash \in Hash
                               /\ Known(x) \/ (x.image = i /\ x.hash = h)
  <2>1. CASE c = <<>>
    <3>1. StepsOf(c) = {}
      BY <2>1 DEF StepsOf
    <3> QED
      BY <2>1, <3>1
  <2>2. CASE ResizesAll(i, h, c)
    BY <2>2, ResizesAllPiece DEF IInv
  <2> QED
    BY <2>1, <2>2
<1>4. Piece(u) /\ Sound("user", u)
  BY <1>1, <1>2, <1>3, CreationSound DEF IInv
<1>5. Grown("user", u)
  BY <1>1, <1>4, BegunGrown DEF IInv
<1>6. Announced'
  BY <1>1, <1>4, <1>5, GrownAnnounced DEF IInv
<1> QED
  BY <1>1, <1>4, <1>5, <1>6, GrownKeeps

(* ImageAddCommand, with or without the resizing.                          *)
LEMMA ImageAddKeeps ==
  ASSUME IInv, NEW h \in Hash, ImageAdd(h)
  PROVE  IInv'
<1> DEFINE j == last + 1
           row == [hash |-> h, target |-> NoTarget, owner |-> Template]
           all == Calls("resize", OfTemplate) \o <<[op |-> "resize", image |-> j, hash |-> h]>>
           w(c) == (<<Create(j, h, NoTarget, Template)>> \o SaveAll(j, h, "whole")) \o c
<1>1. last < MaxRows /\ last' = j
  BY DEF ImageAdd
<1>2. PICK c : (c = <<>> \/ ResizesAll(j, h, c)) /\ Begin("user", w(c))
  <2>1. PICK skipResize \in BOOLEAN :
          Begin("user", w(IF skipResize THEN <<>> ELSE all))
    BY DEF ImageAdd, ForEach, Calls
  <2>2. CASE skipResize
    BY <2>1, <2>2
  <2>3. CASE ~ skipResize
    <3>1. ResizesAll(j, h, all)
      BY DEF ResizesAll
    <3> QED
      BY <2>1, <2>3, <3>1
  <2> QED
    BY <2>2, <2>3
<1>3. row \in ImageRow /\ row.owner = Template /\ row.target = NoTarget /\ row.hash = h
  BY DEF ImageRow
<1>4. Creating(j, h, row, "whole", c, w(c))
  BY <1>3 DEF Creating, Create
<1> HIDE DEF row, w
<1>5. PICK r \in ImageRow : r = row
  BY <1>3
<1>6. PICK i : i = last + 1 /\ i = j
  OBVIOUS
<1>7. PICK u : u = w(c)
  OBVIOUS
<1>8. /\ r.owner = Template /\ r.target = NoTarget /\ (c = <<>> \/ ResizesAll(i, h, c))
      /\ Creating(i, h, r, "whole", c, u) /\ Begin("user", u) /\ last' = i
  BY <1>1, <1>2, <1>3, <1>4, <1>5, <1>6, <1>7
<1> QED
  BY <1>1, <1>6, <1>8, AddsKeeps

(* The user compresses or removes an image.                                *)
LEMMA CallKeeps ==
  ASSUME IInv, NEW i \in DOMAIN images, NEW op \in {"load", "resize"}, Begin("user", <<On(op, i)>>),
         last' = last
  PROVE  IInv'
<1> DEFINE w == <<On(op, i)>>
<1>1. "user" \in Actor /\ "user" # "inbox" /\ last' \in last .. MaxRows
  BY Numbers DEF IInv
<1>2. Calling(op, i, w) /\ Begin("user", w)
  BY DEF Calling
<1> HIDE DEF w
<1>3. PICK t : Calling(op, i, t) /\ Begin("user", t)
  BY <1>2
<1>4. Piece(t) /\ Sound("user", t)
  BY <1>3, CallSound DEF IInv
<1>5. Grown("user", t)
  BY <1>1, <1>3, <1>4, BegunGrown DEF IInv
<1>6. Announced'
  BY <1>1, <1>4, <1>5, GrownAnnounced DEF IInv
<1> QED
  BY <1>1, <1>4, <1>5, <1>6, GrownKeeps

(* A listing is to be destroyed.                                           *)
LEMMA DestroyListingKeeps ==
  ASSUME IInv, NEW a \in Observers, NEW p \in DOMAIN posts, DestroyListing(a, p)
  PROVE  IInv'
<1> DEFINE w == Calls("load", {i \in DOMAIN images : images[i].owner = p})
                  \o <<[op |-> "unlist", hash |-> "none", post |-> p, target |-> posts[p].hash]>>
<1>1. a \in Actor /\ a # "inbox" /\ last' \in last .. MaxRows /\ last' = last
  <2>1. last' = last
    BY DEF DestroyListing
  <2>2. a \in Actor /\ a # "inbox"
    BY ImagesAssumption DEF Actor
  <2> QED
    BY <2>1, <2>2, Numbers DEF IInv
<1>2. posts[p].hash \in Listing /\ Begin(a, w)
  BY DEF DestroyListing, ForEach, Calls
<1>3. Unlisting(p, w)
  BY DEF Unlisting
<1> HIDE DEF w
<1>4. PICK t : Unlisting(p, t) /\ Begin(a, t)
  BY <1>2, <1>3
<1>5. Piece(t) /\ Sound(a, t)
  BY <1>1, <1>2, <1>4, UnlistingSound DEF IInv
<1>6. Grown(a, t)
  BY <1>1, <1>4, <1>5, BegunGrown DEF IInv
<1>7. Announced'
  BY <1>1, <1>5, <1>6, GrownAnnounced DEF IInv
<1> QED
  BY <1>1, <1>5, <1>6, <1>7, GrownKeeps

(* A market's row goes, and nothing else changes.                          *)
LEMMA DestroyMarketKeeps ==
  ASSUME IInv, NEW p \in DOMAIN posts, DestroyMarket(p)
  PROVE  IInv'
<1>1. /\ posts[p].hash \in Market
      /\ DOMAIN posts' = DOMAIN posts \ {p} /\ \A q \in DOMAIN posts' : posts'[q] = posts[q]
      /\ images' = images /\ datas' = datas /\ files' = files /\ last' = last /\ work' = work
      /\ disturbed' = disturbed /\ crashes' = crashes
  BY DEF DestroyMarket, Without
<1>2. \A a : Ahead(a)' = Ahead(a)
  BY <1>1 DEF Ahead
<1>3. Fewer
  <2>1. \A i \in DOMAIN images : images[i].owner \in Id => images[i].owner # p
    BY <1>1, ImagesAssumption DEF IInv, Announced, Owners
  <2>2. \A i \in DOMAIN images : images[i].owner \in Id => images[i].owner \in DOMAIN posts
    BY DEF IInv, Announced, Owners
  <2> QED
    BY <1>1, <1>2, <2>1, <2>2 DEF Fewer
<1>4. Identity' /\ Announced'
  BY <1>3, FewerIdentity, FewerAnnounced DEF IInv
<1>5. TypeOK'
  BY <1>1 DEF IInv, TypeOK
<1>6. Programs'
  BY <1>1, <1>2 DEF IInv, Programs, Typed
<1>7. OneRow'
  BY <1>1, <1>2 DEF IInv, OneRow
<1>8. Originals'
  BY <1>1, <1>2 DEF IInv, Originals, HasOriginal, AwaitsOriginal
<1>9. Files'
  <2>1. \A h, v : RowsFor(h, v)' = RowsFor(h, v)
    BY <1>1 DEF RowsFor
  <2>2. SameHeads
    BY <1>1 DEF SameHeads, Saving, Deleting, Replacing, AtFile
  <2> QED
    BY <1>1, <2>1, <2>2, FilesQuiet DEF IInv
<1> QED
  BY <1>4, <1>5, <1>6, <1>7, <1>8, <1>9 DEF IInv

(* The node stops.                                                         *)
LEMMA CrashKeeps ==
  ASSUME IInv, Crash
  PROVE  IInv'
<1>1. /\ work' = [a \in Actor |-> <<>>] /\ disturbed' = disturbed \cup UNION {Touches(work[a]) : a \in Actor}
      /\ images' = images /\ datas' = datas /\ files' = files /\ posts' = posts /\ last' = last
  BY DEF Crash, store
<1>2. Cut(Actor) /\ Actor \in SUBSET Actor
  BY <1>1 DEF Cut
<1>3. crashes' \in 0 .. MaxCrashes
  BY ImagesAssumption DEF Crash, IInv, TypeOK
<1> QED
  BY <1>1, <1>2, <1>3, CutKeeps

(* Nothing changes.                                                        *)
LEMMA NothingKeeps ==
  ASSUME IInv, UNCHANGED vars
  PROVE  IInv'
<1>1. /\ images' = images /\ datas' = datas /\ files' = files /\ posts' = posts /\ last' = last
      /\ work' = work /\ disturbed' = disturbed /\ crashes' = crashes
  BY DEF vars, store
<1>2. \A a : Ahead(a)' = Ahead(a)
  BY <1>1 DEF Ahead
<1>3. TypeOK' /\ Programs' /\ OneRow' /\ Originals'
  BY <1>1, <1>2 DEF IInv, TypeOK, Programs, Typed, OneRow, Originals, HasOriginal, AwaitsOriginal
<1>4. Fewer
  <2>1. \A i \in DOMAIN images : images[i].owner \in Id => images[i].owner \in DOMAIN posts
    BY DEF IInv, Announced, Owners
  <2> QED
    BY <1>1, <1>2, <2>1 DEF Fewer
<1>5. Identity' /\ Announced'
  BY <1>4, FewerIdentity, FewerAnnounced DEF IInv
<1>6. Files'
  <2>1. \A h, v : RowsFor(h, v)' = RowsFor(h, v)
    BY <1>1 DEF RowsFor
  <2>2. SameHeads
    BY <1>1 DEF SameHeads, Saving, Deleting, Replacing, AtFile
  <2> QED
    BY <1>1, <2>1, <2>2, FilesQuiet DEF IInv
<1> QED
  BY <1>3, <1>5, <1>6 DEF IInv

(* A step of a program.                                                    *)
LEMMA ProceedKeeps ==
  ASSUME IInv, NEW a \in Actor, Proceed(a)
  PROVE  IInv'
BY WriteKeeps, InsertKeeps, UnlinkKeeps, UpdateKeeps, DeleteKeeps, DropKeeps, UnlistKeeps,
   CreateKeeps, PostKeeps, LinkKeeps, LoadKeeps, RefreshKeeps, ResizeKeeps DEF Proceed

(* Any step of the node.                                                   *)
LEMMA NextKeeps ==
  ASSUME IInv, [Next]_vars
  PROVE  IInv'
<1>1. ASSUME NEW t \in Target, ReceivePost(t) PROVE IInv'
  BY <1>1, ReceivePostKeeps
<1>2. ASSUME NEW t \in Target, NEW data \in Received, NEW h \in Depicts[t], ReceiveImage(h, t, data)
      PROVE  IInv'
  BY <1>2, ReceiveImageKeeps
<1>3. ASSUME NEW h \in Hash, ImageAdd(h) PROVE IInv'
  BY <1>3, ImageAddKeeps
<1>4. ASSUME NEW i \in DOMAIN images, ImageCompress(i) PROVE IInv'
  <2>1. Begin("user", <<On("resize", i)>>) /\ last' = last
    BY <1>4 DEF ImageCompress
  <2> QED
    BY <2>1, CallKeeps
<1>5. ASSUME NEW i \in DOMAIN images, ImageRemove(i) PROVE IInv'
  <2>1. Begin("user", <<On("load", i)>>) /\ last' = last
    BY <1>5 DEF ImageRemove
  <2> QED
    BY <2>1, CallKeeps
<1>6. ASSUME NEW p \in DOMAIN posts, DestroyMarket(p) PROVE IInv'
  BY <1>6, DestroyMarketKeeps
<1>7. ASSUME NEW p \in DOMAIN posts, NEW a \in Observers, DestroyListing(a, p) PROVE IInv'
  BY <1>7, DestroyListingKeeps
<1>8. ASSUME NEW a \in Actor, Proceed(a) PROVE IInv'
  BY <1>8, ProceedKeeps
<1>9. ASSUME Crash PROVE IInv'
  BY <1>9, CrashKeeps
<1>10. ASSUME UNCHANGED vars PROVE IInv'
  BY <1>10, NothingKeeps
<1> QED
  BY <1>1, <1>2, <1>3, <1>4, <1>5, <1>6, <1>7, <1>8, <1>9, <1>10 DEF Next

(* The node starts with nothing, and with nothing to do.                   *)
LEMMA Begins ==
  ASSUME Init
  PROVE  IInv
<1>1. /\ DOMAIN images = {} /\ DOMAIN posts = {} /\ datas = {} /\ last = 0 /\ disturbed = {} /\ crashes = 0
      /\ files = [h \in Hash |-> [v \in ImageVersions |-> "none"]]
      /\ DOMAIN work = Actor /\ \A a \in Actor : work[a] = <<>>
  BY DEF Init
<1>2. /\ \A a \in Actor : Ahead(a) = {} /\ DOMAIN work[a] = {}
      /\ "inbox" \in Actor /\ "user" \in Actor
  BY <1>1 DEF Ahead, Actor
<1>3. TypeOK
  <2>1. 0 \in 0 .. MaxRows /\ 0 \in 0 .. MaxCrashes
    BY ImagesAssumption
  <2> QED
    BY <1>1, <1>2, <2>1 DEF TypeOK
<1>4. Programs
  <2>1. ASSUME NEW a \in Actor PROVE work[a] \in Seq(Ahead(a))
    <3>1. PICK S : S = Ahead(a)
      OBVIOUS
    <3>2. work[a] = <<>> /\ <<>> \in Seq(S)
      BY <1>1
    <3> QED
      BY <3>1, <3>2
  <2>2. \A a \in Actor : Formed(work[a])
    BY <1>2 DEF Formed
  <2> QED
    BY <1>2, <2>1, <2>2 DEF Programs
<1>5. Identity
  BY <1>1, <1>2 DEF Identity, SameHash, NewIds, OwnImages
<1>6. OneRow
  BY <1>1, <1>2, FS_EmptySet DEF OneRow
<1>7. Files
  <2>1. ASSUME NEW h \in Hash, NEW v \in ImageVersions PROVE FileOK(h, v)
    BY <1>1, <1>2 DEF FileOK, Saving, Deleting, AtFile, RowsFor
  <2> QED
    BY <2>1 DEF Files
<1>8. Originals
  BY <1>1 DEF Originals
<1>9. Announced
  <2>1. Targets /\ Linking /\ Early
    BY <1>1, <1>2 DEF Targets, Linking, Early
  <2>2. Owners
    BY <1>1, <1>2 DEF Owners, Claims
  <2> QED
    BY <2>1, <2>2 DEF Announced
<1> QED
  BY <1>3, <1>4, <1>5, <1>6, <1>7, <1>8, <1>9 DEF IInv

-----------------------------------------------------------------------------
(* What the invariant says of a hash that is settled.                      *)

(* No actor is at a file of a settled hash, nor has it an image of that    *)
(* hash still before it.                                                   *)
LEMMA SettledQuiet ==
  ASSUME IInv, NEW h \in Hash, Settled(h), NEW a \in Actor, NEW x \in Ahead(a)
  PROVE  x.op \notin {"post", "unlist"} => x.hash # h
<1>1. PICK k \in DOMAIN work[a] : x = work[a][k]
  BY DEF Ahead
<1>2. x.hash = h => h \in Touches(work[a])
  BY <1>1 DEF Touches
<1> QED
  BY <1>2 DEF Settled, Busy

(* So nobody stands between the rows and the file of a settled hash.       *)
LEMMA SettledFile ==
  ASSUME IInv, NEW h \in Hash, Settled(h), NEW v \in ImageVersions
  PROVE  /\ \A d \in RowsFor(h, v) : d.stored => files[h][v] # "none"
         /\ files[h][v] # "none" => RowsFor(h, v) # {}
<1>1. ASSUME NEW a \in Actor, NEW w PROVE ~ AtFile(a, h, w)
  <2>1. SUFFICES ASSUME AtFile(a, h, w) PROVE FALSE
    OBVIOUS
  <2>2. work[a][1] \in Ahead(a)
    BY <2>1, FirstStep DEF IInv, AtFile
  <2>3. work[a][1].op \notin {"post", "unlist"}
    BY <2>1 DEF AtFile, OfFile
  <2> QED
    BY <2>1, <2>2, <2>3, SettledQuiet DEF AtFile
<1>2. FileOK(h, v)
  BY DEF IInv, Files, Settled
<1> QED
  BY <1>1, <1>2 DEF FileOK, Saving, Replacing

(* What EarlyImagesShown says of the images that came before a post.       *)
LEMMA EarlyShown ==
  ASSUME IInv, NEW p \in DOMAIN posts, NEW i \in DOMAIN images, images[i].target = posts[p].hash,
         i < p, Newest(p), work["inbox"] = <<>>, Settled(images[i].hash)
  PROVE  i \in Shown(p) /\ HasOriginal(i)
<1>1. /\ images[i].hash \in Hash /\ images[i].hash \notin disturbed /\ i \in Id /\ p \in Id
      /\ posts[p].hash \in Target /\ posts[p].hash # NoTarget /\ Id \subseteq Nat
  BY Numbers, ImagesAssumption DEF IInv, Settled, ImageRow
<1>2. Linked(i, p)
  BY <1>1 DEF IInv, Announced, Early, WithTarget
<1>3. i \in Shown(p)
  <2>1. Ahead("inbox") = {}
    BY DEF Ahead
  <2>2. CASE /\ images[i].owner \in DOMAIN posts /\ images[i].owner >= p
             /\ posts[images[i].owner].hash = posts[p].hash
    <3>1. images[i].owner <= p /\ images[i].owner \in Nat /\ p \in Nat
      BY <2>2, Numbers DEF Newest, IInv
    <3>2. images[i].owner = p
      BY <2>2, <3>1
    <3> QED
      BY <3>2 DEF Shown
  <2>3. CASE posts[p].image = i
    BY <2>3 DEF Shown
  <2> QED
    BY <1>2, <2>1, <2>2, <2>3 DEF Linked
<1>4. HasOriginal(i)
  <2>1. HasOriginal(i) \/ AwaitsOriginal(i)
    BY <1>1 DEF IInv, Originals
  <2>2. ASSUME NEW a \in Actor, NEW x \in Ahead(a), Brings(x, i) \/ Drops(x, i) PROVE FALSE
    <3>1. x.op \in {"insert", "drop"} /\ x.image = i
      BY <2>2 DEF Brings, Drops
    <3>2. x.hash = images[i].hash
      BY <3>1 DEF IInv, Identity, SameHash, OfImage
    <3> QED
      BY <1>1, <3>1, <3>2, SettledQuiet
  <2> QED
    BY <2>1, <2>2 DEF AwaitsOriginal
<1> QED
  BY <1>3, <1>4

(* And of the images that a post has: no two of them have the same hash.   *)
LEMMA ShownOnce ==
  ASSUME IInv, NEW p \in DOMAIN posts, NEW i \in Shown(p), NEW j \in Shown(p), i # j
  PROVE  images[i].hash # images[j].hash
<1>1. /\ i \in DOMAIN images /\ j \in DOMAIN images /\ i \in Id /\ j \in Id /\ p \in Id /\ 0 \notin Id
      /\ images[i].hash \in Hash
  BY Numbers DEF IInv, Shown, ImageRow
<1>2. images[i].owner = p /\ images[j].owner = p
  <2>1. images[i].owner = p \/ posts[p].image = i
    BY DEF Shown
  <2>2. images[j].owner = p \/ posts[p].image = j
    BY DEF Shown
  <2>3. images[i].owner = p \/ images[j].owner = p => posts[p].image = 0
    BY <1>1 DEF IInv, Announced, Owners, NoImage
  <2> QED
    BY <1>1, <2>1, <2>2, <2>3
<1>3. SUFFICES ASSUME images[i].hash = images[j].hash PROVE FALSE
  OBVIOUS
<1>4. Claims(p, i, images[i].hash) /\ Claims(p, j, images[i].hash)
  BY <1>1, <1>2, <1>3 DEF Claims
<1> QED
  BY <1>1, <1>4 DEF IInv, Announced, Owners

-----------------------------------------------------------------------------
(* The inductive invariant: the programs of the actors are well formed and *)
(* theirs to run, ids and hashes are nobody else's, an image has one row   *)
(* for a version, and of every hash that is not disturbed the rows, the    *)
(* files, the originals and the links agree.                               *)
THEOREM Invariance == Spec => []IInv
<1>1. Init => IInv
  BY Begins
<1>2. IInv /\ [Next]_vars => IInv'
  BY NextKeeps
<1> QED
  BY <1>1, <1>2, PTL DEF Spec

(* The state has its types, the rows of image_datas are of images that are *)
(* there, and an id belongs to an image or to a post, never to both.       *)
THEOREM TypeCorrect == Spec => []TypeOK
<1>1. IInv => TypeOK
  BY DEF IInv
<1> QED
  BY <1>1, Invariance, PTL

(* For every number of images, listings, markets and actors: a row of      *)
(* image_datas finds its file, however the images that share it came and   *)
(* went, unless a step has disturbed the hash or is still at it.           *)
THEOREM Readable == Spec => []DataReadable
<1>1. IInv => DataReadable
  <2> SUFFICES ASSUME IInv, NEW d \in datas, d.stored, Settled(images[d.image].hash)
               PROVE  files[images[d.image].hash][d.version] # "none"
    BY DEF DataReadable
  <2>1. d.version \in ImageVersions /\ images[d.image].hash \in Hash
    BY DEF IInv, TypeOK, ImageData, ImageRow
  <2>2. d \in RowsFor(images[d.image].hash, d.version)
    BY DEF RowsFor
  <2> QED
    BY <2>1, <2>2, SettledFile
<1> QED
  BY <1>1, Invariance, PTL

(* A file goes with the last row that names it: what removeImageFile()     *)
(* counts is what decides it, for every interleaving of the steps.         *)
THEOREM NothingLeft == Spec => []NoFileLeft
<1>1. IInv => NoFileLeft
  BY SettledFile DEF NoFileLeft
<1> QED
  BY <1>1, Invariance, PTL

(* The images that came before their listing or market are in it, with     *)
(* their data, and a post shows no image twice.                            *)
THEOREM EarlyImages == Spec => []EarlyImagesShown
<1>1. IInv => EarlyImagesShown
  <2> SUFFICES ASSUME IInv PROVE EarlyImagesShown
    OBVIOUS
  <2>1. ASSUME NEW p \in DOMAIN posts, NEW i \in DOMAIN images, images[i].target = posts[p].hash,
               i < p, Newest(p), work["inbox"] = <<>>, Settled(images[i].hash)
        PROVE  /\ i \in Shown(p)
               /\ \E d \in datas : d.image = i /\ d.version = "ORIGINAL" /\ d.stored
    BY <2>1, EarlyShown DEF HasOriginal
  <2>2. \A p \in DOMAIN posts : \A i, j \in Shown(p) : i # j => images[i].hash # images[j].hash
    BY ShownOnce
  <2> QED
    BY <2>1, <2>2 DEF EarlyImagesShown
<1> QED
  BY <1>1, Invariance, PTL
=============================================================================
