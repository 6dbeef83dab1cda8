-------------------------------- MODULE Images --------------------------------
(***************************************************************************)
(* The images of one node: rows of images and image_datas, and the files   *)
(* they share.  A file is named after the hash of the image and the        *)
(* version, so images with the same hash use the same files, and a file    *)
(* goes with the last row that names it.  Listings, markets and their      *)
(* images come as messages of their own, in any order; a listing and the   *)
(* images that came before it are joined by the listing's hash.  Messages  *)
(* are processed one at a time, the user's commands and the observers run  *)
(* beside them.  Every operation is a program of steps; between two steps, *)
(* which are the awaits of the code, the others may take theirs.           *)
(***************************************************************************)
EXTENDS Naturals, Sequences, FiniteSets, SequencesExt

CONSTANTS
  Hash,        \* hashes of images
  Listing,     \* hashes of listings that get posted
  Market,      \* hashes of markets that get promoted
  Depicts,     \* Depicts[t]: the hashes in the message of listing or market t;
               \* a market's message has one image at most
  Scaled,      \* the versions made from ORIGINAL: LARGE, MEDIUM, THUMBNAIL
  Received,    \* the data a message brings: "whole", or "small" when resized
  Observers,   \* the tasks that destroy listings
  MaxRows,     \* bound: how many images, listings and markets get a row
  MaxCrashes   \* bound: how often the node stops

Target == Listing \cup Market
NoTarget == "none"

ASSUME ImagesAssumption ==
  /\ Listing \cap Market = {}
  /\ NoTarget \notin Target /\ IsFiniteSet(Scaled)
  /\ Depicts \in [Target -> SUBSET Hash] /\ \A t \in Target : IsFiniteSet(Depicts[t])
  /\ \A t \in Market : \A g, h \in Depicts[t] : g = h
  /\ {"ORIGINAL", "RESIZED"} \cap Scaled = {}
  /\ Received \subseteq {"whole", "small"}
  /\ {"inbox", "user"} \cap Observers = {}
  /\ MaxRows \in Nat /\ MaxCrashes \in Nat

ImageVersions == {"ORIGINAL", "RESIZED"} \cup Scaled
Actor == {"inbox", "user"} \cup Observers
Id == 1 .. MaxRows
Template == 0  \* the owner of the images of the user's template
Nobody == MaxRows + 1
NoImage == 0

VARIABLES
  images,    \* images[i]: hash, target and owner of the image with id i
  datas,     \* the rows of image_datas
  files,     \* files[h][v]: what the file of hash h and version v holds
  posts,     \* posts[p]: the hash of the listing or market with id p, and,
             \* of a market, its image
  last,      \* the last id given to an image, a listing or a market
  work,      \* work[a]: the steps that actor a has still to take
  disturbed, \* hashes whose rows and files some step has left at odds
  crashes

store == <<images, datas, files, posts>>
vars == <<store, last, work, disturbed, crashes>>

ImageRow ==
  [hash : Hash, target : Target \cup {NoTarget}, owner : Id \cup {Template, Nobody}]
ImageData == [image : Id, version : ImageVersions, stored : BOOLEAN]
Operation == {"create", "write", "insert", "update", "unlink", "delete", "load", "drop",
              "refresh", "resize", "post", "link", "unlist"}

TypeOK ==
  /\ DOMAIN images \subseteq 1 .. last
  /\ \A i \in DOMAIN images : images[i] \in ImageRow
  /\ datas \subseteq ImageData /\ \A d \in datas : d.image \in DOMAIN images
  /\ files \in [Hash -> [ImageVersions -> {"none", "whole", "small"}]]
  /\ DOMAIN posts \subseteq (1 .. last) \ DOMAIN images
  /\ \A p \in DOMAIN posts : posts[p] \in [hash : Target, image : Id \cup {NoImage}]
  /\ last \in 0 .. MaxRows
  /\ DOMAIN work = Actor
  /\ \A a \in Actor : \A n \in DOMAIN work[a] : work[a][n].op \in Operation
  /\ disturbed \subseteq Hash /\ crashes \in 0 .. MaxCrashes

Init ==
  /\ images = <<>> /\ datas = {} /\ posts = <<>> /\ last = 0
  /\ files = [h \in Hash |-> [v \in ImageVersions |-> "none"]]
  /\ work = [a \in Actor |-> <<>>]
  /\ disturbed = {} /\ crashes = 0

-----------------------------------------------------------------------------
(* Programs.                                                               *)

(* The rows that a query finds, by id.                                     *)
InOrder(ids) ==
  CHOOSE s \in [1 .. Cardinality(ids) -> ids] : \A m, n \in DOMAIN s : m < n => s[m] < s[n]
ForEach(seq, Steps(_)) == FlattenSeq([n \in DOMAIN seq |-> Steps(seq[n])])

On(op, i) == [op |-> op, image |-> i, hash |-> images[i].hash]
OnData(op, i, h, v) == [op |-> op, image |-> i, hash |-> h, version |-> v]
Create(i, h, t, o) ==
  [op |-> "create", image |-> i, row |-> [hash |-> h, target |-> t, owner |-> o], hash |-> h]
Insert(i, h, v, isStored) ==
  [op |-> "insert", image |-> i, hash |-> h, version |-> v, stored |-> isStored]

(* ImageDataService.create(): the file is written, then the row inserted.  *)
Save(i, h, v, data) ==
  <<[op |-> "write", hash |-> h, version |-> v, data |-> data], Insert(i, h, v, TRUE)>>

(* createVersions() makes the other versions from the original data.       *)
SaveAll(i, h, data) ==
  Save(i, h, "ORIGINAL", data)
    \o ForEach(SetToSeq(Scaled), LAMBDA v : Save(i, h, v, data))

(* ImageDataService.destroy(): the file goes first, the row after it.      *)
Discard(i, v) ==
  <<OnData("unlink", i, images[i].hash, v), OnData("delete", i, images[i].hash, v)>>
VersionsOf(i) == {d.version : d \in {e \in datas : e.image = i}}
DiscardAll(i) == ForEach(SetToSeq(VersionsOf(i)), LAMBDA v : Discard(i, v))

Touches(steps) ==
  ({steps[n].hash : n \in DOMAIN steps} \cap Hash)
    \cup UNION {Depicts[steps[n].target] : n \in {k \in DOMAIN steps : steps[k].op = "unlist"}}

(* An actor that is idle begins a program.                                 *)
Begin(a, steps) ==
  /\ work[a] = <<>> /\ steps # <<>>
  /\ work' = [work EXCEPT ![a] = steps]
  /\ UNCHANGED <<store, disturbed, crashes>>

-----------------------------------------------------------------------------
(* Messages.                                                               *)

WithTarget(t) == {i \in DOMAIN images : images[i].target = t}

(* What a message announces and no image message has brought yet; a market *)
(* with any image of its own gets no other.                                *)
Missing(t) ==
  IF t \in Market THEN {h \in Depicts[t] : WithTarget(t) = {}}
  ELSE Depicts[t] \ {images[i].hash : i \in WithTarget(t)}

Link(i, h, p) == [op |-> "link", image |-> i, hash |-> h, post |-> p]

(* A row for an image whose data comes later; the message that announces   *)
(* it does not name its own hash as the target.  A listing's image refers  *)
(* to the listing, a market refers to its image.                           *)
Placeholder(i, h, p, t) ==
  IF t \in Listing
  THEN <<Create(i, h, NoTarget, p), Insert(i, h, "ORIGINAL", FALSE)>>
  ELSE <<Create(i, h, NoTarget, Nobody), Insert(i, h, "ORIGINAL", FALSE), Link(i, h, p)>>

(* Mutant: the images that came first are not linked.                      *)
LinksNone(p, t) == <<>>

Links(p, t) ==
  ForEach(InOrder(WithTarget(t)), LAMBDA i : <<Link(i, images[i].hash, p)>>)

(* processMessage() of MPA_LISTING_ADD and of MPA_MARKET_ADD.              *)
ReceivePost(t) ==
  LET p == last + 1
      missing == SetToSeq(Missing(t))
      placeholders == [n \in DOMAIN missing |-> Placeholder(p + n, missing[n], p, t)]
  IN /\ p + Len(missing) <= MaxRows
     /\ last' = p + Len(missing)
     /\ Begin("inbox", <<[op |-> "post", hash |-> "none", post |-> p, target |-> t]>>
                         \o FlattenSeq(placeholders) \o Links(p, t))

(* processMessage() of MPA_LISTING_IMAGE_ADD and of MPA_MARKET_IMAGE_ADD:  *)
(* the images with the hash and the target are refreshed, and if there is  *)
(* none one is created that belongs to nobody yet.                         *)
ReceiveImage(h, t, data) ==
  LET known == {i \in WithTarget(t) : images[i].hash = h}
      Refresh(i) == <<[op |-> "refresh", image |-> i, hash |-> h, data |-> data]>>
  IN \/ /\ known # {}
        /\ Begin("inbox", ForEach(InOrder(known), Refresh))
        /\ UNCHANGED last
     \/ /\ known = {} /\ last < MaxRows /\ last' = last + 1
        /\ Begin("inbox", <<Create(last + 1, h, t, Nobody)>> \o SaveAll(last + 1, h, data))

-----------------------------------------------------------------------------
(* Commands and observers.                                                 *)

OfTemplate == {i \in DOMAIN images : images[i].owner = Template}

(* ImageAddCommand; it may resize all images of the template.              *)
ImageAdd(h) ==
  /\ last < MaxRows /\ last' = last + 1
  /\ \E skipResize \in BOOLEAN :
       Begin("user", <<Create(last + 1, h, NoTarget, Template)>> \o SaveAll(last + 1, h, "whole")
         \o IF skipResize THEN <<>>
            ELSE ForEach(InOrder(OfTemplate), LAMBDA i : <<On("resize", i)>>)
                   \o <<[op |-> "resize", image |-> last + 1, hash |-> h]>>)

(* ImageCompressCommand takes any image whose original can be read.        *)
ImageCompress(i) ==
  /\ "ORIGINAL" \in VersionsOf(i) /\ files[images[i].hash]["ORIGINAL"] # "none"
  /\ Begin("user", <<On("resize", i)>>)
  /\ UNCHANGED last

ImageRemove(i) ==
  /\ i \in OfTemplate
  /\ Begin("user", <<On("load", i)>>)
  /\ UNCHANGED last

(* ListingItemService.destroy(), of a listing that is over or voted off.   *)
DestroyListing(a, p) ==
  /\ posts[p].hash \in Listing
  /\ Begin(a, ForEach(InOrder({i \in DOMAIN images : images[i].owner = p}),
                      LAMBDA i : <<On("load", i)>>)
                \o <<[op |-> "unlist", hash |-> "none", post |-> p, target |-> posts[p].hash]>>)
  /\ UNCHANGED last

Without(f, gone) == [x \in DOMAIN f \ gone |-> f[x]]

(* MarketService.destroy() deletes the row and nothing else.               *)
DestroyMarket(p) ==
  /\ posts[p].hash \in Market
  /\ posts' = Without(posts, {p})
  /\ UNCHANGED <<images, datas, files, last, work, disturbed, crashes>>

-----------------------------------------------------------------------------
(* Steps.  A step that throws ends its program.                            *)

Running(a, op) == work[a] # <<>> /\ Head(work[a]).op = op
Replace(a, steps) ==
  work' = [work EXCEPT ![a] = steps \o Tail(@)] /\ UNCHANGED disturbed
Done(a) == Replace(a, <<>>)
Threw(a) ==
  work' = [work EXCEPT ![a] = <<>>] /\ disturbed' = disturbed \cup Touches(work[a])
(* What the step of a works on is there, or it throws.                     *)
Finds(a, there) == IF there THEN Done(a) ELSE Threw(a)

CreateImage(a) ==
  LET s == Head(work[a])
      fits == s.row.owner \in DOMAIN posts \cup {Template, Nobody}
  IN /\ Running(a, "create") /\ Finds(a, fits)
     /\ images' = IF fits THEN [i \in DOMAIN images \cup {s.image} |->
                                  IF i = s.image THEN s.row ELSE images[i]] ELSE images
     /\ UNCHANGED <<datas, files, posts>>

saveImageFile(a) ==
  LET s == Head(work[a])
  IN /\ Running(a, "write") /\ Done(a)
     /\ files' = [files EXCEPT ![s.hash][s.version] = s.data]
     /\ UNCHANGED <<images, datas, posts>>

HasRow(s) == \E d \in datas : d.image = s.image /\ d.version = s.version
RowsFor(h, v) == {d \in datas : images[d.image].hash = h /\ d.version = v}

(* Another actor is at one of these operations on the same file.           *)
Meets(a, s, ops) ==
  \E b \in Actor \ {a} :
    /\ \E op \in ops : Running(b, op)
    /\ Head(work[b]).hash = s.hash /\ Head(work[b]).version = s.version

(* Mutant: the image of the row is not looked for.                         *)
InsertDataUnchecked(a) ==
  LET s == Head(work[a])
  IN /\ Running(a, "insert") /\ Done(a)
     /\ datas' = datas \cup {[image |-> s.image, version |-> s.version, stored |-> s.stored]}
     /\ UNCHANGED <<images, files, posts>>

(* The foreign key of image_datas: an image that is gone gets no data.     *)
InsertData(a) ==
  LET s == Head(work[a])
  IN /\ Running(a, "insert") /\ Finds(a, s.image \in DOMAIN images)
     /\ datas' = datas \cup {d \in {[image |-> s.image, version |-> s.version, stored |-> s.stored]} :
                               s.image \in DOMAIN images}
     /\ UNCHANGED <<images, files, posts>>

(* Mutant: the row that is still there is taken for gone.                  *)
RemovableNone(h, v) == Cardinality(RowsFor(h, v)) = 0

(* Mutant: a file is removed though other images use it.                   *)
RemovableAlways(h, v) == TRUE

(* removeImageFile(): "only remove the file if there is just this one".    *)
Removable(h, v) == Cardinality(RowsFor(h, v)) = 1

(* The hash is disturbed when another actor has written the file and has   *)
(* not inserted the row yet, or has counted and not deleted its own row.   *)
removeImageFile(a) ==
  LET s == Head(work[a])
  IN /\ Running(a, "unlink")
     /\ \/ ~ HasRow(s) /\ Threw(a) /\ UNCHANGED files
        \/ /\ HasRow(s)
           /\ work' = [work EXCEPT ![a] = Tail(@)]
           /\ disturbed' = disturbed
                \cup {h \in {s.hash} : Meets(a, s, {"insert", "update", "delete"})}
           /\ files' = IF Removable(s.hash, s.version)
                       THEN [files EXCEPT ![s.hash][s.version] = "none"] ELSE files
     /\ UNCHANGED <<images, datas, posts>>

(* The file of a row that is about to be deleted is written again.         *)
UpdateData(a) ==
  LET s == Head(work[a])
  IN /\ Running(a, "update")
     /\ \/ ~ HasRow(s) /\ Threw(a)
        \/ /\ HasRow(s)
           /\ work' = [work EXCEPT ![a] = Tail(@)]
           /\ disturbed' = disturbed \cup {h \in {s.hash} : Meets(a, s, {"delete"})}
     /\ UNCHANGED store

DeleteData(a) ==
  LET s == Head(work[a])
  IN /\ Running(a, "delete") /\ Finds(a, HasRow(s))
     /\ datas' = {d \in datas : ~ (d.image = s.image /\ d.version = s.version)}
     /\ UNCHANGED <<images, files, posts>>

(* ImageService.destroy() loads the image and what it has to destroy.      *)
LoadImage(a) ==
  LET i == Head(work[a]).image
  IN /\ Running(a, "load")
     /\ IF i \in DOMAIN images THEN Replace(a, DiscardAll(i) \o <<On("drop", i)>>) ELSE Threw(a)
     /\ UNCHANGED store

(* The rows of images take the rows of image_datas with them that have     *)
(* come since they were loaded, without a look at their files.             *)
Cascade(a, gone) ==
  /\ images' = Without(images, gone)
  /\ datas' = {d \in datas : d.image \notin gone}
  /\ work' = [work EXCEPT ![a] = Tail(@)]
  /\ disturbed' = disturbed \cup {images[d.image].hash : d \in {e \in datas : e.image \in gone}}

DropImage(a) ==
  LET i == Head(work[a]).image
  IN /\ Running(a, "drop")
     /\ \/ i \in DOMAIN images /\ Cascade(a, {i})
        \/ i \notin DOMAIN images /\ Threw(a) /\ UNCHANGED <<images, datas>>
     /\ UNCHANGED <<files, posts>>

(* ImageService.update(): the old datas are destroyed, new ones created.   *)
RefreshImage(a) ==
  LET s == Head(work[a])
  IN /\ Running(a, "refresh")
     /\ IF s.image \in DOMAIN images
        THEN Replace(a, DiscardAll(s.image) \o SaveAll(s.image, s.hash, s.data)) ELSE Threw(a)
     /\ UNCHANGED store

(* createResizedVersion() needs the row and the file of the original; when *)
(* there is a RESIZED version, ImageDataService.update() replaces its file. *)
Resized(i) ==
  LET h == images[i].hash
      created == Save(i, h, "RESIZED", "small")
  IN IF "RESIZED" \in VersionsOf(i)
     THEN <<OnData("unlink", i, h, "RESIZED"), Head(created), OnData("update", i, h, "RESIZED")>>
     ELSE created

createResizedVersion(a) ==
  LET i == Head(work[a]).image
  IN /\ Running(a, "resize")
     /\ IF i \notin DOMAIN images \/ "ORIGINAL" \notin VersionsOf(i) THEN Threw(a)
        ELSE \/ files[images[i].hash]["ORIGINAL"] = "whole" /\ Replace(a, Resized(i))
             \/ files[images[i].hash]["ORIGINAL"] # "whole" /\ Done(a)
     /\ UNCHANGED store

CreatePost(a) ==
  LET s == Head(work[a])
  IN /\ Running(a, "post") /\ Done(a)
     /\ posts' = [p \in DOMAIN posts \cup {s.post} |->
                    IF p = s.post THEN [hash |-> s.target, image |-> NoImage] ELSE posts[p]]
     /\ UNCHANGED <<images, datas, files>>

(* updateItemInformation(), setImage(): an image may be of an older listing. *)
LinkImage(a) ==
  LET s == Head(work[a])
      there == s.image \in DOMAIN images /\ s.post \in DOMAIN posts
      ofListing == there /\ posts[s.post].hash \in Listing
  IN /\ Running(a, "link") /\ Finds(a, there)
     /\ images' = IF ofListing THEN [images EXCEPT ![s.image].owner = s.post] ELSE images
     /\ posts' = IF there /\ ~ ofListing THEN [posts EXCEPT ![s.post].image = s.image] ELSE posts
     /\ UNCHANGED <<datas, files>>

(* listingItemRepo.destroy(), also of images linked since it was loaded.   *)
UnlistListing(a) ==
  LET p == Head(work[a]).post
  IN /\ Running(a, "unlist")
     /\ \/ p \in DOMAIN posts /\ Cascade(a, {i \in DOMAIN images : images[i].owner = p})
        \/ p \notin DOMAIN posts /\ Threw(a) /\ UNCHANGED <<images, datas>>
     /\ posts' = Without(posts, {p})
     /\ UNCHANGED files

Proceed(a) ==
  /\ \/ CreateImage(a) \/ saveImageFile(a) \/ InsertData(a) \/ removeImageFile(a) \/ UpdateData(a)
     \/ DeleteData(a) \/ LoadImage(a) \/ DropImage(a) \/ RefreshImage(a)
     \/ createResizedVersion(a) \/ CreatePost(a) \/ LinkImage(a) \/ UnlistListing(a)
  /\ UNCHANGED <<last, crashes>>

(* The process stops; what it was at is not taken up again.                *)
Crash ==
  /\ \E a \in Actor : work[a] # <<>>
  /\ crashes < MaxCrashes /\ crashes' = crashes + 1
  /\ disturbed' = disturbed \cup UNION {Touches(work[a]) : a \in Actor}
  /\ work' = [a \in Actor |-> <<>>]
  /\ UNCHANGED <<store, last>>

Next ==
  \/ \E t \in Target : ReceivePost(t)
  \/ \E t \in Target, data \in Received : \E h \in Depicts[t] : ReceiveImage(h, t, data)
  \/ \E h \in Hash : ImageAdd(h)
  \/ \E i \in DOMAIN images : ImageCompress(i) \/ ImageRemove(i)
  \/ \E p \in DOMAIN posts : DestroyMarket(p) \/ \E a \in Observers : DestroyListing(a, p)
  \/ \E a \in Actor : Proceed(a)
  \/ Crash

Spec == Init /\ [][Next]_vars

-----------------------------------------------------------------------------
Busy == UNION {Touches(work[a]) : a \in Actor}
Settled(h) == h \notin Busy /\ h \notin disturbed

(* Nothing is claimed of a disturbed hash; when all are, TLC may stop.     *)
SomeUndisturbed == disturbed # Hash

(* A row of image_datas that names a file finds it on the disk, however    *)
(* many images share it and whichever of them went: removeImageFile()      *)
(* counts rows, and rows whose data has not come yet count too.            *)
DataReadable ==
  \A d \in datas :
    d.stored /\ Settled(images[d.image].hash) => files[images[d.image].hash][d.version] # "none"

(* No file is left behind when the last row that names it is gone.         *)
NoFileLeft ==
  \A h \in Hash, v \in ImageVersions :
    Settled(h) /\ files[h][v] # "none" => RowsFor(h, v) # {}

Newest(p) == \A q \in DOMAIN posts : posts[q].hash = posts[p].hash => q <= p
Shown(p) == {i \in DOMAIN images : images[i].owner = p \/ posts[p].image = i}

(* Images that came before a listing are in it, with their data, even when *)
(* an older listing with the same hash had them: no image is forgotten,    *)
(* and none is shown twice for its having come before.                     *)
EarlyImagesShown ==
  \A p \in DOMAIN posts :
    /\ \A i \in DOMAIN images :
         /\ images[i].target = posts[p].hash /\ i < p /\ Newest(p)
         /\ work["inbox"] = <<>> /\ Settled(images[i].hash)
         => /\ i \in Shown(p)
            /\ \E d \in datas : d.image = i /\ d.version = "ORIGINAL" /\ d.stored
    /\ \A i, j \in Shown(p) : i # j => images[i].hash # images[j].hash
=============================================================================
