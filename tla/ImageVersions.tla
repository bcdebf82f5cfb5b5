--------------------------- MODULE ImageVersions ---------------------------
(***************************************************************************)
(* ImageController and ImageStore over the two Couchbase buckets: getImage *)
(* (ImageGetter), getImagesData (Base64Images, SpriteMaker) and newImage   *)
(* (ImageUpload), each on a thread of its own (THREAD_PER_CONNECTION).     *)
(*                                                                         *)
(* The meta bucket has a document per image that lists its versions; the   *)
(* data bucket has a blob per version, under a key made of the image, the  *)
(* box and the type.  No step covers two documents and nothing is compared *)
(* and swapped.  A bucket operation is one step here, at the moment it     *)
(* takes effect; a write that failed may take effect later (stray): this   *)
(* is what DocumentStore promises and CouchbaseWorker implements.          *)
(***************************************************************************)
EXTENDS Naturals, SequencesExt, TLC

CONSTANTS
    Clients,        \* request threads
    Images,         \* image keys
    Boxes, Types,   \* <<width, height>> pairs and file extensions
    OriginalBox,    \* the box of every uploaded image
    OriginalType,   \* the type each image is uploaded in
    AnyType,        \* the empty extension, which asks for the type of the original
    Gets,           \* the descriptors asked of getImage
    Batches,        \* the descriptor sequences asked of getImagesData
    EmptyKey,       \* the empty string as a key
    Nil             \* no document

Descriptors == [image : Images, box : Boxes, type : Types \cup {AnyType},
                save : BOOLEAN, original : BOOLEAN]

(* An empty batch is left out: it reads and writes nothing.  The empty extension
   is a type like the others: that of an image uploaded under a file name without
   one (ImageStore.cpp:40-42), and then of the versions made of it.             *)
ASSUME AskAssumption ==
    /\ OriginalBox \in Boxes /\ OriginalType \in [Images -> Types]
    /\ Gets \subseteq Descriptors
    /\ Batches \subseteq Seq(Descriptors) \ {<<>>}

VARIABLES
    meta,      \* image -> its list of versions, or Nil
    data,      \* blob key -> the picture stored there, or Nil
    stray,     \* writes nobody waits for that may still reach a server
    request    \* each thread's request

vars == <<meta, data, stray, request>>

Keys == Images \X Boxes \X Types
BlobKeys == Keys \cup {EmptyKey}

(* A picture: what it shows, its box and type, and whether it is the upload. *)
Picture(i, box, type, original) ==
    [image |-> i, box |-> box, type |-> type, original |-> original]

Pictures == [image : Images, box : Boxes, type : Types, original : BOOLEAN]

(* Faulty variant: the key leaves the type out. *)
Version_KeyWithoutType(i, box, type, original) ==
    [key |-> <<i, box, OriginalType[i]>>, box |-> box, type |-> type, original |-> original]

(* Image::addVersion names a version after its image, box and type. *)
Version(i, box, type, original) ==
    [key |-> <<i, box, type>>, box |-> box, type |-> type, original |-> original]

Versions == [key : BlobKeys, box : Boxes, type : Types, original : BOOLEAN]

Wants == [type : Types, exact : BOOLEAN, source : Versions]

Upload(i)  == Picture(i, OriginalBox, OriginalType[i], TRUE)
Primary(i) == Version(i, OriginalBox, OriginalType[i], TRUE)

(* aspectFit of a picture. *)
Fit(picture, box, type) == Picture(picture.image, box, type, FALSE)

(* Model values lie in no set of records or tuples; said for the proofs. *)
ASSUME KeyAssumption ==
    /\ EmptyKey \notin Keys \cup Images
    /\ Nil \notin Pictures \cup Wants \cup Seq(Versions)

NoImages == [i \in Images |-> Nil]
NoBlobs  == [k \in BlobKeys |-> Nil]

(* A request: its copies of the documents, the map of VersionRequests, the
   blobs read, the descriptor the loop is at, the blobs to save (fresh), the
   documents to save (changed), and what it answers.                        *)
Begun(kind, asks) ==
    [stage |-> "find", kind |-> kind, asks |-> asks, todo |-> {d.image : d \in Range(asks)},
     images |-> NoImages, wanted |-> NoImages, blobs |-> NoBlobs, next |-> 1,
     fresh |-> NoBlobs, changed |-> {}, answer |-> NoImages]

Idle == [Begun("none", <<>>) EXCEPT !.stage = "idle"]

-----------------------------------------------------------------------------
(* VersionRequest, and the same search in getImage: the version to read for
   a descriptor, the type to answer in, and whether it is read as it is.    *)

(* Faulty variant: an exact match is never looked for. *)
VersionRequest_NoExact(versions, d) ==
    LET primary == versions[SelectInSeq(versions, LAMBDA v : v.original)]
    IN  [type |-> IF d.type = AnyType THEN primary.type ELSE d.type,
         exact |-> d.original, source |-> primary]

VersionRequest(versions, d) ==
    LET primary == versions[SelectInSeq(versions, LAMBDA v : v.original)]
        type    == IF d.type = AnyType THEN primary.type ELSE d.type
        n       == SelectInSeq(versions, LAMBDA v : v.box = d.box /\ v.type = type)
    IN  IF ~d.original /\ n # 0
          THEN [type |-> type, exact |-> TRUE, source |-> versions[n]]
          ELSE [type |-> type, exact |-> d.original, source |-> primary]

(* The map of VersionRequests is keyed by image: emplace keeps the request
   made for the first descriptor of an image and drops the others.          *)
Wanted(r) ==
    [i \in Images |->
       IF \A d \in Range(r.asks) : d.image # i THEN Nil
       ELSE VersionRequest(r.images[i], r.asks[SelectInSeq(r.asks, LAMBDA d : d.image = i)])]

-----------------------------------------------------------------------------
(* What a request has yet to see written in the stage it is in. *)
Pending(c) ==
    IF request[c].stage \notin {"data", "meta"} THEN {}
    ELSE {<<request[c].stage, k, IF request[c].stage = "data" THEN request[c].fresh[k]
                                                               ELSE request[c].images[k]>> :
             k \in request[c].todo}

(* The effect of a write on the buckets. *)
Written(w) ==
    IF w[1] = "data" THEN /\ data' = [data EXCEPT ![w[2]] = w[3]]
                          /\ UNCHANGED meta
                     ELSE /\ meta' = [meta EXCEPT ![w[2]] = w[3]]
                          /\ UNCHANGED data

(* Faulty variant: the document is written before the blob it lists. *)
SaveOrder_MetaFirst == <<"meta", "data">>

SaveOrder == <<"data", "meta">>

(* A request enters a stage of its save, and leaves it when nothing is left. *)
Saving(r, stage) ==
    [r EXCEPT !.stage = stage,
              !.todo = IF stage = "data" THEN {k \in BlobKeys : r.fresh[k] # Nil} ELSE r.changed]

Answered(r) ==
    [Begun(r.kind, r.asks) EXCEPT !.stage = "answered", !.todo = {}, !.answer = r.answer]

Saved(r, key) ==
    LET left == [r EXCEPT !.todo = @ \ {key}]
    IN  IF left.todo # {} THEN left
        ELSE IF r.stage = SaveOrder[1] THEN Saving(left, SaveOrder[2])
        ELSE Answered(left)

(* The handler's catch block: an error is answered and the request is over. *)
Refuse(c) == request' = [request EXCEPT ![c] = Idle]

(* The process ends and is started again: requests are lost, the writes they
   had submitted may still be on their way.                                 *)
Restart ==
    /\ request' = [c \in Clients |-> Idle]
    /\ stray' = stray \cup {w \in UNION {Pending(c) : c \in Clients} : w[2] # EmptyKey}
    /\ UNCHANGED <<meta, data>>

-----------------------------------------------------------------------------
(* Some images are stored with their original, as an upload means to leave
   them.                                                                    *)
Init ==
    /\ \E S \in SUBSET Images :
         /\ meta = [i \in Images |-> IF i \in S THEN <<Primary(i)>> ELSE Nil]
         /\ data = [k \in Keys |-> IF k[1] \in S /\ k = Primary(k[1]).key
                                     THEN Upload(k[1]) ELSE Nil]
    /\ stray = {}
    /\ request = [c \in Clients |-> Idle]

Begin(c, kind, asks) ==
    /\ request[c].stage = "idle"
    /\ request' = [request EXCEPT ![c] = Begun(kind, asks)]
    /\ UNCHANGED <<meta, data, stray>>

GetImage(c, d) == Begin(c, "get", <<d>>)

GetImagesData(c, asks) == Begin(c, "batch", asks)

(* findImage, findImages: a document is read, or the read fails. *)
Find(c, i) ==
    /\ request[c].stage = "find" /\ i \in request[c].todo
    /\ \E found \in {meta[i], Nil} :
         request' = [request EXCEPT ![c].todo = @ \ {i}, ![c].images[i] = found]
    /\ UNCHANGED <<meta, data, stray>>

(* What getImage throws for is a null pointer that getImagesData follows. *)
Missing(c) ==
    IF request[c].kind = "batch" THEN Restart
    ELSE Refuse(c) /\ UNCHANGED <<meta, data, stray>>

(* The versions to read are chosen from the documents. *)
Choose(c) ==
    LET r      == request[c]
        wanted == Wanted(r)
    IN  /\ r.stage = "find" /\ r.todo = {}
        /\ IF \E d \in Range(r.asks) : r.images[d.image] = Nil
             THEN Missing(c)
             ELSE /\ request' = [request EXCEPT ![c] =
                       [r EXCEPT !.stage = "fetch", !.wanted = wanted,
                                 !.todo = {wanted[d.image].source.key : d \in Range(r.asks)}]]
                  /\ UNCHANGED <<meta, data, stray>>

(* findEntry, findEntries: a blob is read, or the read fails. *)
Fetch(c, k) ==
    /\ request[c].stage = "fetch" /\ k \in request[c].todo
    /\ \E found \in {data[k], Nil} :
         request' = [request EXCEPT ![c].todo = @ \ {k}, ![c].blobs[k] = found]
    /\ UNCHANGED <<meta, data, stray>>

-----------------------------------------------------------------------------
(* A turn of the loop over the descriptors (getImage: over its only one).  A
   picture is rendered unless the image has an exact version, always from and
   for the VersionRequest of the image.                                     *)

(* Faulty variant: the stored picture is answered and saved as it is. *)
Picked_Source(source, wanted, d) == source

Picked(source, wanted, d) ==
    IF wanted.exact THEN source ELSE Fit(source, d.box, wanted.type)

NewVersion(wanted, d) == Version(d.image, d.box, wanted.type, FALSE)

(* Faulty variant: the list is replaced by the new version alone. *)
Kept_Replaced(r, d, version, picture) ==
    [r EXCEPT !.images[d.image] = <<version>>, !.changed = @ \cup {d.image},
              !.fresh[version.key] = picture]

(* A version to save is added to the copy of the document. *)
Kept(r, d, version, picture) ==
    [r EXCEPT !.images[d.image] = Append(@, version), !.changed = @ \cup {d.image},
              !.fresh[version.key] = picture]

(* The answer is keyed by image too: the last descriptor of an image counts. *)
Turned(r, d) ==
    LET wanted  == r.wanted[d.image]
        picture == Picked(r.blobs[wanted.source.key], wanted, d)
        kept    == IF d.save /\ ~wanted.exact
                     THEN Kept(r, d, NewVersion(wanted, d), picture) ELSE r
    IN  [kept EXCEPT !.answer[d.image] = picture, !.next = @ + 1]

(* After the last turn what was kept is saved. *)
Looped(r) ==
    IF r.next <= Len(r.asks) THEN r
    ELSE IF r.changed = {} THEN Answered(r)
    ELSE Saving([r EXCEPT !.wanted = NoImages, !.blobs = NoBlobs], SaveOrder[1])

(* The blob may be missing, and the renderer may throw. *)
Render(c) ==
    LET r      == request[c]
        d      == r.asks[r.next]
        wanted == r.wanted[d.image]
    IN  /\ r.stage = "fetch" /\ r.todo = {}
        /\ IF r.blobs[wanted.source.key] = Nil
             THEN Missing(c)
             ELSE /\ UNCHANGED <<meta, data, stray>>
                  /\ \/ request' = [request EXCEPT ![c] = Looped(Turned(r, d))]
                     \/ ~wanted.exact /\ Refuse(c)

-----------------------------------------------------------------------------
(* newImage makes an image with a fresh key and adds a first version to it.
   The key of the version is set on the copy in the list; saveImageInstance
   is given, and pushes to the list again, the instance that has no key.    *)
NewImage(c, i) ==
    LET instance == [Primary(i) EXCEPT !.key = EmptyKey]
    IN  /\ request[c].stage = "idle" /\ meta[i] = Nil
        /\ \A x \in Clients : request[x].images[i] = Nil
        /\ request' = [request EXCEPT ![c] =
             Saving([Begun("upload", <<>>) EXCEPT !.images[i] = <<Primary(i), instance>>,
                                                  !.changed = {i}, !.fresh[EmptyKey] = Upload(i)],
                    "data")]
        /\ UNCHANGED <<meta, data, stray>>

(* A write takes effect and is acknowledged.  The library refuses an empty
   key; Write::schedule drops its status, and no answer ever comes.         *)
Save(c, w) ==
    /\ w \in Pending(c) /\ w[2] # EmptyKey
    /\ Written(w)
    /\ request' = [request EXCEPT ![c] = Saved(@, w[2])]
    /\ UNCHANGED stray

(* A write fails, before or after it took effect, and ends the request; the
   others of its batch are on their way.                                    *)
SaveFails(c, w) ==
    /\ w \in Pending(c) /\ w[2] # EmptyKey
    /\ \/ Written(w) /\ stray' = stray \cup (Pending(c) \ {w})
       \/ UNCHANGED <<meta, data>> /\ stray' = stray \cup Pending(c)
    /\ Refuse(c)

LateWrite(w) ==
    /\ w \in stray
    /\ Written(w)
    /\ stray' \in {stray, stray \ {w}}
    /\ UNCHANGED request

(* The response is sent. *)
Leave(c) ==
    /\ request[c].stage = "answered"
    /\ Refuse(c)
    /\ UNCHANGED <<meta, data, stray>>

Crash == (\E c \in Clients : request[c] # Idle) /\ Restart

-----------------------------------------------------------------------------
Step(c) ==
    \/ \E i \in Images : Find(c, i)
    \/ \E k \in Keys : Fetch(c, k)
    \/ Choose(c) \/ Render(c) \/ Leave(c)
    \/ \E w \in Pending(c) : Save(c, w) \/ SaveFails(c, w)

Next ==
    \/ \E c \in Clients :
         \/ Step(c)
         \/ \E d \in Gets : GetImage(c, d)
         \/ \E asks \in Batches : GetImagesData(c, asks)
         \/ \E i \in Images : NewImage(c, i)
    \/ \E w \in stray : LateWrite(w)
    \/ Crash

Spec == Init /\ [][Next]_vars

(* A thread that can run does, the buckets answer, and the machine stays up. *)
FairSpec == Spec /\ \A c \in Clients : WF_vars(Step(c))

-----------------------------------------------------------------------------
Requests ==
    [stage : {"idle", "find", "fetch", "data", "meta", "answered"},
     kind : {"none", "get", "batch", "upload"}, asks : Seq(Descriptors),
     todo : SUBSET (Images \cup BlobKeys), images : [Images -> Seq(Versions) \cup {Nil}],
     wanted : [Images -> Wants \cup {Nil}], blobs : [BlobKeys -> Pictures \cup {Nil}],
     next : Nat \ {0}, fresh : [BlobKeys -> Pictures \cup {Nil}], changed : SUBSET Images,
     answer : [Images -> Pictures \cup {Nil}]]

Writes == ({"data"} \X Keys \X Pictures) \cup ({"meta"} \X Images \X Seq(Versions))

(* What is stored, what may still be stored and what requests hold has its type. *)
TypeOK ==
    /\ meta \in [Images -> Seq(Versions) \cup {Nil}]
    /\ data \in [Keys -> Pictures \cup {Nil}]
    /\ stray \subseteq Writes
    /\ request \in [Clients -> Requests]

(* Every version that a document lists can be read, whatever crashed, failed
   or came late: ImageStore::saveImageInstance and getImagesData write the
   blob first, and wait for it.                                             *)
NoDangling ==
    \A i \in Images : meta[i] # Nil =>
        \A n \in DOMAIN meta[i] : data[meta[i][n].key] # Nil

(* Exactly one version is the original, in the bucket and in the copies that
   requests hold: getImage and VersionRequest read through the iterator
   without a test when the type is empty (ImageController.cpp:129 and 190). *)
OneOriginal(versions) ==
    \E n \in DOMAIN versions : \A m \in DOMAIN versions : versions[m].original <=> m = n

OriginalListed ==
    /\ \A i \in Images : meta[i] # Nil => OneOriginal(meta[i])
    /\ \A c \in Clients : request[c].stage \in {"find", "fetch"} =>
         \A i \in Images :
             request[c].images[i] # Nil => OneOriginal(request[c].images[i])

(* Batches that name an image once; the three properties that follow need them,
   for the second descriptor of an image is treated like the first.          *)
NamedOnce(asks) ==
    \A m, n \in DOMAIN asks : asks[m].image = asks[n].image => m = n

(* The blob of a listed version is the picture the list says: of that image,
   in that box and type, and the upload itself under the original's key.    *)
BlobsTrue ==
    \A i \in Images : meta[i] # Nil =>
        \A n \in DOMAIN meta[i] :
            LET v == meta[i][n] IN data[v.key] = Picture(i, v.box, v.type, v.original)

(* No document lists a box and type twice, however the savers interleave. *)
NoDuplicateVersion ==
    \A i \in Images : meta[i] # Nil =>
        \A m, n \in DOMAIN meta[i] : meta[i][m].key = meta[i][n].key => m = n

(* An answer shows the image that was asked for, in the asked box and type,
   or the upload itself.                                                    *)
Fits(d, answer) ==
    /\ answer.image = d.image
    /\ IF d.original THEN answer = Upload(d.image)
       ELSE /\ answer.box = d.box
            /\ answer.type = IF d.type = AnyType THEN OriginalType[d.image] ELSE d.type

AnswerFits ==
    \A c \in Clients : request[c].stage = "answered" =>
        \A d \in Range(request[c].asks) : Fits(d, request[c].answer[d.image])

(* "Success!", says static/upload_success.html:3, the page ImageUpload sends
   when newImage returns: an upload that passed validation is answered.     *)
UploadsAnswered ==
    \A c \in Clients : (request[c].stage = "data" /\ request[c].kind = "upload")
                          ~> request[c].stage \in {"answered", "idle"}
=============================================================================
