# A verification project for ufsaig

`ufsaig` is an HTTP image server: it stores images in two Couchbase buckets,
renders them in other sizes and formats, and packs them into sprite sheets with
their CSS. This directory holds TLA+ models of its core, the TLC runs that check
them on small instances, and TLAPS proofs of the properties that matter most.
The code is under `src/src/` (about 5,300 lines of C++); the rest of `src/` is
vendored libraries. The repository has no tests.

## The system

| Component | Code | State it keeps | Operations | Hard behaviour |
|---|---|---|---|---|
| Bucket connection | `couchbase/Worker`, `Command`, `Read`, `Write`, `ReadMulti`, `WriteMulti` | `m_commandQueue`, `m_close`, one thread, one libcouchbase instance, the promises of the commands | `findEntry`, `hasEntry`, `findEntries`, `saveData`, `saveEntries`, `~Worker` | wakeups, raw cookies, borrowed buffers, timeouts, shutdown |
| Thread pool | `utils/ThreadPool` | `m_queue`, `m_stop`, threads | `async`, `sync`, `~ThreadPool` | an unlocked `emplace_back`, closures that point into a frame |
| Image versions | `image_controller`, `repos/ImageStore`, `model/Image*` | a document per image, a blob per version | `getImage`, `getImagesData`, `newImage` | two buckets without transactions, read-modify-write without CAS, crashes between writes |
| Endpoints | `services/*/endpoints` | none | one `render` per route, one thread per connection | null pointers after a failed read of a batch |
| Sprites | `SpriteMaker`, `SpriteController`, `SpriteSheet`, `SpriteCSS` | a document and three blobs per sprite | make, describe, deliver | check-then-create, partial failure |
| Packing | `model/Sprite.cpp` | a tree of spaces | `build` | overlapping spaces, tiles that do not fit |
| Renderers | `renderer/*` | the pool | `aspectFit`, `renderSprite` | run on the pool |
| Utilities | `utils/*` | none | base64, hex, md5, mime, forms, responses | arithmetic of boundaries |
| Wiring | `App`, `Config`, `Core`, `Uploads`, `Socket` | configuration | start | none |

A request runs on a thread of its own (`App.cpp:74`). It calls `ImageController`
or `SpriteController`, which call `ImageStore` and the two `Worker`s; each call
of a worker puts a command on a queue and blocks on a future that the worker's
thread fulfils from a libcouchbase callback. Rendering is handed to the thread
pool in the same way. The request threads share nothing but these queues and the
documents in the two buckets, which they read and write without any lock.

What makes each component correct:

* Bucket connection: no wakeup is lost; a callback meets a live command and
  an open promise; a buffer outlives its submission; every call is answered; the
  destructor ends and leaves nothing behind; all together behave as a bucket.
* Thread pool: an operation is neither lost nor held twice, and belongs to a caller
  that is still there; a caller gets its answer.
* Image versions: a document lists only what can be read and is what the list
  says; the original is never lost; answers fit the question; requests end.
* Sprites: a document that exists leads to three images; CSS, layout and images
  agree; a maker's failure is not visible as a half sprite.
* Packing: tiles are inside the sheet, all placed, and not over each other.
* The page of a sprite: what is drawn, what the document says and what the style
  shows are the same picture, on every kind of screen.
* Transfers: an upload reaches `newImage` as the browser sent it or is refused, a
  picture reaches the browser whole and is reported as ended.

## The modules

| Module | Models | Lines |
|---|---|---|
| `DocumentStore` | what a bucket promises (abstract) | - |
| `CouchbaseWorker` | the bucket connection; `Store` is its refinement mapping to `DocumentStore` | `Worker.cpp`, `Command.cpp`, `Read*.cpp`, `Write*.cpp` |
| `MCCouchbaseWorker` | its instances | |
| `CouchbaseWorkerProofs` | its theorems, and that it implements `DocumentStore` | |
| `ThreadPool` | the thread pool | `ThreadPool.h`, `ThreadPool.cpp` |
| `ThreadPoolProofs` | its theorems | |
| `ImageVersions` | requests for images over two buckets | `ImageController.cpp`, `ImageStore.cpp`, `Image.cpp`, the image endpoints |
| `MCImageVersions` | its instances | |
| `ImageVersionsProofs` | its theorems for any batches, and for batches that name an image once | |
| `SpritePacking` | the layout of a sprite's tiles | `Sprite.cpp`, `Tile.h`, `Rect.h` |
| `SpritePackingProofs` | its theorems | |
| `SpriteStyles` | what a layout becomes: sheet, document, style; extends `SpritePacking` | `SpriteController.cpp`, `MagickRenderer.cpp`, `OpenCVRenderer.cpp` |
| `MCSpriteStyles` | the instance of both | |
| `SpriteStylesProofs` | its theorems; extends `SpritePackingProofs` | |
| `SpriteSheets` | making and delivering one sprite | `SpriteMaker.cpp`, `SpriteController.cpp`, `SpriteCSS.cpp`, `SpriteSheet.cpp` |
| `MCSpriteSheets` | its instance | |
| `SpriteSheetsProofs` | its theorems | |
| `Base64` | the two directions of base64, as operators | `base64.cpp` |
| `Base64Proofs` | its theorems | |
| `Transfers` | uploads up to `newImage`, deferred responses, data URLs | `MultiPartForm.h`, `ImageUpload.cpp`, `ImageResponse.cpp` |
| `MCTransfers` | its instance | |
| `TransfersProofs` | its theorems | |

Definitions whose name has a suffix, such as `WorkerDrain_NoClear`, are faulty
variants: a bug the code could have had. No specification uses them. Each is
there to show that a property can fail, and `PROJECT.json` says which.

### DocumentStore

One bucket as its callers see it. A call names keys and reads them, or stores a
value under each. Every key of a call is asked, takes effect at one moment
between the call and its answer (at most once), and is answered, with success
only after it took effect. A failed write, or the rest of a batch whose caller
gave up, may take effect later: it is kept in `stray`.

### CouchbaseWorker

A critical section of `m_queueMutex` is one step (`Schedule`, `WorkerWait`,
`WorkerDrain`, `Close`), and each `notify_one` is a step of its own, for it comes
after the unlock. The loop that rejects the last batch keeps the mutex over
several steps; the mutex is held exactly while `worker = "closing"`, and that is
the guard of the others. Commands live on a heap of reusable addresses, since the
cookie that libcouchbase hands back is the bare address: `Return` and `DropBatch`
free a command when its last `shared_ptr` goes. Reading and writing, single and
in batches, are one kind of command: `multi` and `value` tell them apart.

Of libcouchbase the model says: an accepted operation is pending until it is
reported, the report comes from `lcb_wait` on the worker's thread, `lcb_wait`
returns when nothing is pending, a key it refuses (`RefusedKeys`: the empty one)
is neither pending nor reported, and an operation may fail before or after the
server performed it.

### ThreadPool

`async` declares a `unique_lock` without a mutex (`ThreadPool.h:33`), so that
`emplace_back` races with other calls of itself and with the `empty`, `front` and
`pop_front` of the pool threads. An `emplace_back` lasts from `Call` to `Emplace`; `Check`
and `Pop` look at the deque in one moment each. While none of these falls into an
`emplace_back` of another, the deque is the sequence `m_queue`. When one does, the history
variable `torn` is set for good (`Touch`): from then on a look at the deque may find it
empty, or find any closure in front, old, new or destroyed, or bytes that never were one
(`Wrecks`). This is the undefined behaviour of the race, as a choice that is as wide as the
callers can tell; only a process that faults is left out, for it has no further states.
`Check` and `Block` are the two halves of `m_semaphore.wait` with the mutex held between
them, so that the unlocked push and notification can fall between test and sleep.

### ImageVersions

A request goes through stages: `find` (read the documents), `fetch` (read the
blobs), `data` and `meta` (store blobs, then documents), `answered`. `getImage`
is a request for one descriptor, `getImagesData` one for several; they differ in
what a failed read does (an exception, or a null pointer and the end of the
process). Types are the extensions of file names, the empty one of a name that has none
included (`ImageStore.cpp:40`): an image may be stored with it (`OriginalType`), and a request
that names it (`AnyType`) asks for the type of the original. A bucket operation is a single step: `CouchbaseWorker` implements
`DocumentStore`, whose operations take effect at one moment inside the call, and
a request has no other effect while it waits. The operations of a batch are steps
of their own. Failed writes go to `stray` and may be applied later. `Restart`
ends the process at any moment and keeps the buckets, with what was on its way.

`Init` has some images stored with their original. `newImage` cannot get there,
as the run `images_upload` shows; the buckets of a running server were filled
before (`example.html` names such images).

### SpritePacking

`Sprite::build` as one step per tile. The code's tree is kept as the root, the
free nodes below it and the bounds of the node each tile took: nodes that hold
a tile are only walked through. `std::unordered_set` of pointers gives the order in which
subnodes are asked, so a tile may take any free node it fits into (`PlaceInNode`),
but the root first while it is free (`PlaceInRoot`); otherwise the sheet grows
(`GrowToFit`), and a tile that does not fit even then is lost, for nobody looks at
what `place` returns. Sizes are gross, at least 2: the padding of 1 is part of them.
The comparator of the sort answers true for equal tiles. With at most 16 of them (`Threshold`)
`std::sort` sorts by insertion, which only leaves their order open; with more it is
undefined, and `Init` begins with the sprites for which it is not (`Sortable`).

### SpriteSheets

One sprite: the document in the meta bucket, the three images in the data
bucket, makers with and without `force_create`, and readers of the CSS and the
images. Makers of the same sprite may choose different layouts, which is what
`SpritePacking` and its hash tables make possible. A layout is a constant with a
size, `Key` is made of the scale and the size as in `saveResolution`, so layouts of one
size share their keys. Sprites do not share keys, so one stands for all. The tiles
are read by `getImagesData` (`ImageVersions`); here they are read or not. A reader whose document
or image is missing or cannot be read answers with an error and is over (`End`): `findEntry`
throws, and `SpriteSheet.cpp:29` answers 400. `alone` is
a history variable in the record of a maker, for `AloneIsTrue`; no guard reads it.

### SpriteStyles

Continues a layout of `SpritePacking`: `SaveSprite` draws the sheet with either
renderer and saves the document (`SpriteSheetImages`), or throws, when OpenCV
cannot blend a picture; `SpriteCSS` makes the page for a class prefix. Maps keyed
by image are kept as they are, so of two tiles with one image the last one
counts; but the version is looked for by the first descriptor of the image
(`ImageController.cpp:56`), so a version that fits it exactly is drawn for both (`exact`, `Picture`). Sizes of type `size_t` wrap at `Word`. What a browser makes of a
background position in percent (`ShownFrom`) and of media rules (`Background`) is
part of the properties, not of the model.

### Transfers and Base64

A form is a sequence of tokens: the pieces of text that `MultiPartForm` searches
for, and others. `filename="` is two tokens, for `name="` is its end and is found
in it. libhttpserver cuts the content at `maxRequestBytes` and goes on as if it were whole.
The cut may be at any byte: `limit` tokens are received whole, and of the next one a
beginning (`tail`), which is a token of its own and none that is searched for. `Starts`
says what may be left of each token: in none of the texts that the code searches for is
there another one before the last byte. Each turn of the recursion of `parse` is a step (`ParsePart`):
it takes what is left up to the next boundary (`Chunk`), adds the argument found
there, if any, unless there is one of that name, and goes on behind the boundary.
`parseArg` finds the end of a value before its beginning (`MultiPartForm.h:83`, `:98`):
of a part that was cut right behind the dashes its value begins with, these count as
those before a boundary, the range is reversed, and its exception is answered
with 500 (`ParseFails`). Otherwise `ImageUpload::render_POST` looks at the arguments in its order. The model ends where `newImage` is called, since
`ImageVersions` shows that it never returns; its `ValidationErrors` for missing
fields are unreachable, for `render_POST` refuses such forms before. A download is
a `Payload` with its position, asked for in pieces of any size up to `MaxPiece`
(libmicrohttpd), or a data URL, made with `Base64!Encode`. `Base64!Decode` models
`Base64::decode`, which nothing calls.

## What TLC checks

| Run | Instance | Shows |
|---|---|---|
| `worker_safety` | 2 clients, 2 addresses, 2 keys, 3 kinds of call | `NoLostWakeup`, `CookieValid`, `BufferAlive`, `CleanShutdown`, `AnswersFinal` |
| `worker_store` | as above, fewer calls | `ImplementsStore`: the worker refines `DocumentStore` |
| `worker_live` | `FairSpec` | `CallsReturn`, `ShutdownEnds` |
| `worker_reject` | `FairSpec` | violated: `RejectedCallsReturn` |
| `pool` | 2 clients, 2 threads, 3 calls, `FairSpec` | `FrameAlive`, `HeldOnce`, `NoneStranded`, `SyncReturnsAlone`, `DestructorEnds` |
| `pool_lost` | 2 clients, 1 thread, `FairSpec` | violated: `SyncReturns` |
| `images_safety` | 2 clients, 1 image, 2 boxes to save, batches that name it twice | `NoDangling`, `OriginalListed` |
| `images_batch` | 2 clients, 2 images, batches of both | `BlobsTrue`, `AnswerFits`, `NoDuplicateVersion` |
| `images_upload` | `FairSpec` | violated: `UploadsAnswered` |
| `packing` | up to 5 tiles of 5 sizes, 2 renderers, 2 prefixes | of the layout: `TypeOK`, `OnSheet`, `OnlyFirstLost`, `ApartUnlessSplit`, `SameSizeApart`; of the page: `PositionsTrue`, `DrawnApart`, `BoxesShow`, `ScreensServed` |
| `sheets` | 2 clients, 3 layouts of 2 sizes, 1 late write | `TypeOK`, `NoHalfSprite`, `ImagesFit`, `AnswersStand`, `AloneIsTrue` |
| `transfers` | forms of up to 5 fields, 4 limits, pictures of up to 5 bytes, `FairSpec` | `TypeOK`, `FormUnderstood`, `UploadsJudged`, `StreamWhole`, `UrlDecodes`, `PicturesEnd` |

Why the bounds are enough. Two request threads make every race of this code: all
of them are between two callers, or a caller and the one worker, or a caller and
a pool thread. Two addresses are what two clients can hold, and a third address
that is freed and taken again is what two clients do when they call repeatedly.
Two keys distinguish the operations of a batch. Two pool threads make the race
for the front of the queue and one that is awake beside one that slept through its
notification; three calls make two appends that overlap and one more on a queue that is
not empty. Two boxes and two types make documents of different
lengths and orders; of `stray` writes at most one or two are on their way at a time
(`StrayBound`, a constraint), which is as many as a stale document needs to
overwrite a newer one. `MaxCalls` bounds the calls of the pool.
Five tiles (`MaxTiles`) of gross sizes 3 to 6 lose a first tile, split nodes both ways
and take the root late; two lists of images name each tile's own, or one for two of
them, and one image is not square, which is all that the renderers distinguish; what needs more tiles than that is left to the proofs, which
have no bound. The three layouts of `sheets` are two that share all keys and one whose key
for a small image is the key of a larger one of the others.
The forms of `transfers` have the four fields of `image_upload.html` in all orders, with
one missing or one more, with texts for files and files for texts, numbers that are none,
values that hold line ends, dashes and `filename=`. A form of these fields has about 50
tokens; with the picture last, limits of
43, 46 and 47 cut the others behind the first token of the picture, where a value that begins
with dashes makes a reversed range, in the line end that follows it, before, in and behind
the dashes, and inside the boundary, each between two tokens and inside one; 60 only cuts
forms with a field too many. Pictures of 0 to 5 bytes end at each place in a
block of base64, and pieces of up to 4 (`MaxPiece`) divide them in every way that
matters: one short, one exact and one that is too long.

Symmetry is used for clients and addresses in runs that check no liveness and
no temporal property that depends on their identity.

Deadlock checking is off in all runs, because the system stops: the destructors
end, `MaxCalls` is used up, and a caller that is never answered stays where it is.

### Fairness

`CouchbaseWorker!FairSpec`: weak fairness of the worker's thread, of the
destructor once it has begun, of each client's own steps, and of the report of
each operation libcouchbase accepted, which it makes at the latest when its
operation timeout expires (`Worker.cpp:74-78`). Nothing is assumed of new calls,
of the destructor's beginning, of the server, or of spurious wakeups.

`ThreadPool!FairSpec`: weak fairness of every thread, and strong fairness of
taking the mutex, which is released again and again, and weak fairness of the
destructor once it has begun. Two properties have conditions that say which races
are excluded: `SyncReturnsAlone` that the deque is never torn and the pool has two threads
or more, `DestructorEnds` that the deque is not torn and that `m_stop` is not set between
the test and the sleep of a pool thread, which nothing prevents (it is set without the mutex).

`Transfers!FairSpec`: weak fairness of asking for the next piece and of noticing
the end: libmicrohttpd goes on while the connection lives. A browser that goes away
needs no end.

`ImageVersions!FairSpec`: weak fairness of each request's steps; it serves only
the refutation of `UploadsAnswered`.

### What the violations show

* `RejectedCallsReturn`: `ReadMulti::reject` and `WriteMulti::reject` are empty,
  so a batch that meets a closing worker never answers its caller.
* `SyncReturns`: in a pool of one thread (`transformerThreads: 1`) an operation can wait for
  ever although the deque is never torn: its push and its notification fall between the
  thread's test and its sleep. With two threads this cannot happen, for the second one looks at
  the queue (`NoneStranded`, `SyncReturnsAlone`). What follows when two accesses of the
  deque meet is undefined, and the properties of the pool say nothing of it.
* `UploadsAnswered`: `newImage` saves the instance that has no key. The library
  refuses the empty key, the status is dropped, and the upload never returns.
  With a key, the image would list its original twice, once under the empty key:
  the instance is in `image->versions` and is pushed again (`ImageStore.cpp:116`).

### What is deliberately weaker than one might want

Of two savers of one image, one version can be forgotten, because the document
is written without CAS. No document of the repository denies it, and the version
is made again when it is asked for. The properties bound the damage: no dangling
version, no lost original, no duplicate.

Tiles of a sprite can be drawn over each other, and one can be lost. No document
says they may not. `ApartUnlessSplit` and `OnlyFirstLost` say exactly when it cannot
happen, and `SameSizeApart` that it cannot for tiles of one size, of which `std::sort` takes up to 16. It was the proof
that showed how narrow the condition is: "tiles of one height" holds for five tiles,
and fails for more, once the sheet is three tiles high.

Makers of one sprite that overlap, or a forced maker that fails half way, leave
a document that describes another layout than the images have. `NoHalfSprite`,
`ImagesFit` and `AloneIsTrue` say what remains true.

A batch that names an image twice uses the first descriptor's `VersionRequest` for
both and can store a re-encoded picture over the original. `BlobsTrue`,
`AnswerFits` and `NoDuplicateVersion` are checked for batches that name an image once;
`images_safety` checks what holds for the others as well.

Several properties of the page say exactly what the code does where one would want
more, and nothing in the repository promises it. `BoxesShow`: the percentages of the style have
the wrong sign (`SpriteController.cpp:105`), so a box shows the picture of its tile only
where the tile begins at the middle of the sheet. `ScreensServed`: the rule for the
finest screens names the prefix `sp2w` instead of the page's (line 217). `PositionsTrue`:
the tile that fits nowhere has a position below zero, which wraps. `DrawnApart`: the
OpenCV renderer keeps tiles apart only while no image is named twice.

Of forms, `FormUnderstood` says what is understood: a part whose file name comes
before its name is read as a text of that name; a boundary that another parameter
follows makes of the form at most one argument; a form that was cut is used as far
as it goes, and of its last argument the value may be short, or may keep what was received of
the line end, the dashes and the boundary behind it (`Remains`). `UploadsJudged` follows this to what `newImage` is given: after a cut the picture
may be short only if it was sent after the other three fields.

## What TLAPS proves

For all values of the constants, under `ConstantsAssumption`, `PoolAssumption`,
`CallAssumption`, `PackingAssumption`, `StylesAssumption`, `SheetsAssumption`, `AskAssumption`,
`KeyAssumption`, `TransfersAssumption` and `FormsAssumption` (distinct special values, single
calls have one key, sizes are positive, descriptors are of known images and boxes,
an image is stored in some type, which may be the empty one,
pictures are bytes, forms are sequences of fields). Two of the assumptions are about the
machine and the browser: `StylesAssumption` has `Word` so large that the sizes of all tiles
of a sprite added up fit into a `size_t` (`Countable`), and `FormsAssumption` says that
no other word, and nothing that is left of a token at a cut, is a token that `MultiPartForm` searches
for; that the boundary is in no value is
the browser's choice of it (`Fields`).

* `CouchbaseWorkerProofs`: `NoLostWakeup`, `CookieValid`,
  `BufferAlive` and `CleanShutdown` are invariants of `Spec`, and `AnswersFinal`
  holds of every step.

  The properties are not inductive on their own. `CookieValid` needs that the
  batch keeps commands alive and that no two holders share one (`Ownership`), that
  a command still to be submitted has open promises and nothing pending
  (`Pristine`), that nothing is pending outside `run` and that `m_close` and the
  phases agree (`Phases`), and that an operation is pending once
  (`PendingOnce`). `IInv` is their conjunction with the properties themselves. It
  was checked with TLC before it was proved. One lemma per action shows that it
  is preserved; `Inductive` combines them, and every theorem follows from it.

* The second half of `CouchbaseWorkerProofs`: `Spec => ImplementsStore`. `AnswerInv` adds to `IInv` what the
  mapping needs of answers: a command for one key has one, and there are data only
  where a read has seen them. For each action a lemma says which step of the store
  it is on the mapped state: making a command is `Invoke`, the server performing an
  operation is `TakeEffect`, or `LateWrite` when its caller has gone, callbacks are
  `Succeed` and `Fail`, a rejection of a single call is `Fail`, and queueing, waking,
  submitting and freeing are stutters. The arguments are those of the safety
  properties: `CookieValid` and `PendingOnce` say that an operation belongs to one key
  of one call, `BufferAlive` that a write is not submitted for nobody, and
  `Pristine` that a rejected command has done nothing. The proof found
  that the store had been too strict: the rest of a batch that was given up need not
  be on its way, for the library may have refused it, so `Return` adds a subset to `stray`.

* `ThreadPoolProofs`: `FrameAlive`, `HeldOnce` and `NoneStranded` are invariants, for any number of
  clients, threads and calls, each under its condition `~torn`. `PoolInv` says that
  at most one thread holds the mutex (`Mutexed`) and, while the deque is not torn, that a closure
  in the queue or on a thread is that of a caller who waits and is not answered (`Owned`), that it
  is there once (`Once`), that the operation of a caller that waits is somewhere unless the
  pool is stopped (`Kept`), and that somebody is awake while the queue is not empty (`Awake`). A pool thread
  that found the queue empty and is not asleep yet is alone in the mutex, so in a pool of two the
  other one has not: this is why a notification that is lost on the first strands nothing.

* `ImageVersionsProofs`: `NoDangling` and `OriginalListed` are invariants, for any
  requests. A copy of a document in a request is `Backed`: each version in it has
  its blob in the bucket, or the request will store the blob before the
  document. Blobs are overwritten and never disappear, so what is backed stays so, and a
  document on its way, whose maker may be gone, is `Listed` already. The iterator that the code
  does not test (`ImageController.cpp:129`) is never `end()`, because every copy has one original.

* The second half of `ImageVersionsProofs`: `BlobsTrue`, `AnswerFits` and `NoDuplicateVersion` are invariants if
  no batch names an image twice, an assumption of these theorems. `OnceInv` says
  that every document, copy and write on its way is `Genuine` and every blob
  `Proper`, and that a `VersionRequest` still suits its descriptor when its turn comes
  (`Suits`), which is what fails when an image is named twice.

* `SpritePackingProofs`: `TypeOK`, `OnSheet`, `OnlyFirstLost`, `ApartUnlessSplit` and
  `SameSizeApart` are invariants, for tiles of any size, as many as can be sorted (`Sortable`):
  up to 16, or any number of which no two are equal. Tiles of one size are up to 16.
  Containment needs nothing else. That only the first tile is lost needs that the
  sheet is at least as high as every later tile (`Sorted`). Disjointness
  is inductive with the free nodes included (`Clear`), as long as tiles fill the
  width or the height of their nodes, and needs that the root is taken first
  (`RootFirst`). With one size, all nodes are of a tile's width or height
  (`SnugWhenOneSize`), so the condition holds.

* `SpriteSheetsProofs`: `TypeOK`, `NoHalfSprite`, `ImagesFit`, `AnswersStand` and
  `AloneIsTrue` are invariants, for any number of requests, layouts and late writes.
  A write may take effect at any time after its maker has gone, so the
  invariant speaks of writes on their way: each fits its key, and a document is
  only on its way when its images are stored (`Safe`). A maker has stored what comes
  before the write it is at (`Stored`), and images may be overwritten but
  never disappear.

* `SpriteStylesProofs`: `PositionsTrue`, `DrawnApart`, `BoxesShow` and `ScreensServed` are
  invariants of the page of any sprite, and `StylesSpec` implements the `Spec` of
  `SpritePacking`: everything behind the layout leaves it as it was made, so the theorems of `SpritePackingProofs` hold here too.
  `StylesInv` is the invariant of the layout with what was drawn and what the document
  says of each image (`Described`), and a bound on the sheet: it never becomes larger than the
  tiles placed so far added up, which is counted by the tiles still to do
  (`Measured`). Without the bound a position could wrap at `Word` though its tile is on the
  sheet. The last tile of an image is the one the document describes, which is why
  `BoxesShow` speaks of tiles whose image is named once, and `DrawnApart`, for OpenCV, of
  sprites in which all are.

* `Base64Proofs`: for data of any length, `Decode` gives back what `Encode` was given, with a
  zero for every mark of padding (`DecodesBack`), and the symbols that `Encode` writes are, read
  as six bits each, the data (`MeaningKept`). Both are about one block of four
  symbols at a time: where the symbols, the marks and the blanks lie in what is
  written (`Zones`) reduces them to the arithmetic of a block.

* `TransfersProofs`: `TypeOK`, `StreamWhole`, `UrlDecodes`, `FormUnderstood` and `UploadsJudged` are
  invariants, for pictures, pieces, forms, values and limits of any size.
  `StreamInv` says that the position is in the picture and what was sent lies before it;
  `UrlDecodes` follows from `Base64Proofs`.

  `FormInv` says what is known between two turns of `parse`: the content is at the beginning, or
  behind the boundary that ends the k-th part, and the arguments are what a browser meant by
  the first k fields, of each name the first (`FirstUpto`). Where the parts end in the
  content (`Bounds`) comes from `FlattenSeq`, a recursive function, by induction over
  the number of parts; since an induction theorem cannot be instantiated, `UpTo` makes one
  for sets of numbers from the well-foundedness of the finite sets. What `parseArg` reads of a
  part is proved by cases: a text, a file, a file whose name comes first, each whole, and
  cut at any place (`WholePartRead`, `CutPartRead`, `StubPartRead`). What is left of a token at
  the end of a sequence is never found by a search for tokens (`CappedSearch`), so a cut inside a token is read
  like a cut before it, but for what it leaves at the end of the value (`CappedRead`); a cut
  inside the boundary leaves the line end and the dashes before it too. A cut part has its value shortened, or followed by
  a beginning of what separates it from the next, or has no argument, or
  its range is reversed; so `FormUnderstood` holds wherever the limit is. `VerdictInv` adds what the
  answer was for, of which `UploadsJudged` follows with `FormUnderstood` and that names
  are apart. While these proofs were made the model was found to leave out the reversed range:
  `ParseArg` had taken the value for empty there, where the code throws.

Only model-checked: liveness (`CallsReturn`, `ShutdownEnds`, `SyncReturnsAlone`, `DestructorEnds` and
`PicturesEnd`), since fairness and `ENABLED` are outside the prover's reach, and the refutations.
Every safety property that a passing run checks is also proved.

## Not modelled

* Start-up, configuration, routing and sockets: straight-line code before the first
  request, whose failures end the program. A configuration with no `transformerThreads`
  makes a pool without threads (`Config.cpp:43`), in which every request that renders
  waits: that follows from `ThreadPool` at a glance and needs no run.
* `async` after `m_stop` (`ThreadPool.h:29`): the pool is destroyed after the web server
  has stopped, so no request is left to call it.
* The parsing of JSON and of arguments; hex, md5, MIME types and `convert`; file names,
  time stamps and sizes in bytes, which no decision reads; `ImageMeta`, which hands
  one document out. They keep no state that another step reads.
* The drawing done by ImageMagick and OpenCV, and the rounding of `double` in `aspectFit`
  (`Rect.cpp:16`, `MagickRenderer.cpp:30`), which may lose a pixel: the model is exact.
* `std::sort` of more than 16 tiles of which two are equal (`Sprite.cpp:159`): undefined, and
  excluded from the initial states (`Sortable`).
* What a process does whose deque is torn, beyond the answers its callers may see.
* The `Worker::cancel` path, the `Worker` constructor without a thread and `sync` without
  a result, which nothing reaches; a form whose boundary is empty.
* The vendored libraries, which are nearly all of `src/`, except for what `src/src/` relies on:
  libcouchbase (an accepted operation is reported), libhttpserver (the cut),
  libmicrohttpd (pieces until the end), the condition variable and the deque.

## Plan

1. Done: the bucket connection with its abstract specification, the thread pool, image
   versions, the layout of sprites and their making and delivery, the page of a sprite,
   base64 and transfers; proofs of all their safety properties and of both refinements.
2. A history of overlapping savers, to state exactly when a version is forgotten.
3. A composition of `ImageVersions` and `SpriteSheets`: makers of sprites save the
   versions of their tiles.
4. The safety halves of the liveness properties: what a waiting caller is waiting for is
   always on its way, which needs no fairness, for `CallsReturn`; for `SyncReturnsAlone` these are
   `HeldOnce` and `NoneStranded`.
