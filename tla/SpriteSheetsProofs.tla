-------------------------- MODULE SpriteSheetsProofs --------------------------
(***************************************************************************)
(* Theorems about SpriteSheets, for any number of makers and readers, of   *)
(* layouts and of writes that come late.                                   *)
(***************************************************************************)
EXTENDS SpriteSheets, TLAPS

(* A write may be performed at any time: what it stores fits its key, and a
   document is only on its way when its images are there.                    *)
Safe(w) ==
    /\ w.to = "image" => w.key = w.value.scale * SizeOf[w.value.layout]
    /\ w.to = "sheet" => Complete(w.value)

(* A maker has stored the images before the one it is at, and as long as it is
   alone, they are still its own.                                             *)
Stored(r) ==
    \A n \in Scale : 4 - n < r.next => /\ image[Key(r.layout, n)] # Nil
                                       /\ r.alone => image[Key(r.layout, n)] = Drawing(r.layout, n)

RequestOK(r) ==
    /\ r.stage = "save" => Stored(r)
    /\ r.stage \in {"known", "made"} => sheet # Nil
    /\ r.stage = "made" /\ r.alone =>
         sheet = r.layout /\ \A n \in Scale : image[Key(sheet, n)] = Drawing(sheet, n)
    /\ r.stage = "page" => sheet # Nil /\ Complete(r.layout)
    /\ r.stage \in {"sheet", "image"} /\ r.named => sheet # Nil /\ image[r.key] # Nil

IInv ==
    /\ TypeOK
    /\ sheet # Nil => Complete(sheet)
    /\ ImagesFit
    /\ \A w \in stray : Safe(w)
    /\ \A c \in Clients : RequestOK(request[c])

-----------------------------------------------------------------------------
(* Keys, drawings and the writes of a maker have their types, no drawing and no
   layout is Nil, and the three images of a layout have different keys.         *)
LEMMA KeyFacts ==
    ASSUME SheetsAssumption, NEW l \in Layouts
    PROVE  /\ \A n \in Scale : /\ Key(l, n) \in Keys /\ Drawing(l, n) \in Drawings
                               /\ Key(l, n) = n * SizeOf[l] /\ Drawing(l, n).scale = n
                               /\ Drawing(l, n).layout = l
           /\ \A m, n \in Scale : Key(l, m) = Key(l, n) => m = n
           /\ l # Nil /\ Nil \notin Drawings
<1>1. SizeOf[l] \in Nat \ {0} /\ l # Nil /\ Nil \notin Drawings
  BY DEF SheetsAssumption, Drawings
<1>2. \A n \in Scale : Key(l, n) \in Keys /\ Drawing(l, n) \in Drawings /\ Key(l, n) = n * SizeOf[l]
  BY DEF Keys, Key, Drawing, Drawings
<1>3. \A m, n \in Scale : Key(l, m) = Key(l, n) => m = n
  <2>1. /\ Key(l, 1) = SizeOf[l] /\ Key(l, 2) = 2 * SizeOf[l] /\ Key(l, 3) = 3 * SizeOf[l]
    BY <1>1 DEF Key
  <2>2. \A n \in Scale : n = 1 \/ n = 2 \/ n = 3
    BY DEF Scale
  <2>3. SizeOf[l] < 2 * SizeOf[l] /\ 2 * SizeOf[l] < 3 * SizeOf[l]
    BY <1>1
  <2> QED
    BY <1>1, <2>1, <2>2, <2>3
<1>4. \A n \in Scale : Drawing(l, n).scale = n /\ Drawing(l, n).layout = l
  BY DEF Drawing
<1> QED
  BY <1>1, <1>2, <1>3, <1>4

(* The fourth write of a maker is the document, the ones before are the images
   from the largest to the smallest.                                           *)
LEMMA WritesFacts ==
    ASSUME SheetsAssumption, NEW l \in Layouts, NEW n \in 1 .. 4
    PROVE  LET w == Writes(l)[n]
           IN  /\ w \in Write
               /\ n = 4 => w.to = "sheet" /\ w.value = l
               /\ n # 4 => /\ w.to = "image" /\ w.key = Key(l, 4 - n)
                           /\ w.value = Drawing(l, 4 - n) /\ 4 - n \in Scale
                           /\ w.key = w.value.scale * SizeOf[w.value.layout]
<1> DEFINE w == Writes(l)[n]
<1>1. CASE n = 4
  <2>1. w = [to |-> "sheet", key |-> 0, value |-> l]
    BY <1>1 DEF Writes, SheetWrite
  <2> QED
    BY <1>1, <2>1 DEF Write
<1>2. ASSUME NEW k \in Scale, n = 4 - k
      PROVE  /\ w \in Write /\ w.to = "image" /\ w.key = Key(l, k) /\ w.value = Drawing(l, k)
             /\ w.key = w.value.scale * SizeOf[w.value.layout]
  <2>1. w = ImageWrite(l, k)
    BY <1>2 DEF Writes, Scale
  <2>2. w = [to |-> "image", key |-> Key(l, k), value |-> Drawing(l, k)]
    BY <2>1 DEF ImageWrite
  <2> QED
    BY <2>2, KeyFacts DEF Write
<1>3. n # 4 => 4 - n \in Scale /\ n = 4 - (4 - n)
  BY DEF Scale
<1>4. CASE n # 4
  BY <1>2, <1>3, <1>4
<1> QED
  BY <1>1, <1>4

-----------------------------------------------------------------------------
(* A safe write: what was there is still there, though it may look different, and
   a document still leads to its images.                                         *)
LEMMA WrittenFacts ==
    ASSUME SheetsAssumption, IInv, NEW w \in Write, Safe(w), Written(w)
    PROVE  /\ sheet' \in Layouts \cup {Nil} /\ image' \in [Keys -> Drawings \cup {Nil}]
           /\ \A k \in Keys : image[k] # Nil => image'[k] # Nil
           /\ \A l \in Layouts : Complete(l) => Complete(l)'
           /\ sheet # Nil => sheet' # Nil
           /\ (sheet # Nil => Complete(sheet))'
           /\ ImagesFit'
           /\ \A x \in Write : Safe(x) => Safe(x)'
           /\ w.to = "sheet" => sheet' = w.value /\ w.value # Nil /\ image' = image
           /\ w.to = "image" => /\ image' = [image EXCEPT ![w.key] = w.value]
                                /\ w.key \in Keys /\ w.value # Nil /\ sheet' = sheet
<1>1. /\ sheet \in Layouts \cup {Nil} /\ image \in [Keys -> Drawings \cup {Nil}]
      /\ Nil \notin Layouts /\ Nil \notin Drawings
  BY DEF IInv, TypeOK, SheetsAssumption, Drawings
<1>2. \/ w.to = "sheet" /\ w.value \in Layouts /\ sheet' = w.value /\ image' = image
      \/ /\ w.to = "image" /\ w.key \in Keys /\ w.value \in Drawings
         /\ image' = [image EXCEPT ![w.key] = w.value] /\ sheet' = sheet
  BY DEF Write, Written
<1>3. \A k \in Keys : image[k] # Nil => image'[k] # Nil
  BY <1>1, <1>2
<1>4. ASSUME NEW l \in Layouts, Complete(l)
      PROVE  Complete(l)'
  BY <1>3, <1>4, KeyFacts DEF Complete
<1>5. (sheet # Nil => Complete(sheet))'
  <2>1. CASE w.to = "sheet"
    BY <1>2, <1>4, <2>1 DEF Safe
  <2>2. CASE w.to # "sheet"
    <3>1. sheet' = sheet
      BY <1>2, <2>2
    <3>2. sheet # Nil => \A n \in Scale : image'[Key(sheet, n)] # Nil
      BY <1>1, <1>3, KeyFacts DEF IInv, Complete
    <3> QED
      BY <3>1, <3>2 DEF Complete, Key
  <2> QED
    BY <2>1, <2>2
<1>6. ImagesFit'
  <2>1. ASSUME NEW k \in Keys, image'[k] # Nil
        PROVE  k = image'[k].scale * SizeOf[image'[k].layout]
    BY <1>1, <1>2, <2>1 DEF Safe, IInv, ImagesFit
  <2> QED
    BY <2>1 DEF ImagesFit
<1>7. ASSUME NEW x \in Write, Safe(x)
      PROVE  Safe(x)'
  <2>1. x.to = "sheet" => x.value \in Layouts
    BY DEF Write
  <2> QED
    BY <1>4, <1>7, <2>1 DEF Safe
<1>8. sheet # Nil => sheet' # Nil
  BY <1>1, <1>2
<1>9. sheet' \in Layouts \cup {Nil} /\ image' \in [Keys -> Drawings \cup {Nil}]
  BY <1>1, <1>2
<1> QED
  BY <1>1, <1>2, <1>3, <1>4, <1>5, <1>6, <1>7, <1>8, <1>9

(* What a request knows survives a write by someone else, but for being alone. *)
LEMMA OthersOK ==
    ASSUME SheetsAssumption, IInv, NEW w \in Write, Safe(w), Written(w),
           NEW r \in Request, RequestOK(r)
    PROVE  Disturbed(r) \in Request /\ RequestOK(Disturbed(r))'
<1>1. CASE r.stage = "save"
  <2>1. r \in [stage : {"save"}, layout : Layouts, next : 1 .. 4, alone : BOOLEAN]
    BY <1>1 DEF Request
  <2>2. Disturbed(r) = [stage |-> "save", layout |-> r.layout, next |-> r.next, alone |-> FALSE]
    BY <1>1, <2>1 DEF Disturbed
  <2>3. Disturbed(r) \in Request
    BY <2>1, <2>2 DEF Request
  <2>4. \A n \in Scale : 4 - n < r.next => image'[Key(r.layout, n)] # Nil
    BY <1>1, <2>1, WrittenFacts, KeyFacts DEF RequestOK, Stored
  <2> QED
    BY <2>2, <2>3, <2>4 DEF RequestOK, Stored
<1>2. CASE r.stage = "made"
  <2>1. r \in [stage : {"made"}, layout : Layouts, alone : BOOLEAN]
    BY <1>2 DEF Request
  <2>2. Disturbed(r) = [stage |-> "made", layout |-> r.layout, alone |-> FALSE]
    BY <1>2, <2>1 DEF Disturbed
  <2>3. Disturbed(r) \in Request
    BY <2>1, <2>2 DEF Request
  <2>4. sheet' # Nil
    BY <1>2, WrittenFacts DEF RequestOK
  <2> QED
    BY <2>2, <2>3, <2>4 DEF RequestOK
<1>3. CASE r.stage \notin {"save", "made"}
  <2>1. Disturbed(r) = r
    BY <1>3 DEF Disturbed
  <2>2. CASE r.stage = "page"
    <3>1. r.layout \in Layouts
      BY <2>2 DEF Request
    <3> QED
      BY <2>1, <2>2, <3>1, WrittenFacts DEF RequestOK
  <2>3. CASE r.stage \in {"sheet", "image"}
    <3>1. r.key \in Keys
      BY <2>3 DEF Request
    <3> QED
      BY <2>1, <2>3, <3>1, WrittenFacts DEF RequestOK
  <2>4. CASE r.stage \notin {"page", "sheet", "image"}
    BY <1>3, <2>1, <2>4, WrittenFacts DEF RequestOK
  <2> QED
    BY <2>2, <2>3, <2>4
<1> QED
  BY <1>1, <1>2, <1>3

-----------------------------------------------------------------------------
(* A write that a maker has submitted is safe. *)
LEMMA PendingSafe ==
    ASSUME SheetsAssumption, IInv, NEW c \in Clients, NEW w \in Pending(c)
    PROVE  /\ w \in Write /\ Safe(w)
           /\ request[c] \in [stage : {"save"}, layout : Layouts, next : 1 .. 4, alone : BOOLEAN]
           /\ w = Writes(request[c].layout)[request[c].next]
           /\ Stored(request[c])
<1> DEFINE r == request[c]
<1>1. r.stage = "save" /\ w = Writes(r.layout)[r.next]
  BY DEF Pending
<1>2. r \in [stage : {"save"}, layout : Layouts, next : 1 .. 4, alone : BOOLEAN]
  BY <1>1 DEF IInv, TypeOK, Request
<1>3. Stored(r)
  BY <1>1 DEF IInv, RequestOK
<1>4. CASE r.next = 4
  <2>1. \A n \in Scale : 4 - n < r.next
    BY <1>4 DEF Scale
  <2>2. Complete(r.layout)
    BY <1>3, <2>1 DEF Stored, Complete
  <2> QED
    BY <1>1, <1>2, <1>3, <1>4, <2>2, WritesFacts DEF Safe
<1>5. CASE r.next # 4
  BY <1>1, <1>2, <1>3, <1>5, WritesFacts DEF Safe
<1> QED
  BY <1>4, <1>5

(* A step that leaves the buckets alone. *)
LEMMA QuietStep ==
    ASSUME SheetsAssumption, IInv, sheet' = sheet, image' = image,
           stray' \subseteq Write, \A w \in stray' : Safe(w),
           request' \in [Clients -> Request], \A c \in Clients : RequestOK(request'[c])
    PROVE  IInv'
<1>1. TypeOK'
  BY DEF IInv, TypeOK
<1>2. (sheet # Nil => Complete(sheet))' /\ ImagesFit'
  BY DEF IInv, Complete, ImagesFit, Key
<1>3. \A w \in stray' : Safe(w)'
  BY DEF Safe, Complete
<1>4. ASSUME NEW c \in Clients
      PROVE  RequestOK(request[c])'
  <2>1. RequestOK(request'[c])
    OBVIOUS
  <2> QED
    BY <2>1 DEF RequestOK, Stored, Complete, Key
<1> QED
  BY <1>1, <1>2, <1>3, <1>4 DEF IInv

(* A request moves on to a stage it is ready for. *)
LEMMA RequestStep ==
    ASSUME SheetsAssumption, IInv, UNCHANGED <<sheet, image>>,
           stray' \subseteq Write, \A w \in stray' : Safe(w),
           NEW c \in Clients, NEW r \in Request, RequestOK(r),
           request' = [request EXCEPT ![c] = r]
    PROVE  IInv'
<1>1. request' \in [Clients -> Request]
  BY DEF IInv, TypeOK
<1>2. \A x \in Clients : RequestOK(request'[x])
  BY DEF IInv, TypeOK
<1> QED
  BY <1>1, <1>2, QuietStep

(* Nothing is known in the stages before the tiles are laid out. *)
LEMMA EarlyStages ==
    ASSUME NEW r, r = Idle \/ r = [stage |-> "ask"] \/ r = [stage |-> "tiles"]
    PROVE  r \in Request /\ RequestOK(r)
<1>1. r.stage \in {"idle", "ask", "tiles"} /\ r \in Request
  BY DEF Idle, Request
<1> QED
  BY <1>1 DEF RequestOK

(* The process may end at any moment. *)
LEMMA RestartStep ==
    ASSUME SheetsAssumption, IInv, Restart
    PROVE  IInv'
<1>1. /\ sheet' = sheet /\ image' = image
      /\ request' = [c \in Clients |-> Idle]
      /\ stray' = stray \cup UNION {Pending(c) : c \in Clients}
  BY DEF Restart
<1>2. stray' \subseteq Write /\ \A w \in stray' : Safe(w)
  BY <1>1, PendingSafe DEF IInv, TypeOK
<1>3. request' \in [Clients -> Request] /\ \A c \in Clients : RequestOK(request'[c])
  BY <1>1, EarlyStages
<1> QED
  BY <1>1, <1>2, <1>3, QuietStep

(* The steps of makers and readers that write nothing. *)
LEMMA ReadSteps ==
    ASSUME SheetsAssumption, IInv, NEW c \in Clients,
           \/ \E force \in BOOLEAN : Make(c, force)
           \/ HasEntry(c) \/ Build(c) \/ ReadCSS(c) \/ Leave(c)
           \/ FindSheet(c) \/ FindImage(c) \/ \E k \in Keys : Ask(c, k)
    PROVE  IInv'
<1>1. stray \subseteq Write /\ \A w \in stray : Safe(w)
  BY DEF IInv, TypeOK
<1>2. ASSUME NEW r \in Request, RequestOK(r), request' = [request EXCEPT ![c] = r],
             UNCHANGED <<sheet, image, stray>>
      PROVE  IInv'
  BY <1>1, <1>2, RequestStep
<1>3. ASSUME NEW force \in BOOLEAN, Make(c, force)
      PROVE  IInv'
  BY <1>2, <1>3, EarlyStages DEF Make
<1>4. CASE HasEntry(c)
  <2>1. PICK found \in {sheet, Nil} :
           request' = [request EXCEPT ![c] = [stage |-> IF found # Nil THEN "known" ELSE "tiles"]]
    BY <1>4 DEF HasEntry
  <2>2. UNCHANGED <<sheet, image, stray>>
    BY <1>4 DEF HasEntry
  <2>3. CASE found # Nil
    <3>1. [stage |-> "known"] \in Request /\ RequestOK([stage |-> "known"])
      BY <2>3 DEF Request, RequestOK
    <3> QED
      BY <1>2, <2>1, <2>2, <2>3, <3>1
  <2>4. CASE found = Nil
    BY <1>2, <2>1, <2>2, <2>4, EarlyStages
  <2> QED
    BY <2>3, <2>4
<1>5. CASE Build(c)
  <2>1. UNCHANGED <<sheet, image, stray>>
    BY <1>5 DEF Build
  <2>2. CASE End(c)
    BY <1>2, <2>1, <2>2, EarlyStages DEF End
  <2>3. ASSUME NEW l \in Layouts,
               request' = [request EXCEPT ![c] =
                             [stage |-> "save", layout |-> l, next |-> 1, alone |-> TRUE]]
        PROVE  IInv'
    <3> DEFINE r == [stage |-> "save", layout |-> l, next |-> 1, alone |-> TRUE]
    <3>1. r \in Request
      BY DEF Request
    <3>2. Stored(r)
      BY DEF Stored, Scale
    <3>3. RequestOK(r)
      BY <3>2 DEF RequestOK
    <3> QED
      BY <1>2, <2>1, <2>3, <3>1, <3>3
  <2> QED
    BY <1>5, <2>2, <2>3 DEF Build
<1>6. CASE ReadCSS(c)
  <2> DEFINE r == [stage |-> "page", layout |-> sheet]
  <2>1. r \in Request /\ RequestOK(r)
    BY <1>6 DEF ReadCSS, Request, RequestOK, IInv, TypeOK
  <2> QED
    BY <1>2, <1>6, <2>1 DEF ReadCSS
<1>7. CASE Leave(c)
  BY <1>2, <1>7, EarlyStages DEF Leave, End
<1>8. CASE FindSheet(c)
  <2> DEFINE r == [stage |-> "image", key |-> request[c].key, named |-> request[c].named]
  <2>1. UNCHANGED <<sheet, image, stray>> /\ request[c].stage = "sheet"
    BY <1>8 DEF FindSheet
  <2>2. CASE End(c)
    BY <1>2, <2>1, <2>2, EarlyStages DEF End
  <2>3. CASE request' = [request EXCEPT ![c] = r]
    <3>1. request[c] \in [stage : {"sheet", "image"}, key : Keys, named : BOOLEAN]
      BY <2>1 DEF IInv, TypeOK, Request
    <3>2. r \in Request
      BY <3>1 DEF Request
    <3>3. RequestOK(request[c])
      BY DEF IInv
    <3>4. RequestOK(r)
      BY <2>1, <3>3 DEF RequestOK
    <3> QED
      BY <1>2, <2>1, <2>3, <3>2, <3>4
  <2> QED
    BY <1>8, <2>2, <2>3 DEF FindSheet
<1>9. CASE FindImage(c)
  BY <1>2, <1>9, EarlyStages DEF FindImage, End
<1>10. ASSUME NEW k \in Keys, Ask(c, k)
       PROVE  IInv'
  <2> DEFINE r == [stage |-> "sheet", key |-> k, named |-> request[c].stage = "page"]
  <2>1. r \in Request
    BY DEF Request
  <2>2. CASE request[c].stage = "page"
    <3>1. PICK n \in Scale : k = Key(request[c].layout, n)
      BY <1>10, <2>2 DEF Ask
    <3>2. sheet # Nil /\ Complete(request[c].layout)
      BY <2>2 DEF IInv, RequestOK
    <3>3. sheet # Nil /\ image[k] # Nil
      BY <3>1, <3>2 DEF Complete
    <3>4. RequestOK(r)
      BY <3>3 DEF RequestOK
    <3> QED
      BY <1>2, <1>10, <2>1, <3>4 DEF Ask
  <2>3. CASE request[c].stage # "page"
    <3>1. r.named = FALSE /\ r.stage = "sheet"
      BY <2>3
    <3>2. RequestOK(r)
      BY <3>1 DEF RequestOK
    <3> QED
      BY <1>2, <1>10, <2>1, <3>2 DEF Ask
  <2> QED
    BY <2>2, <2>3
<1> QED
  BY <1>3, <1>4, <1>5, <1>6, <1>7, <1>8, <1>9, <1>10

-----------------------------------------------------------------------------
(* A safe write is performed, and each request is one that survives it. *)
LEMMA WriteStep ==
    ASSUME SheetsAssumption, IInv, NEW w \in Write, Safe(w), Written(w),
           stray' \subseteq stray, request' \in [Clients -> Request],
           \A c \in Clients : RequestOK(request[c])'
    PROVE  IInv'
<1>1. \A x \in stray' : x \in Write /\ Safe(x)'
  BY WrittenFacts DEF IInv, TypeOK
<1>2. TypeOK'
  BY <1>1, WrittenFacts DEF TypeOK
<1>3. (sheet # Nil => Complete(sheet))' /\ ImagesFit'
  BY WrittenFacts
<1> QED
  BY <1>1, <1>2, <1>3 DEF IInv

(* After its own write, a maker has stored one thing more. *)
LEMMA SaveStep ==
    ASSUME SheetsAssumption, IInv, NEW c \in Clients, Save(c)
    PROVE  IInv'
<1>a. PICK r : r = request[c]
  OBVIOUS
<1> DEFINE l == r.layout
<1>b. PICK done : done = IF r.next < 4
                   THEN [stage |-> "save", layout |-> l, next |-> r.next + 1, alone |-> r.alone]
                   ELSE [stage |-> "made", layout |-> l, alone |-> r.alone]
  OBVIOUS
<1>1. PICK w \in Pending(c) :
         /\ Written(w)
         /\ request' = [x \in Clients |-> IF x = c THEN done ELSE Disturbed(request[x])]
         /\ stray' = stray
  BY <1>a, <1>b DEF Save
<1>2. /\ w \in Write /\ Safe(w) /\ w = Writes(l)[r.next] /\ Stored(r)
      /\ l \in Layouts /\ r.next \in 1 .. 4 /\ r.alone \in BOOLEAN
  BY <1>a, PendingSafe
<1>3. done \in Request /\ RequestOK(done)'
  <2>1. CASE r.next = 4
    <3>1. done = [stage |-> "made", layout |-> l, alone |-> r.alone]
      BY <1>b, <2>1
    <3>2. sheet' = l /\ l # Nil /\ image' = image
      BY <1>1, <1>2, <2>1, WritesFacts, WrittenFacts
    <3>3. r.alone => \A n \in Scale : image[Key(l, n)] = Drawing(l, n)
      BY <1>2, <2>1 DEF Stored, Scale
    <3>4. r.alone => \A n \in Scale : image'[Key(sheet', n)] = Drawing(sheet', n)
      BY <3>2, <3>3
    <3>5. RequestOK(done)'
      BY <3>1, <3>2, <3>4 DEF RequestOK
    <3>6. done \in Request
      BY <1>2, <3>1 DEF Request
    <3> QED
      BY <3>5, <3>6
  <2>2. CASE r.next # 4
    <3>1. /\ r.next < 4 /\ 4 - r.next \in Scale
          /\ done = [stage |-> "save", layout |-> l, next |-> r.next + 1, alone |-> r.alone]
      BY <1>b, <1>2, <2>2 DEF Scale
    <3>2. w.to = "image" /\ w.key = Key(l, 4 - r.next) /\ w.value = Drawing(l, 4 - r.next)
      BY <1>2, <2>2, WritesFacts
    <3>3. image' = [image EXCEPT ![Key(l, 4 - r.next)] = Drawing(l, 4 - r.next)]
      BY <1>1, <1>2, <3>2, WrittenFacts
    <3>4. ASSUME NEW n \in Scale, 4 - n < r.next + 1
          PROVE  /\ image'[Key(l, n)] # Nil
                 /\ r.alone => image'[Key(l, n)] = Drawing(l, n)
      <4>1. Key(l, n) \in Keys /\ Key(l, 4 - r.next) \in Keys /\ Drawing(l, n) # Nil
        BY <1>2, <3>1, KeyFacts
      <4>2. CASE n = 4 - r.next
        BY <3>3, <4>1, <4>2 DEF IInv, TypeOK
      <4>3. CASE n # 4 - r.next
        <5>1. 4 - n < r.next
          BY <1>2, <3>4, <4>3 DEF Scale
        <5>2. Key(l, n) # Key(l, 4 - r.next)
          BY <1>2, <3>1, <4>3, KeyFacts
        <5>3. image'[Key(l, n)] = image[Key(l, n)]
          BY <3>3, <4>1, <5>2 DEF IInv, TypeOK
        <5> QED
          BY <1>2, <5>1, <5>3 DEF Stored
      <4> QED
        BY <4>2, <4>3
    <3>5. RequestOK(done)'
      BY <3>1, <3>4 DEF RequestOK, Stored
    <3>6. done \in Request
      BY <1>2, <3>1 DEF Request
    <3> QED
      BY <3>5, <3>6
  <2> QED
    BY <2>1, <2>2
<1>4. ASSUME NEW x \in Clients
      PROVE  request'[x] \in Request /\ RequestOK(request[x])'
  <2>1. CASE x = c
    <3>1. request'[x] = done
      BY <1>1, <2>1
    <3> QED
      BY <1>3, <3>1 DEF RequestOK, Stored, Complete, Key
  <2>2. CASE x # c
    <3>1. request'[x] = Disturbed(request[x])
      BY <1>1, <2>2
    <3>2. request[x] \in Request /\ RequestOK(request[x])
      BY DEF IInv, TypeOK
    <3>3. \A q \in Request : RequestOK(q) => Disturbed(q) \in Request /\ RequestOK(Disturbed(q))'
      BY <1>1, <1>2, OthersOK
    <3>4. PICK q : q = Disturbed(request[x])
      OBVIOUS
    <3>5. request'[x] = q /\ q \in Request /\ RequestOK(q)'
      BY <3>1, <3>2, <3>3, <3>4
    <3> QED
      BY <3>5 DEF RequestOK, Stored, Complete, Key
  <2> QED
    BY <2>1, <2>2
<1>5. request' \in [Clients -> Request]
  BY <1>1, <1>4
<1> QED
  BY <1>1, <1>2, <1>4, <1>5, WriteStep

(* A safe write after which every request is as it was, disturbed, or over. *)
LEMMA DisturbStep ==
    ASSUME SheetsAssumption, IInv, NEW w \in Write, Safe(w), Written(w), stray' \subseteq stray,
           NEW ended \in SUBSET Clients,
           request' = [x \in Clients |-> IF x \in ended THEN Idle ELSE Disturbed(request[x])]
    PROVE  IInv'
<1>1. ASSUME NEW x \in Clients
      PROVE  request'[x] \in Request /\ RequestOK(request[x])'
  <2>1. CASE x \in ended
    <3>1. request'[x] = Idle /\ request'[x] \in Request
      BY <2>1, EarlyStages
    <3>2. request'[x].stage = "idle"
      BY <3>1 DEF Idle
    <3> QED
      BY <3>1, <3>2 DEF RequestOK
  <2>2. CASE x \notin ended
    <3>1. request[x] \in Request /\ RequestOK(request[x])
      BY DEF IInv, TypeOK
    <3>2. \A r \in Request : RequestOK(r) => Disturbed(r) \in Request /\ RequestOK(Disturbed(r))'
      BY OthersOK
    <3>3. PICK q : q = Disturbed(request[x])
      OBVIOUS
    <3>4. request'[x] = q /\ q \in Request /\ RequestOK(q)'
      BY <2>2, <3>1, <3>2, <3>3
    <3> QED
      BY <3>4 DEF RequestOK, Stored, Complete, Key
  <2> QED
    BY <2>1, <2>2
<1>2. request' \in [Clients -> Request]
  BY <1>1
<1> QED
  BY <1>1, <1>2, WriteStep

(* A write that fails may have taken effect, may do so later, or never. *)
LEMMA SaveFailsStep ==
    ASSUME SheetsAssumption, IInv, NEW c \in Clients, SaveFails(c)
    PROVE  IInv'
<1>1. PICK w \in Pending(c) :
        \/ /\ Written(w)
           /\ request' = [x \in Clients |-> IF x = c THEN Idle ELSE Disturbed(request[x])]
           /\ stray' = stray
        \/ /\ stray' \in {stray, stray \cup {w}}
           /\ sheet' = sheet /\ image' = image
           /\ End(c)
  BY DEF SaveFails
<1>2. w \in Write /\ Safe(w)
  BY PendingSafe
<1>3. CASE Written(w) /\ stray' = stray
           /\ request' = [x \in Clients |-> IF x = c THEN Idle ELSE Disturbed(request[x])]
  <2>1. request' = [x \in Clients |-> IF x \in {c} THEN Idle ELSE Disturbed(request[x])]
    BY <1>3
  <2> QED
    BY <1>2, <1>3, <2>1, DisturbStep
<1>4. CASE stray' \in {stray, stray \cup {w}} /\ sheet' = sheet /\ image' = image /\ End(c)
  <2>1. stray' \subseteq Write /\ \A x \in stray' : Safe(x)
    BY <1>2, <1>4 DEF IInv, TypeOK
  <2> QED
    BY <1>4, <2>1, EarlyStages, RequestStep DEF End
<1> QED
  BY <1>1, <1>3, <1>4

(* A write whose maker is gone takes effect. *)
LEMMA LateWriteStep ==
    ASSUME SheetsAssumption, IInv, NEW w \in stray, LateWrite(w)
    PROVE  IInv'
<1>1. w \in Write /\ Safe(w) /\ Written(w) /\ stray' \subseteq stray
  BY DEF LateWrite, IInv, TypeOK
<1>2. PICK ended \in SUBSET Clients : ended = {}
  OBVIOUS
<1>3. request' = [x \in Clients |-> IF x \in ended THEN Idle ELSE Disturbed(request[x])]
  BY <1>2 DEF LateWrite
<1> QED
  BY <1>1, <1>3, DisturbStep

-----------------------------------------------------------------------------
(* Empty buckets and no requests. *)
LEMMA Initial ==
    ASSUME SheetsAssumption, Init
    PROVE  IInv
<1>1. \A c \in Clients : request[c] \in Request /\ RequestOK(request[c])
  BY EarlyStages DEF Init
<1>2. TypeOK
  BY <1>1 DEF Init, TypeOK
<1>3. \A k \in Keys : image[k] = Nil
  BY DEF Init
<1> QED
  BY <1>1, <1>2, <1>3 DEF Init, IInv, ImagesFit

(* Every step of makers, readers, late writes and crashes preserves the invariant. *)
THEOREM Inductive ==
    ASSUME SheetsAssumption, IInv, [Next]_vars
    PROVE  IInv'
<1>1. CASE UNCHANGED vars
  BY <1>1 DEF vars, IInv, TypeOK, Complete, ImagesFit, Safe, RequestOK, Stored, Key
<1>2. ASSUME NEW c \in Clients,
             \/ \E force \in BOOLEAN : Make(c, force)
             \/ HasEntry(c) \/ Build(c) \/ ReadCSS(c) \/ Leave(c)
             \/ FindSheet(c) \/ FindImage(c) \/ \E k \in Keys : Ask(c, k)
      PROVE  IInv'
  BY <1>2, ReadSteps
<1>3. ASSUME NEW c \in Clients, Save(c) \/ SaveFails(c)
      PROVE  IInv'
  BY <1>3, SaveStep, SaveFailsStep
<1>4. ASSUME NEW w \in stray, LateWrite(w)
      PROVE  IInv'
  BY <1>4, LateWriteStep
<1>5. CASE Crash
  BY <1>5, RestartStep DEF Crash
<1> QED
  BY <1>1, <1>2, <1>3, <1>4, <1>5 DEF Next

(* The invariant holds throughout. *)
THEOREM Invariance ==
    ASSUME SheetsAssumption
    PROVE  Spec => []IInv
BY Initial, Inductive, PTL DEF Spec

(* The buckets hold documents and images, and requests are in their stages. *)
THEOREM TypeCorrect ==
    ASSUME SheetsAssumption
    PROVE  Spec => []TypeOK
<1>1. IInv => TypeOK
  BY DEF IInv
<1> QED
  BY <1>1, Invariance, PTL

(* No document and no page made from one leads to an image that is not there. *)
THEOREM SpritesWhole ==
    ASSUME SheetsAssumption
    PROVE  Spec => []NoHalfSprite
<1>1. IInv => NoHalfSprite
  BY DEF IInv, NoHalfSprite, RequestOK
<1> QED
  BY <1>1, Invariance, PTL

(* An image is as large as its key says, whoever wrote it last. *)
THEOREM ImagesKeepSize ==
    ASSUME SheetsAssumption
    PROVE  Spec => []ImagesFit
<1>1. IInv => ImagesFit
  BY DEF IInv
<1> QED
  BY <1>1, Invariance, PTL

(* A maker that answers with a sprite's key does so for a sprite that is there. *)
THEOREM AnswersTrue ==
    ASSUME SheetsAssumption
    PROVE  Spec => []AnswersStand
<1>1. IInv => AnswersStand
  BY DEF IInv, AnswersStand, RequestOK
<1> QED
  BY <1>1, Invariance, PTL

(* A maker that nobody disturbs leaves a document that describes the images. *)
THEOREM AloneMakersTrue ==
    ASSUME SheetsAssumption
    PROVE  Spec => []AloneIsTrue
<1>1. IInv => AloneIsTrue
  BY DEF IInv, AloneIsTrue, RequestOK
<1> QED
  BY <1>1, Invariance, PTL

=============================================================================
