------------------------ MODULE ImageVersionsProofs ------------------------
(***************************************************************************)
(* Theorems about ImageVersions, for any number of request threads, images *)
(* and boxes, any descriptors and any number of writes that come late; in  *)
(* the second half, for batches that name an image once.                   *)
(***************************************************************************)
EXTENDS ImageVersions, FiniteSetTheorems, TLAPS

(* A document that may be stored: it lists one original, and its blobs are there. *)
Listed(versions) ==
    /\ OneOriginal(versions)
    /\ \A n \in DOMAIN versions : versions[n].key \in Keys /\ data[versions[n].key] # Nil

(* The copy of a document in a request: a version is stored, or will be before
   the document is.                                                            *)
Backed(r, versions) ==
    /\ OneOriginal(versions)
    /\ \A n \in DOMAIN versions :
         /\ versions[n].key \in Keys
         /\ data[versions[n].key] # Nil \/ (r.stage # "meta" /\ r.fresh[versions[n].key] # Nil)

(* An upload waits for its blob with the empty key for ever, and its document,
   which lists the original twice, is never written.                           *)
Good(r) ==
    IF r.kind = "upload" THEN r.stage = "data" /\ r.todo = {EmptyKey}
    ELSE /\ r.fresh[EmptyKey] = Nil
         /\ \A i \in Images : r.images[i] # Nil => Backed(r, r.images[i])
         /\ \A i \in r.changed : r.images[i] # Nil
         /\ r.stage = "find" => r.asks # <<>> /\ r.next = 1 /\ r.changed = {}
         /\ r.stage = "fetch" => /\ r.next \in DOMAIN r.asks
                                 /\ \A d \in Range(r.asks) : /\ r.images[d.image] # Nil
                                                             /\ r.wanted[d.image] # Nil
         /\ r.stage = "data" => /\ r.todo \subseteq {k \in Keys : r.fresh[k] # Nil}
                                /\ \A k \in Keys \ r.todo : r.fresh[k] # Nil => data[k] # Nil
         /\ r.stage = "meta" => r.todo \subseteq r.changed

IInv ==
    /\ TypeOK
    /\ \A i \in Images : meta[i] # Nil => Listed(meta[i])
    /\ \A w \in stray : w[1] = "meta" => Listed(w[3])
    /\ \A c \in Clients : Good(request[c])

-----------------------------------------------------------------------------
(* A set of naturals that is not empty has a least element. *)
LEMMA MinFacts ==
    ASSUME NEW S \in SUBSET Nat, S # {}
    PROVE  Min(S) \in S
<1> DEFINE T == {1 .. s : s \in S}
           R == StrictSubsetOrdering(Nat)
<1>1. T # {} /\ T \subseteq FiniteSubsetsOf(Nat)
  <2>1. ASSUME NEW s \in Nat PROVE IsFiniteSet(1 .. s) /\ 1 .. s \subseteq Nat
    BY FS_Interval
  <2> QED
    BY <2>1 DEF FiniteSubsetsOf
<1>2. \E x \in T : \A y \in T : ~(<<y, x>> \in R)
  <2> HIDE DEF T, R
  <2>1. IsWellFoundedOn(R, FiniteSubsetsOf(Nat))
    BY FS_StrictSubsetOrderingWellFounded DEF R
  <2> QED
    BY <1>1, <2>1, WFMin
<1>3. PICK m \in S : \A y \in S : ~(<<1 .. y, 1 .. m>> \in R)
  BY <1>2
<1>4. ASSUME NEW y \in S, y < m PROVE FALSE
  <2>1. 1 .. y \subseteq 1 .. m /\ m \in 1 .. m /\ m \notin 1 .. y
    BY <1>4
  <2>2. 1 .. y \in SUBSET Nat /\ 1 .. m \in SUBSET Nat
    OBVIOUS
  <2>3. <<1 .. y, 1 .. m>> \in R
    BY <2>1, <2>2 DEF StrictSubsetOrdering
  <2> QED
    BY <1>3, <2>3
<1>5. \A y \in S : m =< y
  BY <1>4
<1> QED
  BY <1>5 DEF Min

(* The searches of std::find_if: what is found is in the list and fits. *)
LEMMA OriginalFound ==
    ASSUME NEW versions \in Seq(Versions), OneOriginal(versions)
    PROVE  LET n == SelectInSeq(versions, LAMBDA v : v.original)
           IN n \in DOMAIN versions /\ versions[n].original
<1> DEFINE S == {i \in 1 .. Len(versions) : versions[i].original}
<1>1. S # {} /\ S \in SUBSET Nat
  BY DEF OneOriginal, Versions
<1>2. SelectInSeq(versions, LAMBDA v : v.original) = Min(S)
  BY <1>1 DEF SelectInSeq
<1>3. Min(S) \in S
  BY <1>1, MinFacts
<1> QED
  BY <1>2, <1>3

-----------------------------------------------------------------------------
(* An element of a sequence has its type, and its index is at most the length. *)
LEMMA ElementFacts ==
    ASSUME NEW S, NEW s \in Seq(S)
    PROVE  /\ \A n \in DOMAIN s : s[n] \in Range(s) /\ s[n] \in S /\ n \in Nat /\ n <= Len(s)
           /\ Len(s) \in Nat
  BY DEF Range

(* An index that is at most the length is inside the sequence. *)
LEMMA IndexFacts ==
    ASSUME NEW S, NEW s \in Seq(S), NEW n \in Nat \ {0}, n <= Len(s)
    PROVE  n \in DOMAIN s
  OBVIOUS

(* The next index: what comes before it, and what a list that ends there holds. *)
LEMMA NextFacts ==
    ASSUME NEW n \in Nat
    PROVE  /\ n + 1 \in Nat \ {0} /\ n < n + 1 /\ ~(n < n)
           /\ \A k \in Nat : k # n => (k < n <=> k < n + 1)
           /\ \A k, l \in Nat : k <= l /\ ~(n + 1 <= l) => k < n + 1
  OBVIOUS

(* The types of the fields of a request that the proofs use most. *)
LEMMA RequestFields ==
    ASSUME NEW r \in Requests
    PROVE  /\ r.asks \in Seq(Descriptors) /\ r.next \in Nat \ {0}
           /\ r.images \in [Images -> Seq(Versions) \cup {Nil}]
           /\ r.wanted \in [Images -> Wants \cup {Nil}]
           /\ r.answer \in [Images -> Pictures \cup {Nil}]
  BY DEF Requests

(* A request that begins, is over or is answered holds nothing yet. *)
LEMMA BegunFacts ==
    ASSUME NEW kind \in {"none", "get", "batch"}, NEW asks \in Seq(Descriptors)
    PROVE  LET r == Begun(kind, asks)
           IN  /\ r \in Requests
               /\ asks # <<>> => Good(r)
               /\ \A stage \in {"idle", "answered"} : Good([r EXCEPT !.stage = stage])
<1> DEFINE r == Begun(kind, asks)
<1>1. {d.image : d \in Range(asks)} \subseteq Images
  <2>1. \A d \in Range(asks) : d \in Descriptors
    BY DEF Range
  <2> QED
    BY <2>1 DEF Descriptors
<1>2. r \in Requests
  BY <1>1 DEF Begun, Requests, NoImages, NoBlobs
<1>3. /\ r.kind # "upload" /\ r.fresh[EmptyKey] = Nil /\ \A i \in Images : r.images[i] = Nil
      /\ r.changed = {} /\ r.next = 1 /\ r.stage = "find" /\ r.asks = asks
  BY DEF Begun, NoImages, NoBlobs, BlobKeys
<1>4. asks # <<>> => Good(r)
  BY <1>3 DEF Good
<1>5. ASSUME NEW stage \in {"idle", "answered"} PROVE Good([r EXCEPT !.stage = stage])
  BY <1>2, <1>3 DEF Good, Requests
<1> QED
  BY <1>2, <1>4, <1>5

LEMMA IdleFacts == Idle \in Requests /\ Good(Idle)
<1>1. <<>> \in Seq(Descriptors)
  OBVIOUS
<1>2. Begun("none", <<>>) \in Requests
  BY <1>1, BegunFacts
<1>3. Idle \in Requests
  BY <1>2 DEF Idle, Requests
<1>4. Good(Idle)
  BY <1>1, BegunFacts DEF Idle
<1> QED
  BY <1>3, <1>4

(* A step of one request that writes nothing. *)
LEMMA RequestStep ==
    ASSUME IInv, NEW c \in Clients, NEW r \in Requests, Good(r),
           request' = [request EXCEPT ![c] = r], UNCHANGED <<meta, data, stray>>
    PROVE  IInv'
<1>1. TypeOK'
  BY DEF IInv, TypeOK
<1>2. ASSUME NEW x \in Clients PROVE Good(request[x])'
  <2>1. Good(request'[x])
    BY DEF IInv, TypeOK
  <2> QED
    BY <2>1 DEF Good, Backed
<1>3. (\A i \in Images : meta[i] # Nil => Listed(meta[i]))'
  BY DEF IInv, Listed
<1>4. (\A w \in stray : w[1] = "meta" => Listed(w[3]))'
  BY DEF IInv, Listed
<1> QED
  BY <1>1, <1>2, <1>3, <1>4 DEF IInv

(* What a request has yet to write may be stored, but for the empty key. *)
LEMMA PendingFacts ==
    ASSUME IInv, NEW c \in Clients, NEW w \in Pending(c), w[2] # EmptyKey
    PROVE  /\ w \in Writes /\ request[c].kind # "upload"
           /\ w[1] = "meta" => Listed(w[3])
           /\ w[1] = request[c].stage /\ w[2] \in request[c].todo
           /\ w[1] = "data" => w[2] \in Keys /\ w[3] = request[c].fresh[w[2]]
           /\ w[1] = "meta" => w[2] \in Images /\ w[3] = request[c].images[w[2]]
<1> DEFINE r == request[c]
<1>1. r \in Requests /\ Good(r)
  BY DEF IInv, TypeOK
<1>2. PICK k \in r.todo : w = <<r.stage, k, IF r.stage = "data" THEN r.fresh[k] ELSE r.images[k]>>
  BY DEF Pending
<1>3. r.stage \in {"data", "meta"} /\ w[1] = r.stage /\ w[2] = k
  BY <1>2 DEF Pending
<1>4. r.kind # "upload"
  BY <1>1, <1>2, <1>3 DEF Good
<1>5. CASE r.stage = "data"
  <2>1. k \in Keys /\ r.fresh[k] # Nil
    BY <1>1, <1>4, <1>5 DEF Good
  <2>2. r.fresh[k] \in Pictures
    BY <1>1, <2>1 DEF Requests, BlobKeys
  <2> QED
    BY <1>2, <1>3, <1>4, <1>5, <2>1, <2>2 DEF Writes
<1>6. CASE r.stage = "meta"
  <2>1. k \in Images /\ r.images[k] # Nil /\ Backed(r, r.images[k])
    BY <1>1, <1>4, <1>6 DEF Good, Requests
  <2>2. r.images[k] \in Seq(Versions) /\ Listed(r.images[k])
    BY <1>1, <1>6, <2>1 DEF Requests, Backed, Listed
  <2> QED
    BY <1>2, <1>3, <1>4, <1>6, <2>1, <2>2 DEF Writes
<1> QED
  BY <1>3, <1>5, <1>6

(* A write that may be stored keeps everything that was there. *)
LEMMA WrittenFacts ==
    ASSUME IInv, NEW w \in Writes, w[1] = "meta" => Listed(w[3]), Written(w)
    PROVE  /\ meta' \in [Images -> Seq(Versions) \cup {Nil}]
           /\ data' \in [Keys -> Pictures \cup {Nil}]
           /\ \A k \in Keys : data[k] # Nil => data'[k] # Nil
           /\ w[1] = "data" => data'[w[2]] # Nil
           /\ (\A i \in Images : meta[i] # Nil => Listed(meta[i]))'
<1>1. \/ /\ w[1] = "data" /\ w[2] \in Keys /\ w[3] \in Pictures
         /\ data' = [data EXCEPT ![w[2]] = w[3]] /\ meta' = meta
      \/ /\ w[1] = "meta" /\ w[2] \in Images /\ w[3] \in Seq(Versions)
         /\ meta' = [meta EXCEPT ![w[2]] = w[3]] /\ data' = data
  BY DEF Writes, Written
<1>2. Nil \notin Pictures
  BY KeyAssumption
<1>3. /\ meta' \in [Images -> Seq(Versions) \cup {Nil}]
      /\ data' \in [Keys -> Pictures \cup {Nil}]
      /\ \A k \in Keys : data[k] # Nil => data'[k] # Nil
      /\ w[1] = "data" => data'[w[2]] # Nil
  BY <1>1, <1>2 DEF IInv, TypeOK
<1>4. ASSUME NEW i \in Images, meta'[i] # Nil PROVE Listed(meta[i])'
  <2>1. Listed(meta'[i])
    BY <1>1, <1>4 DEF IInv, TypeOK
  <2> QED
    BY <1>3, <2>1 DEF Listed
<1> QED
  BY <1>3, <1>4

(* A step that writes, or leaves writes behind. *)
LEMMA StoreStep ==
    ASSUME IInv,
           meta' \in [Images -> Seq(Versions) \cup {Nil}],
           data' \in [Keys -> Pictures \cup {Nil}],
           \A k \in Keys : data[k] # Nil => data'[k] # Nil,
           (\A i \in Images : meta[i] # Nil => Listed(meta[i]))',
           stray' \subseteq stray \cup {w \in UNION {Pending(c) : c \in Clients} : w[2] # EmptyKey},
           request' \in [Clients -> Requests],
           \A c \in Clients : Good(request[c])'
    PROVE  IInv'
<1>1. ASSUME NEW w \in stray' PROVE w \in Writes /\ (w[1] = "meta" => Listed(w[3]))
  <2>1. CASE w \in stray
    BY <2>1 DEF IInv, TypeOK
  <2>2. CASE w \notin stray
    <3>1. PICK c \in Clients : w \in Pending(c) /\ w[2] # EmptyKey
      BY <2>2
    <3> QED
      BY <3>1, PendingFacts
  <2> QED
    BY <2>1, <2>2
<1>2. TypeOK'
  BY <1>1 DEF TypeOK
<1>3. (\A w \in stray : w[1] = "meta" => Listed(w[3]))'
  BY <1>1 DEF Listed
<1> QED
  BY <1>2, <1>3 DEF IInv

(* What everyone knows survives when blobs only come. *)
LEMMA OthersKept ==
    ASSUME IInv, \A k \in Keys : data[k] # Nil => data'[k] # Nil, NEW c \in Clients
    PROVE  Good(request[c]) /\ (request'[c] = request[c] => Good(request[c])')
<1>1. Good(request[c])
  BY DEF IInv
<1> QED
  BY <1>1 DEF Good, Backed

LEMMA RestartStep == ASSUME IInv, Restart PROVE IInv'
<1>1. request' = [c \in Clients |-> Idle]
  BY DEF Restart
<1>2. ASSUME NEW c \in Clients PROVE Good(request[c])'
  BY <1>1, IdleFacts DEF Restart, Good, Backed
<1>3. (\A i \in Images : meta[i] # Nil => Listed(meta[i]))'
  BY DEF IInv, Restart, Listed
<1> QED
  BY <1>1, <1>2, <1>3, IdleFacts, StoreStep DEF Restart, IInv, TypeOK

LEMMA RefuseStep ==
    ASSUME IInv, NEW c \in Clients, Refuse(c), UNCHANGED <<meta, data, stray>> PROVE IInv'
BY IdleFacts, RequestStep DEF Refuse

LEMMA MissingStep == ASSUME IInv, NEW c \in Clients, Missing(c) PROVE IInv'
BY RestartStep, RefuseStep DEF Missing

LEMMA LateWriteStep == ASSUME IInv, NEW w \in stray, LateWrite(w) PROVE IInv'
<1>1. w \in Writes /\ (w[1] = "meta" => Listed(w[3])) /\ Written(w)
  BY DEF IInv, TypeOK, LateWrite
<1>2. \A c \in Clients : Good(request[c])'
  BY <1>1, WrittenFacts, OthersKept DEF LateWrite
<1>3. request' \in [Clients -> Requests] /\ stray' \subseteq stray
  BY DEF IInv, TypeOK, LateWrite
<1> QED
  BY <1>1, <1>2, <1>3, WrittenFacts, StoreStep

LEMMA SaveFailsStep ==
    ASSUME IInv, NEW c \in Clients, NEW w \in Pending(c), SaveFails(c, w) PROVE IInv'
<1>1. w \in Writes /\ (w[1] = "meta" => Listed(w[3])) /\ request[c].kind # "upload"
  BY PendingFacts DEF SaveFails
<1>2. \A x \in Pending(c) : x[2] # EmptyKey
  <2>1. /\ request[c] \in Requests /\ Good(request[c])
    BY DEF IInv, TypeOK
  <2>2. \A k \in request[c].todo : request[c].stage \in {"data", "meta"} => k # EmptyKey
    BY <1>1, <2>1, KeyAssumption DEF Good, Requests
  <2> QED
    BY <2>2 DEF Pending
<1>3. stray' \subseteq stray \cup {x \in UNION {Pending(y) : y \in Clients} : x[2] # EmptyKey}
  BY <1>2 DEF SaveFails
<1>4. /\ meta' \in [Images -> Seq(Versions) \cup {Nil}]
      /\ data' \in [Keys -> Pictures \cup {Nil}]
      /\ \A k \in Keys : data[k] # Nil => data'[k] # Nil
      /\ (\A i \in Images : meta[i] # Nil => Listed(meta[i]))'
  <2>1. CASE Written(w)
    BY <1>1, <2>1, WrittenFacts
  <2>2. CASE UNCHANGED <<meta, data>>
    BY <2>2 DEF IInv, TypeOK, Listed
  <2> QED
    BY <2>1, <2>2 DEF SaveFails
<1>5. request' = [request EXCEPT ![c] = Idle]
  BY DEF SaveFails, Refuse
<1>6. request' \in [Clients -> Requests]
  BY <1>5, IdleFacts DEF IInv, TypeOK
<1>7. ASSUME NEW x \in Clients PROVE Good(request[x])'
  <2>1. CASE x = c
    <3>1. request'[x] = Idle
      BY <1>5, <2>1 DEF IInv, TypeOK
    <3> QED
      BY <1>4, <3>1, IdleFacts DEF Good, Backed
  <2>2. CASE x # c
    BY <1>4, <1>5, <2>2, OthersKept DEF IInv, TypeOK
  <2> QED
    BY <2>1, <2>2
<1> QED
  BY <1>3, <1>4, <1>6, <1>7, StoreStep

(* A request that is answered holds nothing any more. *)
LEMMA AnsweredFacts ==
    ASSUME NEW r \in Requests, r.kind # "upload"
    PROVE  Answered(r) \in Requests /\ Good(Answered(r))
<1>1. r.kind \in {"none", "get", "batch"} /\ r.asks \in Seq(Descriptors)
  BY DEF Requests
<1>2. /\ Begun(r.kind, r.asks) \in Requests
      /\ Good([Begun(r.kind, r.asks) EXCEPT !.stage = "answered"])
  BY <1>1, BegunFacts
<1>3. Answered(r) \in Requests
  BY <1>2 DEF Answered, Requests
<1>4. Good(Answered(r))
  <2>1. /\ Answered(r).kind = r.kind /\ Answered(r).stage = "answered"
        /\ Answered(r).changed = {} /\ Answered(r).fresh[EmptyKey] = Nil
        /\ \A i \in Images : Answered(r).images[i] = Nil
    BY DEF Answered, Begun, NoImages, NoBlobs, BlobKeys
  <2> QED
    BY <1>1, <2>1 DEF Good
<1> QED
  BY <1>3, <1>4

(* An acknowledged write: when all blobs are there, the documents follow. *)
LEMMA SavedFacts ==
    ASSUME NEW r \in Requests, Good(r), r.kind # "upload", r.stage \in {"data", "meta"},
           NEW key \in r.todo, \A k \in Keys : data[k] # Nil => data'[k] # Nil,
           r.stage = "data" => data'[key] # Nil
    PROVE  Saved(r, key) \in Requests /\ Good(Saved(r, key))'
<1> DEFINE left == [r EXCEPT !.todo = @ \ {key}]
<1>1. left \in Requests
  BY DEF Requests
<1>2. Good(left)'
  BY DEF Good, Backed, Requests
<1>3. CASE left.todo # {}
  BY <1>1, <1>2, <1>3 DEF Saved
<1>4. CASE left.todo = {} /\ r.stage = "data"
  <2>1. Saved(r, key) = [left EXCEPT !.stage = "meta", !.todo = left.changed]
    BY <1>4 DEF Saved, Saving, SaveOrder
  <2>2. \A k \in Keys : left.fresh[k] # Nil => data'[k] # Nil
    BY <1>2, <1>4 DEF Good, Requests
  <2>3. [left EXCEPT !.stage = "meta", !.todo = left.changed] \in Requests
    BY <1>1 DEF Requests
  <2>4. Good([left EXCEPT !.stage = "meta", !.todo = left.changed])'
    BY <1>1, <1>2, <2>2 DEF Good, Backed, Requests
  <2> QED
    BY <2>1, <2>3, <2>4
<1>5. CASE left.todo = {} /\ r.stage = "meta"
  <2>1. Saved(r, key) = Answered(left)
    BY <1>5 DEF Saved, SaveOrder
  <2>2. Answered(left) \in Requests /\ Good(Answered(left))
    BY <1>1, AnsweredFacts DEF Requests
  <2>3. Good(Answered(left))'
    BY <2>2 DEF Good, Backed
  <2> QED
    BY <2>1, <2>2, <2>3
<1> QED
  BY <1>3, <1>4, <1>5

LEMMA SaveStep == ASSUME IInv, NEW c \in Clients, NEW w \in Pending(c), Save(c, w) PROVE IInv'
<1>1. /\ w \in Writes /\ (w[1] = "meta" => Listed(w[3])) /\ Written(w)
      /\ request[c].kind # "upload" /\ w[1] = request[c].stage /\ w[2] \in request[c].todo
      /\ request[c].stage \in {"data", "meta"}
  BY PendingFacts DEF Save, Pending
<1>2. request[c] \in Requests /\ Good(request[c])
  BY DEF IInv, TypeOK
<1>3. /\ \A k \in Keys : data[k] # Nil => data'[k] # Nil
      /\ w[1] = "data" => data'[w[2]] # Nil
  BY <1>1, WrittenFacts
<1>4. PICK s : s = Saved(request[c], w[2])
  OBVIOUS
<1>5. s \in Requests /\ Good(s)'
  BY <1>1, <1>2, <1>3, <1>4, SavedFacts
<1>6. request' = [request EXCEPT ![c] = s] /\ stray' = stray
  BY <1>4 DEF Save
<1>7. ASSUME NEW x \in Clients PROVE Good(request[x])'
  <2>1. CASE x = c
    <3>1. request'[x] = s
      BY <1>6, <2>1 DEF IInv, TypeOK
    <3> QED
      BY <1>5, <3>1 DEF Good, Backed
  <2>2. CASE x # c
    BY <1>3, <1>6, <2>2, OthersKept DEF IInv, TypeOK
  <2> QED
    BY <2>1, <2>2
<1>8. request' \in [Clients -> Requests]
  BY <1>5, <1>6 DEF IInv, TypeOK
<1> QED
  BY <1>1, <1>6, <1>7, <1>8, WrittenFacts, StoreStep

-----------------------------------------------------------------------------
(* The steps of a request until it saves. *)
LEMMA BeginStep ==
    ASSUME IInv, NEW c \in Clients, NEW kind \in {"get", "batch"},
           NEW asks \in Seq(Descriptors) \ {<<>>}, Begin(c, kind, asks)
    PROVE  IInv'
<1>1. PICK s : s = Begun(kind, asks)
  OBVIOUS
<1>2. s \in Requests /\ Good(s)
  BY <1>1, BegunFacts
<1> QED
  BY <1>1, <1>2, RequestStep DEF Begin

LEMMA FindStep == ASSUME IInv, NEW c \in Clients, NEW i \in Images, Find(c, i) PROVE IInv'
<1>1. PICK found \in {meta[i], Nil} :
        request' = [request EXCEPT ![c].todo = @ \ {i}, ![c].images[i] = found]
  BY DEF Find
<1>2. PICK r : r = request[c]
  OBVIOUS
<1>3. PICK s : s = [r EXCEPT !.todo = @ \ {i}, !.images[i] = found]
  OBVIOUS
<1>4. request' = [request EXCEPT ![c] = s]
  BY <1>1, <1>2, <1>3 DEF IInv, TypeOK
<1>5. r \in Requests /\ Good(r) /\ r.stage = "find" /\ r.kind # "upload"
  BY <1>2 DEF IInv, TypeOK, Find, Good
<1>6. found # Nil => found \in Seq(Versions) /\ Listed(found)
  BY <1>1 DEF IInv, TypeOK
<1>7. s \in Requests
  BY <1>3, <1>5, <1>6 DEF Requests
<1>8. Good(s)
  <2>1. /\ s.kind = r.kind /\ s.stage = r.stage /\ s.asks = r.asks /\ s.next = r.next
        /\ s.fresh = r.fresh /\ s.changed = r.changed /\ s.images = [r.images EXCEPT ![i] = found]
    BY <1>3, <1>5 DEF Requests
  <2>2. ASSUME NEW j \in Images, s.images[j] # Nil PROVE Backed(s, s.images[j])
    <3>1. CASE j = i
      <4>1. s.images[j] = found /\ Listed(found)
        BY <1>5, <1>6, <2>1, <2>2, <3>1 DEF Requests
      <4> QED
        BY <4>1 DEF Backed, Listed
    <3>2. CASE j # i
      <4>1. s.images[j] = r.images[j]
        BY <1>5, <2>1, <3>2 DEF Requests
      <4>2. Backed(r, r.images[j])
        BY <1>5, <2>2, <4>1 DEF Good
      <4> QED
        BY <2>1, <4>1, <4>2 DEF Backed
    <3> QED
      BY <3>1, <3>2
  <2>3. r.changed = {}
    BY <1>5 DEF Good
  <2> QED
    BY <1>5, <2>1, <2>2, <2>3 DEF Good
<1> QED
  BY <1>4, <1>7, <1>8, RequestStep DEF Find

(* What a VersionRequest names: the first original, or a version that fits. *)
LEMMA VersionRequestFacts ==
    ASSUME NEW versions \in Seq(Versions), OneOriginal(versions), NEW d \in Descriptors
    PROVE  LET w == VersionRequest(versions, d)
           IN  /\ w \in Wants
               /\ \E m \in DOMAIN versions :
                    /\ versions[m].original
                    /\ w.type = IF d.type = AnyType THEN versions[m].type ELSE d.type
                    /\ d.original => w.source = versions[m] /\ w.exact
                    /\ ~w.exact => /\ w.source = versions[m] /\ ~d.original
                                   /\ \A n \in DOMAIN versions :
                                        ~(versions[n].box = d.box /\ versions[n].type = w.type)
               /\ \E n \in DOMAIN versions :
                    /\ w.source = versions[n]
                    /\ w.exact /\ ~d.original => versions[n].box = d.box /\ versions[n].type = w.type
<1>1. PICK m : m = SelectInSeq(versions, LAMBDA v : v.original)
  OBVIOUS
<1>2. m \in DOMAIN versions /\ versions[m].original /\ versions[m] \in Versions
  BY <1>1, OriginalFound
<1>3. PICK type : type = IF d.type = AnyType THEN versions[m].type ELSE d.type
  OBVIOUS
<1>4. type \in Types
  BY <1>2, <1>3 DEF Versions, Descriptors
<1> DEFINE S == {x \in 1 .. Len(versions) : versions[x].box = d.box /\ versions[x].type = type}
<1>5. PICK n : n = IF S # {} THEN Min(S) ELSE 0
  OBVIOUS
<1>6. /\ n # 0 => n \in DOMAIN versions /\ versions[n].box = d.box /\ versions[n].type = type
      /\ n = 0 => \A x \in DOMAIN versions : ~(versions[x].box = d.box /\ versions[x].type = type)
  <2>1. S # {} => Min(S) \in S
    <3>1. S \in SUBSET Nat
      OBVIOUS
    <3> HIDE DEF S
    <3> QED
      BY <3>1, MinFacts
  <2> QED
    BY <1>5, <2>1
<1>7. PICK w : w = VersionRequest(versions, d)
  OBVIOUS
<1>8. w = IF ~d.original /\ n # 0
            THEN [type |-> type, exact |-> TRUE, source |-> versions[n]]
            ELSE [type |-> type, exact |-> d.original, source |-> versions[m]]
  BY <1>1, <1>3, <1>5, <1>7 DEF VersionRequest, SelectInSeq
<1>9. d.original \in BOOLEAN
  BY DEF Descriptors
<1>10. w \in Wants
  BY <1>2, <1>4, <1>6, <1>8, <1>9 DEF Wants
<1>11. CASE ~d.original /\ n # 0
  BY <1>2, <1>3, <1>6, <1>7, <1>8, <1>10, <1>11
<1>12. CASE d.original \/ n = 0
  BY <1>2, <1>3, <1>6, <1>7, <1>8, <1>9, <1>10, <1>12
<1> QED
  BY <1>11, <1>12

LEMMA ChooseStep == ASSUME IInv, NEW c \in Clients, Choose(c) PROVE IInv'
<1>1. PICK r : r = request[c]
  OBVIOUS
<1>2. r \in Requests /\ Good(r) /\ r.stage = "find" /\ r.kind # "upload" /\ r.todo = {}
  BY <1>1 DEF IInv, TypeOK, Choose, Good
<1>3. CASE \E d \in Range(r.asks) : r.images[d.image] = Nil
  BY <1>1, <1>3, MissingStep DEF Choose
<1>4. CASE \A d \in Range(r.asks) : r.images[d.image] # Nil
  <2>1. PICK s : s = [r EXCEPT !.stage = "fetch", !.wanted = Wanted(r),
                               !.todo = {Wanted(r)[d.image].source.key : d \in Range(r.asks)}]
    OBVIOUS
  <2>2. request' = [request EXCEPT ![c] = s] /\ UNCHANGED <<meta, data, stray>>
    BY <1>1, <1>4, <2>1 DEF Choose
  <2>3. \A d \in Range(r.asks) : d \in Descriptors /\ d.image \in Images
    <3>1. r.asks \in Seq(Descriptors)
      BY <1>2 DEF Requests
    <3>2. \A d \in Range(r.asks) : d \in Descriptors
      BY <3>1 DEF Range
    <3> QED
      BY <3>2 DEF Descriptors
  <2>4. ASSUME NEW d \in Range(r.asks) PROVE Wanted(r)[d.image] \in Wants
    <3>1. r.images[d.image] \in Seq(Versions) /\ OneOriginal(r.images[d.image])
      BY <1>2, <1>4, <2>3 DEF Good, Backed, Requests
    <3> DEFINE S == {m \in 1 .. Len(r.asks) : r.asks[m].image = d.image}
    <3>2. PICK n : n = Min(S)
      OBVIOUS
    <3>3. n \in S /\ r.asks[n] \in Descriptors
      <4>1. r.asks \in Seq(Descriptors)
        BY <1>2 DEF Requests
      <4>2. S \in SUBSET Nat /\ S # {}
        BY <4>1 DEF Range
      <4>3. Min(S) \in S
        BY <4>2, MinFacts
      <4>4. \A m \in 1 .. Len(r.asks) : r.asks[m] \in Descriptors
        BY <4>1
      <4> QED
        BY <3>2, <4>3, <4>4
    <3>4. VersionRequest(r.images[d.image], r.asks[n]) \in Wants
      BY <3>1, <3>3, VersionRequestFacts
    <3>5. Wanted(r)[d.image] = VersionRequest(r.images[d.image], r.asks[n])
      BY <2>3, <3>2, <3>3 DEF Wanted, SelectInSeq
    <3> QED
      BY <3>4, <3>5
  <2>5. s \in Requests
    <3>1. Wanted(r) \in [Images -> Wants \cup {Nil}]
      <4>1. ASSUME NEW i \in Images PROVE Wanted(r)[i] \in Wants \cup {Nil}
        <5>1. CASE \A d \in Range(r.asks) : d.image # i
          BY <5>1 DEF Wanted
        <5> QED
          BY <2>4, <5>1
      <4> QED
        BY <4>1 DEF Wanted
    <3>2. {Wanted(r)[d.image].source.key : d \in Range(r.asks)} \subseteq BlobKeys
      BY <2>4 DEF Wants, Versions
    <3> QED
      BY <1>2, <2>1, <3>1, <3>2 DEF Requests
  <2>6. Good(s)
    <3>1. /\ s.stage = "fetch" /\ s.wanted = Wanted(r) /\ s.next = 1 /\ s.asks = r.asks /\ r.asks # <<>>
          /\ s.images = r.images /\ s.fresh = r.fresh /\ s.changed = r.changed /\ s.kind = r.kind
      BY <1>2, <2>1 DEF Good, Requests
    <3>2. 1 \in DOMAIN r.asks
      <4>1. r.asks \in Seq(Descriptors)
        BY <1>2 DEF Requests
      <4> QED
        BY <3>1, <4>1
    <3>3. \A d \in Range(r.asks) : Wanted(r)[d.image] # Nil
      BY <2>4, KeyAssumption DEF Wants
    <3> QED
      BY <1>2, <1>4, <3>1, <3>2, <3>3 DEF Good, Backed
  <2> QED
    BY <2>2, <2>5, <2>6, RequestStep
<1> QED
  BY <1>3, <1>4

LEMMA FetchStep == ASSUME IInv, NEW c \in Clients, NEW k \in Keys, Fetch(c, k) PROVE IInv'
<1>1. PICK found \in {data[k], Nil} :
        request' = [request EXCEPT ![c].todo = @ \ {k}, ![c].blobs[k] = found]
  BY DEF Fetch
<1>2. PICK r : r = request[c]
  OBVIOUS
<1>3. PICK s : s = [r EXCEPT !.todo = @ \ {k}, !.blobs[k] = found]
  OBVIOUS
<1>4. request' = [request EXCEPT ![c] = s]
  BY <1>1, <1>2, <1>3 DEF IInv, TypeOK
<1>5. r \in Requests /\ Good(r) /\ r.stage = "fetch" /\ r.kind # "upload"
  BY <1>2 DEF IInv, TypeOK, Fetch, Good
<1>6. found \in Pictures \cup {Nil}
  BY <1>1 DEF IInv, TypeOK
<1>7. s \in Requests
  BY <1>3, <1>5, <1>6 DEF Requests
<1>8. /\ s.kind = r.kind /\ s.stage = r.stage /\ s.asks = r.asks /\ s.next = r.next
      /\ s.fresh = r.fresh /\ s.changed = r.changed /\ s.images = r.images /\ s.wanted = r.wanted
  BY <1>3, <1>5 DEF Requests
<1>9. Good(s)
  BY <1>5, <1>8 DEF Good, Backed
<1> QED
  BY <1>4, <1>7, <1>9, RequestStep DEF Fetch

(* One more version keeps the one original, and is backed by its picture. *)
LEMMA KeptFacts ==
    ASSUME NEW r \in Requests, Good(r), r.stage = "fetch", NEW d \in Range(r.asks),
           NEW picture \in Pictures, NEW wanted \in Wants
    PROVE  LET s == Kept(r, d, NewVersion(wanted, d), picture)
           IN  s \in Requests /\ Good(s)
<1> DEFINE version == NewVersion(wanted, d)
           i == d.image
<1>1. PICK s : s = Kept(r, d, version, picture)
  OBVIOUS
<1>2. d \in Descriptors /\ i \in Images /\ d.box \in Boxes
  <2>1. r.asks \in Seq(Descriptors)
    BY DEF Requests
  <2>2. d \in Descriptors
    BY <2>1 DEF Range
  <2> QED
    BY <2>2 DEF Descriptors
<1>3. /\ version \in Versions /\ version.key \in Keys /\ version.original = FALSE
      /\ picture # Nil
  BY <1>2, KeyAssumption DEF NewVersion, Version, Versions, Wants, Keys, BlobKeys
<1>4. r.kind # "upload" /\ r.images[i] # Nil /\ r.images[i] \in Seq(Versions)
  BY <1>2 DEF Good, Requests
<1>5. PICK list : list = Append(r.images[i], version)
  OBVIOUS
<1> HIDE DEF version, i
<1>6. list \in Seq(Versions)
  BY <1>3, <1>4, <1>5
<1>7. s = [r EXCEPT !.images[i] = list, !.changed = @ \cup {i}, !.fresh[version.key] = picture]
  BY <1>1, <1>5 DEF Kept, i
<1>8. s \in Requests
  BY <1>2, <1>3, <1>6, <1>7 DEF Requests, BlobKeys
<1>9. /\ s.kind = r.kind /\ s.stage = r.stage /\ s.asks = r.asks /\ s.next = r.next
      /\ s.wanted = r.wanted /\ s.changed = r.changed \cup {i}
      /\ s.images = [r.images EXCEPT ![i] = list]
      /\ s.fresh = [r.fresh EXCEPT ![version.key] = picture]
      /\ r.images \in [Images -> Seq(Versions) \cup {Nil}]
      /\ r.fresh \in [BlobKeys -> Pictures \cup {Nil}] /\ r.changed \subseteq Images
  BY <1>7 DEF Requests
<1>10. s.fresh[EmptyKey] = Nil
  BY <1>3, <1>4, <1>9, KeyAssumption DEF Good, BlobKeys
<1>11. \A k \in Keys : r.fresh[k] # Nil \/ k = version.key => s.fresh[k] # Nil
  BY <1>3, <1>9 DEF BlobKeys
<1>12. ASSUME NEW j \in Images, s.images[j] # Nil PROVE Backed(s, s.images[j])
  <2>1. CASE j # i
    <3>1. s.images[j] = r.images[j]
      BY <1>9, <2>1
    <3>2. Backed(r, r.images[j])
      BY <1>4, <1>12, <3>1 DEF Good
    <3> QED
      BY <1>9, <1>11, <3>1, <3>2 DEF Backed
  <2>2. CASE j = i
    <3>1. s.images[j] = list /\ Backed(r, r.images[i])
      BY <1>2, <1>4, <1>9, <2>2 DEF Good
    <3>2. OneOriginal(list)
      <4>1. PICK n \in DOMAIN r.images[i] : \A m \in DOMAIN r.images[i] :
                                             r.images[i][m].original <=> m = n
        BY <3>1 DEF Backed, OneOriginal
      <4>2. /\ DOMAIN r.images[i] = 1 .. Len(r.images[i])
            /\ DOMAIN list = 1 .. Len(r.images[i]) + 1
            /\ \A m \in 1 .. Len(r.images[i]) : list[m] = r.images[i][m]
            /\ list[Len(r.images[i]) + 1] = version
        BY <1>3, <1>4, <1>5
      <4>3. ASSUME NEW m \in DOMAIN list PROVE list[m].original <=> m = n
        <5>1. CASE m \in DOMAIN r.images[i]
          BY <4>1, <4>2, <5>1
        <5>2. CASE m \notin DOMAIN r.images[i]
          <6>1. list[m] = version /\ m # n
            BY <4>2, <5>2
          <6> QED
            BY <1>3, <6>1
        <5> QED
          BY <5>1, <5>2
      <4>4. n \in DOMAIN list
        BY <4>2
      <4> QED
        BY <4>3, <4>4 DEF OneOriginal
    <3>3. ASSUME NEW n \in DOMAIN list
          PROVE  list[n].key \in Keys /\ (data[list[n].key] # Nil \/ s.fresh[list[n].key] # Nil)
      <4>1. CASE n \in DOMAIN r.images[i]
        <5>1. list[n] = r.images[i][n]
          BY <1>3, <1>4, <1>5, <4>1
        <5> QED
          BY <1>11, <3>1, <4>1, <5>1 DEF Backed
      <4>2. CASE n \notin DOMAIN r.images[i]
        <5>1. list[n] = version
          BY <1>3, <1>4, <1>5, <4>2
        <5> QED
          BY <1>3, <1>11, <5>1
      <4> QED
        BY <4>1, <4>2
    <3> QED
      BY <1>9, <3>1, <3>2, <3>3 DEF Backed
  <2> QED
    BY <2>1, <2>2
<1>13. \A j \in Images : r.images[j] # Nil \/ j = i => s.images[j] # Nil
  BY <1>6, <1>9, KeyAssumption
<1>14. \A j \in s.changed : s.images[j] # Nil
  BY <1>2, <1>4, <1>9, <1>13 DEF Good
<1>15. \A x \in Range(s.asks) : s.images[x.image] # Nil /\ s.wanted[x.image] # Nil
  <2>1. r.asks \in Seq(Descriptors)
    BY DEF Requests
  <2>2. \A x \in Range(r.asks) : x \in Descriptors
    BY <2>1 DEF Range
  <2> QED
    BY <1>4, <1>9, <1>13, <2>2 DEF Good, Descriptors
<1>16. Good(s)
  BY <1>4, <1>9, <1>10, <1>12, <1>14, <1>15 DEF Good
<1> QED
  BY <1>1, <1>8, <1>16 DEF version

(* A turn of the loop. *)
LEMMA TurnedFacts ==
    ASSUME NEW r \in Requests, Good(r), r.stage = "fetch",
           r.blobs[r.wanted[r.asks[r.next].image].source.key] # Nil
    PROVE  LET t == Turned(r, r.asks[r.next])
               s == Looped(t)
           IN  t \in Requests /\ s \in Requests /\ Good(s)
<1>1. PICK d : d = r.asks[r.next]
  OBVIOUS
<1>2. d \in Range(r.asks) /\ d \in Descriptors /\ r.kind # "upload" /\ d.image \in Images
  <2>1. r.asks \in Seq(Descriptors) /\ r.next \in DOMAIN r.asks /\ r.kind # "upload"
    BY DEF Requests, Good
  <2>2. d \in Range(r.asks) /\ d \in Descriptors
    BY <1>1, <2>1, ElementFacts
  <2> QED
    BY <2>1, <2>2 DEF Descriptors
<1>3. PICK wanted : wanted = r.wanted[d.image]
  OBVIOUS
<1>4. wanted \in Wants
  <2>1. r.wanted[d.image] # Nil
    BY <1>2 DEF Good
  <2> QED
    BY <1>2, <1>3, <2>1, RequestFields
<1>5. PICK source : source = r.blobs[wanted.source.key]
  OBVIOUS
<1>6. source \in Pictures
  <2>1. wanted.source.key \in BlobKeys
    BY <1>4 DEF Wants, Versions
  <2> QED
    BY <1>1, <1>3, <1>5, <2>1 DEF Requests
<1>7. PICK picture : picture = Picked(source, wanted, d)
  OBVIOUS
<1>8. picture \in Pictures
  BY <1>2, <1>4, <1>6, <1>7 DEF Picked, Fit, Picture, Pictures, Wants, Descriptors
<1>9. PICK kept : kept = IF d.save /\ ~wanted.exact
                           THEN Kept(r, d, NewVersion(wanted, d), picture) ELSE r
  OBVIOUS
<1>10. kept \in Requests /\ Good(kept)
  BY <1>2, <1>4, <1>8, <1>9, KeptFacts
<1>11. kept.stage = "fetch" /\ kept.kind = r.kind /\ kept.asks = r.asks /\ kept.next = r.next
  BY <1>9 DEF Kept, Requests
<1>12. PICK t : t = [kept EXCEPT !.answer[d.image] = picture, !.next = @ + 1]
  OBVIOUS
<1>13. t \in Requests
  <2>1. kept.next + 1 \in Nat \ {0}
    <3>1. kept.next \in Nat
      BY <1>10, RequestFields
    <3> QED
      BY <3>1, NextFacts
  <2>2. [kept.answer EXCEPT ![d.image] = picture] \in [Images -> Pictures \cup {Nil}]
    BY <1>8, <1>10 DEF Requests
  <2>3. t = [[kept EXCEPT !.answer = [kept.answer EXCEPT ![d.image] = picture]] EXCEPT !.next = kept.next + 1]
    BY <1>10, <1>12 DEF Requests
  <2> QED
    BY <1>10, <2>1, <2>2, <2>3 DEF Requests
<1>14. /\ t.kind = kept.kind /\ t.stage = kept.stage /\ t.asks = kept.asks /\ t.next = kept.next + 1
       /\ t.fresh = kept.fresh /\ t.changed = kept.changed /\ t.images = kept.images
       /\ t.wanted = kept.wanted
  BY <1>10, <1>12 DEF Requests
<1>15. t = Turned(r, r.asks[r.next])
  BY <1>1, <1>3, <1>5, <1>7, <1>9, <1>12 DEF Turned
<1>16. CASE t.next <= Len(t.asks)
  <2>1. t.next \in DOMAIN t.asks
    <3>1. t.asks \in Seq(Descriptors) /\ t.next \in Nat \ {0}
      BY <1>13, RequestFields
    <3> QED
      BY <1>16, <3>1, IndexFacts
  <2>2. \A i \in Images : Backed(kept, kept.images[i]) => Backed(t, t.images[i])
    BY <1>14 DEF Backed
  <2>3. Good(t)
    BY <1>2, <1>10, <1>11, <1>14, <2>1, <2>2 DEF Good
  <2> QED
    BY <1>13, <1>15, <1>16, <2>3 DEF Looped
<1>17. CASE ~(t.next <= Len(t.asks)) /\ t.changed = {}
  <2>1. Looped(t) = Answered(t)
    BY <1>17 DEF Looped
  <2>2. t.kind # "upload"
    BY <1>2, <1>11, <1>14
  <2> QED
    BY <1>13, <1>15, <2>1, <2>2, AnsweredFacts
<1>18. CASE ~(t.next <= Len(t.asks)) /\ t.changed # {}
  <2>1. PICK s : s = [t EXCEPT !.wanted = NoImages, !.blobs = NoBlobs, !.stage = "data",
                               !.todo = {k \in BlobKeys : t.fresh[k] # Nil}]
    OBVIOUS
  <2>2. s = Looped(t)
    BY <1>13, <1>18, <2>1 DEF Looped, Saving, SaveOrder, Requests
  <2>3. s \in Requests
    BY <1>13, <2>1 DEF Requests, NoImages, NoBlobs
  <2>4. /\ s.kind = t.kind /\ s.stage = "data" /\ s.fresh = t.fresh /\ s.changed = t.changed
        /\ s.images = t.images /\ s.todo = {k \in BlobKeys : t.fresh[k] # Nil}
    BY <1>13, <2>1 DEF Requests
  <2>5. \A i \in Images : Backed(kept, kept.images[i]) => Backed(s, s.images[i])
    BY <1>14, <2>4 DEF Backed
  <2>6. s.fresh[EmptyKey] = Nil /\ s.todo = {k \in Keys : s.fresh[k] # Nil}
    BY <1>2, <1>10, <1>11, <1>14, <2>4 DEF Good, BlobKeys
  <2>7. s.kind # "upload" /\ s.stage = "data" /\ s.images = kept.images /\ s.changed = kept.changed
    BY <1>2, <1>11, <1>14, <2>4
  <2>8. /\ \A i \in Images : s.images[i] # Nil => Backed(s, s.images[i])
        /\ \A i \in s.changed : s.images[i] # Nil
    BY <1>10, <1>11, <1>2, <2>5, <2>7 DEF Good
  <2>9. Good(s)
    BY <2>6, <2>7, <2>8 DEF Good
  <2> QED
    BY <1>13, <1>15, <2>2, <2>3, <2>9
<1> QED
  BY <1>13, <1>15, <1>16, <1>17, <1>18

LEMMA RenderStep == ASSUME IInv, NEW c \in Clients, Render(c) PROVE IInv'
<1>1. PICK r : r = request[c]
  OBVIOUS
<1>2. r \in Requests /\ Good(r) /\ r.stage = "fetch"
  BY <1>1 DEF IInv, TypeOK, Render
<1>3. CASE r.blobs[r.wanted[r.asks[r.next].image].source.key] = Nil
  BY <1>1, <1>3, MissingStep DEF Render
<1>4. CASE r.blobs[r.wanted[r.asks[r.next].image].source.key] # Nil
  <2>1. PICK s : s = Looped(Turned(r, r.asks[r.next]))
    OBVIOUS
  <2>2. s \in Requests /\ Good(s)
    BY <1>2, <1>4, <2>1, TurnedFacts
  <2>3. /\ UNCHANGED <<meta, data, stray>>
        /\ request' = [request EXCEPT ![c] = s] \/ Refuse(c)
    BY <1>1, <1>4, <2>1 DEF Render
  <2> QED
    BY <2>2, <2>3, RefuseStep, RequestStep
<1> QED
  BY <1>3, <1>4

(* An uploaded image and its version have their types. *)
LEMMA PrimaryFacts ==
    ASSUME NEW i \in Images
    PROVE  /\ Primary(i) \in Versions /\ Primary(i).original = TRUE
           /\ Primary(i).key \in Keys /\ Primary(i).key[1] = i
           /\ Upload(i) \in Pictures /\ Upload(i) # Nil
<1>1. <<i, OriginalBox, OriginalType[i]>> \in Keys
  BY AskAssumption DEF Keys
<1>2. Primary(i) = [key |-> <<i, OriginalBox, OriginalType[i]>>, box |-> OriginalBox,
                    type |-> OriginalType[i], original |-> TRUE]
  BY DEF Primary, Version
<1>3. Primary(i) \in Versions
  BY <1>1, <1>2, AskAssumption DEF Versions, BlobKeys
<1>4. Upload(i) \in Pictures
  BY AskAssumption DEF Upload, Picture, Pictures
<1> QED
  BY <1>1, <1>2, <1>3, <1>4, KeyAssumption

LEMMA NewImageStep ==
    ASSUME IInv, NEW c \in Clients, NEW i \in Images, NewImage(c, i) PROVE IInv'
<1>1. PICK b : b = Begun("upload", <<>>)
  OBVIOUS
<1>2. PICK list : list = <<Primary(i), [Primary(i) EXCEPT !.key = EmptyKey]>>
  OBVIOUS
<1>3. PICK u : u = [b EXCEPT !.images[i] = list, !.changed = {i}, !.fresh[EmptyKey] = Upload(i)]
  OBVIOUS
<1>4. PICK s : s = Saving(u, "data")
  OBVIOUS
<1>5. list \in Seq(Versions) /\ Upload(i) \in Pictures
  <2>1. Primary(i) \in Versions /\ [Primary(i) EXCEPT !.key = EmptyKey] \in Versions
    BY PrimaryFacts DEF Versions, BlobKeys
  <2>2. \A v, w \in Versions : <<v, w>> \in Seq(Versions)
    OBVIOUS
  <2> QED
    BY <1>2, <2>1, <2>2, PrimaryFacts
<1>6. b \in Requests /\ b.fresh = NoBlobs /\ b.kind = "upload"
  BY <1>1 DEF Begun, Requests, NoImages, NoBlobs, Range
<1>7. u \in Requests /\ u.kind = "upload" /\ u.fresh = [NoBlobs EXCEPT ![EmptyKey] = Upload(i)]
  BY <1>3, <1>5, <1>6 DEF Requests, BlobKeys
<1>8. {k \in BlobKeys : u.fresh[k] # Nil} = {EmptyKey}
  <2>1. Upload(i) # Nil
    BY <1>5, KeyAssumption
  <2> QED
    BY <1>7, <2>1 DEF NoBlobs, BlobKeys
<1>9. s = [u EXCEPT !.stage = "data", !.todo = {EmptyKey}]
  BY <1>4, <1>8 DEF Saving
<1>10. s \in Requests /\ Good(s)
  BY <1>7, <1>9 DEF Requests, BlobKeys, Good
<1>11. request' = [request EXCEPT ![c] = s] /\ UNCHANGED <<meta, data, stray>>
  BY <1>1, <1>2, <1>3, <1>4 DEF NewImage
<1> QED
  BY <1>10, <1>11, RequestStep

-----------------------------------------------------------------------------
(* The buckets start with whole images, and no request is under way. *)
LEMMA Initial == Init => IInv
<1> SUFFICES ASSUME Init PROVE IInv
  OBVIOUS
<1>1. PICK S \in SUBSET Images :
         /\ meta = [i \in Images |-> IF i \in S THEN <<Primary(i)>> ELSE Nil]
         /\ data = [k \in Keys |-> IF k[1] \in S /\ k = Primary(k[1]).key
                                      THEN Upload(k[1]) ELSE Nil]
  BY DEF Init
<1>2. ASSUME NEW i \in Images
      PROVE  /\ <<Primary(i)>> \in Seq(Versions) /\ Upload(i) \in Pictures /\ Upload(i) # Nil
             /\ Primary(i).key \in Keys /\ Primary(i).key[1] = i /\ Primary(i).original = TRUE
  <2>1. \A v \in Versions : <<v>> \in Seq(Versions)
    OBVIOUS
  <2> QED
    BY <2>1, PrimaryFacts
<1>3. stray = {} /\ request = [c \in Clients |-> Idle]
  BY DEF Init
<1>4. \A k \in Keys : k[1] \in Images
  BY DEF Keys
<1>5. TypeOK
  BY <1>1, <1>2, <1>3, <1>4, IdleFacts DEF TypeOK
<1>6. ASSUME NEW i \in Images, meta[i] # Nil PROVE Listed(meta[i])
  <2>1. meta[i] = <<Primary(i)>> /\ data[Primary(i).key] # Nil
    BY <1>1, <1>2, <1>6
  <2>2. \A v : DOMAIN <<v>> = {1} /\ <<v>>[1] = v
    OBVIOUS
  <2>3. PICK list : list = meta[i]
    OBVIOUS
  <2>4. DOMAIN list = {1} /\ list[1] = Primary(i)
    BY <2>1, <2>2, <2>3
  <2>5. OneOriginal(list)
    <3>1. list[1].original
      BY <1>2, <2>4
    <3>2. \A m \in DOMAIN list : list[m].original <=> m = 1
      BY <2>4, <3>1
    <3> QED
      BY <2>4, <3>2 DEF OneOriginal
  <2> QED
    BY <1>2, <2>1, <2>3, <2>4, <2>5 DEF Listed
<1> QED
  BY <1>3, <1>5, <1>6, IdleFacts DEF IInv

(* Every step preserves IInv. *)
THEOREM Inductive == IInv /\ [Next]_vars => IInv'
<1> SUFFICES ASSUME IInv, [Next]_vars PROVE IInv'
  OBVIOUS
<1>1. CASE UNCHANGED vars
  BY <1>1 DEF vars, IInv, TypeOK, Listed, Good, Backed
<1>2. ASSUME NEW c \in Clients, Step(c) PROVE IInv'
  <2>1. ASSUME Leave(c) PROVE IInv'
    BY <2>1, RefuseStep DEF Leave
  <2> QED
    BY <1>2, <2>1, FindStep, FetchStep, ChooseStep, RenderStep, SaveStep, SaveFailsStep DEF Step
<1>3. ASSUME NEW c \in Clients, NEW d \in Gets, GetImage(c, d) PROVE IInv'
  <2>1. <<d>> \in Seq(Descriptors) \ {<<>>}
    BY AskAssumption
  <2> QED
    BY <1>3, <2>1, BeginStep DEF GetImage
<1>4. ASSUME NEW c \in Clients, NEW asks \in Batches, GetImagesData(c, asks) PROVE IInv'
  BY <1>4, AskAssumption, BeginStep DEF GetImagesData
<1>5. CASE Crash
  BY <1>5, RestartStep DEF Crash
<1> QED
  BY <1>1, <1>2, <1>3, <1>4, <1>5, NewImageStep, LateWriteStep DEF Next

(* So it is an invariant. *)
THEOREM Invariance == Spec => []IInv
<1> QED
  BY Initial, Inductive, PTL DEF Spec

(* What is stored, on its way or held by a request keeps its type. *)
THEOREM TypeCorrect == Spec => []TypeOK
<1>1. IInv => TypeOK
  BY DEF IInv
<1> QED
  BY <1>1, Invariance, PTL

(* No document ever lists a version whose blob is missing, whatever fails,
   crashes or comes late: blobs are written first and are waited for.        *)
THEOREM NoneDangles == Spec => []NoDangling
<1>1. IInv => NoDangling
  BY DEF IInv, Listed, NoDangling
<1> QED
  BY <1>1, Invariance, PTL

(* A document, and a copy of it that a request reads through the unchecked
   iterator, lists exactly one original.                                     *)
THEOREM OriginalsKept == Spec => []OriginalListed
<1>1. IInv => OriginalListed
  BY DEF IInv, Listed, Good, Backed, OriginalListed
<1> QED
  BY <1>1, Invariance, PTL

-----------------------------------------------------------------------------
(* From here on, no batch names an image twice: what is stored, listed and
   answered is then what was asked for.                                      *)

(* A document names its versions after what they are and lists each once. *)
Genuine(i, versions) ==
    /\ \A n \in DOMAIN versions :
         LET v == versions[n]
         IN  /\ v.key = <<i, v.box, v.type>>
             /\ v.original <=> v.box = OriginalBox /\ v.type = OriginalType[i]
    /\ \A m, n \in DOMAIN versions : versions[m].key = versions[n].key => m = n

(* The picture that belongs under a key. *)
Proper(k) == Picture(k[1], k[2], k[3], k[2] = OriginalBox /\ k[3] = OriginalType[k[1]])

(* The VersionRequest of a descriptor: an exact version has what was asked
   for, and otherwise no version of the document has.                      *)
Suits(d, wanted, versions) ==
    /\ wanted.type = IF d.type = AnyType THEN OriginalType[d.image] ELSE d.type
    /\ wanted.source.key \in Keys /\ wanted.source.key[1] = d.image
    /\ d.original => wanted.exact /\ wanted.source.key = Primary(d.image).key
    /\ ~d.original /\ wanted.exact => wanted.source.key = <<d.image, d.box, wanted.type>>
    /\ ~wanted.exact =>
         /\ ~d.original
         /\ \A n \in DOMAIN versions : ~(versions[n].box = d.box /\ versions[n].type = wanted.type)

(* A request holds genuine documents and proper pictures; what it has answered
   fits, and what it is still to answer will.                                 *)
Sound(r) ==
    r.kind # "upload" =>
        /\ NamedOnce(r.asks)
        /\ \A i \in Images : r.images[i] # Nil => Genuine(i, r.images[i])
        /\ \A k \in Keys : /\ r.blobs[k] # Nil => r.blobs[k] = Proper(k)
                           /\ r.fresh[k] # Nil => r.fresh[k] = Proper(k)
        /\ r.stage = "fetch" =>
             \A n \in DOMAIN r.asks :
                 LET d == r.asks[n]
                 IN  IF n < r.next THEN Fits(d, r.answer[d.image])
                     ELSE Suits(d, r.wanted[d.image], r.images[d.image])
        /\ r.stage \in {"data", "meta", "answered"} =>
             \A d \in Range(r.asks) : Fits(d, r.answer[d.image])

True(w) == IF w[1] = "data" THEN w[3] = Proper(w[2]) ELSE Genuine(w[2], w[3])

OnceInv ==
    /\ \A k \in Keys : data[k] # Nil => data[k] = Proper(k)
    /\ \A i \in Images : meta[i] # Nil => Genuine(i, meta[i])
    /\ \A w \in stray : True(w)
    /\ \A c \in Clients : Sound(request[c])

LEMMA ProperFacts ==
    /\ \A k \in Keys : Proper(k).image = k[1] /\ Proper(k).box = k[2] /\ Proper(k).type = k[3]
    /\ \A i \in Images : Upload(i) = Proper(Primary(i).key)
<1>1. \A k \in Keys : Proper(k).image = k[1] /\ Proper(k).box = k[2] /\ Proper(k).type = k[3]
  BY DEF Proper, Picture
<1>2. \A i \in Images : Upload(i) = Proper(Primary(i).key)
  BY DEF Proper, Picture, Upload, Primary, Version
<1> QED
  BY <1>1, <1>2

(* A request that holds nothing is sound. *)
LEMMA IdleSound == Sound(Idle)
<1>1. /\ Idle.asks = <<>> /\ Idle.stage = "idle" /\ \A i \in Images : Idle.images[i] = Nil
      /\ \A k \in Keys : Idle.blobs[k] = Nil /\ Idle.fresh[k] = Nil
  BY DEF Idle, Begun, NoImages, NoBlobs, BlobKeys
<1> QED
  BY <1>1 DEF Sound, NamedOnce

LEMMA BegunSound ==
    ASSUME NEW kind, NEW asks, NamedOnce(asks)
    PROVE  Sound(Begun(kind, asks))
<1>1. PICK r : r = Begun(kind, asks)
  OBVIOUS
<1>2. /\ r.asks = asks /\ r.stage = "find" /\ \A i \in Images : r.images[i] = Nil
      /\ \A k \in Keys : r.blobs[k] = Nil /\ r.fresh[k] = Nil
  BY <1>1 DEF Begun, NoImages, NoBlobs, BlobKeys
<1> QED
  BY <1>1, <1>2 DEF Sound

LEMMA AnsweredSound ==
    ASSUME NEW r, NamedOnce(r.asks), \A d \in Range(r.asks) : Fits(d, r.answer[d.image])
    PROVE  Sound(Answered(r))
<1>1. PICK s : s = Answered(r)
  OBVIOUS
<1>2. /\ s.asks = r.asks /\ s.stage = "answered" /\ \A i \in Images : s.images[i] = Nil
      /\ \A k \in Keys : s.blobs[k] = Nil /\ s.fresh[k] = Nil
      /\ s.answer = r.answer
  BY <1>1 DEF Answered, Begun, NoImages, NoBlobs, BlobKeys
<1> QED
  BY <1>1, <1>2 DEF Sound

(* A step of one request that writes nothing. *)
LEMMA SoundStep ==
    ASSUME IInv, OnceInv, NEW c \in Clients, NEW r, Sound(r),
           request' = [request EXCEPT ![c] = r], UNCHANGED <<meta, data, stray>>
    PROVE  OnceInv'
BY DEF IInv, TypeOK, OnceInv, True, Sound

(* What a request has yet to write is true. *)
LEMMA PendingTrue ==
    ASSUME IInv, OnceInv, NEW c \in Clients, NEW w \in Pending(c), w[2] # EmptyKey
    PROVE  True(w)
<1>1. request[c] \in Requests /\ Good(request[c]) /\ Sound(request[c])
  BY DEF IInv, TypeOK, OnceInv
<1>2. PICK r : r = request[c]
  OBVIOUS
<1>3. /\ r.kind # "upload" /\ w[1] = r.stage /\ w[2] \in r.todo /\ w[1] \in {"data", "meta"}
      /\ w[1] = "data" => w[2] \in Keys /\ w[3] = r.fresh[w[2]]
      /\ w[1] = "meta" => w[2] \in Images /\ w[3] = r.images[w[2]]
  BY <1>2, PendingFacts DEF Pending
<1>4. CASE w[1] = "data"
  BY <1>1, <1>2, <1>3, <1>4 DEF Good, Sound, True
<1>5. CASE w[1] = "meta"
  BY <1>1, <1>2, <1>3, <1>5 DEF Good, Sound, True
<1> QED
  BY <1>3, <1>4, <1>5

(* A step that writes what is true, or leaves it behind. *)
LEMMA TrueStep ==
    ASSUME IInv, OnceInv,
           stray' \subseteq stray \cup {w \in UNION {Pending(c) : c \in Clients} : w[2] # EmptyKey},
           \/ UNCHANGED <<meta, data>>
           \/ \E w \in Writes : True(w) /\ Written(w),
           \A c \in Clients : Sound(request'[c])
    PROVE  OnceInv'
<1>1. \A w \in stray' : True(w)
  BY PendingTrue DEF OnceInv
<1>2. /\ \A k \in Keys : data'[k] # Nil => data'[k] = Proper(k)
      /\ \A i \in Images : meta'[i] # Nil => Genuine(i, meta'[i])
  <2>1. CASE UNCHANGED <<meta, data>>
    BY <2>1 DEF OnceInv
  <2>2. ASSUME NEW w \in Writes, True(w), Written(w)
        PROVE  /\ \A k \in Keys : data'[k] # Nil => data'[k] = Proper(k)
               /\ \A i \in Images : meta'[i] # Nil => Genuine(i, meta'[i])
    <3>1. CASE w[1] = "data"
      <4>1. w[2] \in Keys /\ data' = [data EXCEPT ![w[2]] = w[3]] /\ meta' = meta /\ w[3] = Proper(w[2])
        BY <2>2, <3>1 DEF Writes, Written, True
      <4> QED
        BY <4>1 DEF IInv, TypeOK, OnceInv
    <3>2. CASE w[1] = "meta"
      <4>1. w[2] \in Images /\ meta' = [meta EXCEPT ![w[2]] = w[3]] /\ data' = data /\ Genuine(w[2], w[3])
        BY <2>2, <3>2 DEF Writes, Written, True
      <4> QED
        BY <4>1 DEF IInv, TypeOK, OnceInv
    <3> QED
      BY <3>1, <3>2 DEF Writes
  <2> QED
    BY <2>1, <2>2
<1> QED
  BY <1>1, <1>2 DEF OnceInv, True, Sound

LEMMA SoundFind ==
    ASSUME IInv, OnceInv, NEW c \in Clients, NEW i \in Images, Find(c, i) PROVE OnceInv'
<1>1. PICK found \in {meta[i], Nil} :
        request' = [request EXCEPT ![c].todo = @ \ {i}, ![c].images[i] = found]
  BY DEF Find
<1>2. PICK r : r = request[c]
  OBVIOUS
<1>3. PICK s : s = [r EXCEPT !.todo = @ \ {i}, !.images[i] = found]
  OBVIOUS
<1>4. request' = [request EXCEPT ![c] = s]
  BY <1>1, <1>2, <1>3 DEF IInv, TypeOK
<1>5. r \in Requests /\ Sound(r) /\ r.stage = "find"
  BY <1>2 DEF IInv, TypeOK, Find, OnceInv
<1>6. found # Nil => Genuine(i, found)
  BY <1>1 DEF OnceInv
<1>7. /\ s.kind = r.kind /\ s.stage = "find" /\ s.asks = r.asks /\ s.blobs = r.blobs
      /\ s.fresh = r.fresh /\ s.images = [r.images EXCEPT ![i] = found]
      /\ r.images \in [Images -> Seq(Versions) \cup {Nil}]
  BY <1>3, <1>5 DEF Requests
<1>8. Sound(s)
  BY <1>5, <1>6, <1>7 DEF Sound
<1> QED
  BY <1>4, <1>8, SoundStep DEF Find

LEMMA SoundFetch ==
    ASSUME IInv, OnceInv, NEW c \in Clients, NEW k \in Keys, Fetch(c, k) PROVE OnceInv'
<1>1. PICK found \in {data[k], Nil} :
        request' = [request EXCEPT ![c].todo = @ \ {k}, ![c].blobs[k] = found]
  BY DEF Fetch
<1>2. PICK r : r = request[c]
  OBVIOUS
<1>3. PICK s : s = [r EXCEPT !.todo = @ \ {k}, !.blobs[k] = found]
  OBVIOUS
<1>4. request' = [request EXCEPT ![c] = s]
  BY <1>1, <1>2, <1>3 DEF IInv, TypeOK
<1>5. r \in Requests /\ Sound(r) /\ r.stage = "fetch" /\ r.kind # "upload"
  BY <1>2 DEF IInv, TypeOK, OnceInv, Fetch, Good
<1>6. found # Nil => found = Proper(k)
  BY <1>1 DEF OnceInv
<1>7. /\ s.kind = r.kind /\ s.stage = r.stage /\ s.asks = r.asks /\ s.next = r.next
      /\ s.fresh = r.fresh /\ s.images = r.images /\ s.wanted = r.wanted /\ s.answer = r.answer
      /\ s.blobs = [r.blobs EXCEPT ![k] = found] /\ r.blobs \in [BlobKeys -> Pictures \cup {Nil}]
  BY <1>3, <1>5 DEF Requests
<1>8. \A x \in Keys : s.blobs[x] # Nil => s.blobs[x] = Proper(x)
  BY <1>5, <1>6, <1>7 DEF Sound, BlobKeys
<1>9. Sound(s)
  BY <1>5, <1>7, <1>8 DEF Sound
<1> QED
  BY <1>4, <1>9, SoundStep DEF Fetch

(* The VersionRequest made from a genuine document suits its descriptor. *)
LEMMA RequestSuits ==
    ASSUME NEW i \in Images, NEW d \in Descriptors, d.image = i, NEW versions \in Seq(Versions),
           OneOriginal(versions), Genuine(i, versions),
           \A n \in DOMAIN versions : versions[n].key \in Keys
    PROVE  Suits(d, VersionRequest(versions, d), versions)
<1>1. PICK w : w = VersionRequest(versions, d)
  OBVIOUS
<1>2. PICK m \in DOMAIN versions :
           /\ versions[m].original
           /\ w.type = IF d.type = AnyType THEN versions[m].type ELSE d.type
           /\ d.original => w.source = versions[m] /\ w.exact
           /\ ~w.exact => /\ w.source = versions[m] /\ ~d.original
                          /\ \A n \in DOMAIN versions :
                               ~(versions[n].box = d.box /\ versions[n].type = w.type)
  BY <1>1, VersionRequestFacts
<1>3. PICK n \in DOMAIN versions :
           /\ w.source = versions[n]
           /\ w.exact /\ ~d.original => versions[n].box = d.box /\ versions[n].type = w.type
  BY <1>1, VersionRequestFacts
<1>4. /\ versions[m].box = OriginalBox /\ versions[m].type = OriginalType[i]
      /\ versions[m].key = Primary(i).key
  BY <1>2 DEF Genuine, Primary, Version
<1>5. w.source.key \in Keys /\ w.source.key = <<i, versions[n].box, versions[n].type>>
  BY <1>3 DEF Genuine
<1>6. w.source.key[1] = i
  BY <1>5
<1>7. d.original => w.exact /\ w.source.key = Primary(i).key
  BY <1>2, <1>4
<1>8. ~d.original /\ w.exact => w.source.key = <<i, d.box, w.type>>
  BY <1>3, <1>5
<1> QED
  BY <1>1, <1>2, <1>4, <1>5, <1>6, <1>7, <1>8 DEF Suits

LEMMA SoundMissing ==
    ASSUME IInv, OnceInv, NEW c \in Clients, Missing(c) \/ Restart \/ (Refuse(c) /\ UNCHANGED <<meta, data, stray>>)
    PROVE  OnceInv'
<1>1. CASE Restart
  <2>1. \A x \in Clients : Sound(request'[x])
    BY <1>1, IdleSound DEF Restart
  <2> QED
    BY <1>1, <2>1, TrueStep DEF Restart
<1>2. CASE Refuse(c) /\ UNCHANGED <<meta, data, stray>>
  BY <1>2, IdleSound, SoundStep DEF Refuse
<1> QED
  BY <1>1, <1>2 DEF Missing

LEMMA SoundChoose == ASSUME IInv, OnceInv, NEW c \in Clients, Choose(c) PROVE OnceInv'
<1>1. PICK r : r = request[c]
  OBVIOUS
<1>2. /\ r \in Requests /\ Good(r) /\ Sound(r) /\ r.stage = "find" /\ r.kind # "upload"
      /\ r.todo = {} /\ r.next = 1 /\ r.asks \in Seq(Descriptors)
  BY <1>1 DEF IInv, TypeOK, OnceInv, Choose, Good, Requests
<1>3. CASE \E d \in Range(r.asks) : r.images[d.image] = Nil
  BY <1>1, <1>3, SoundMissing DEF Choose
<1>4. CASE \A d \in Range(r.asks) : r.images[d.image] # Nil
  <2>1. PICK s : s = [r EXCEPT !.stage = "fetch", !.wanted = Wanted(r),
                               !.todo = {Wanted(r)[d.image].source.key : d \in Range(r.asks)}]
    OBVIOUS
  <2>2. request' = [request EXCEPT ![c] = s] /\ UNCHANGED <<meta, data, stray>>
    BY <1>1, <1>4, <2>1 DEF Choose
  <2>3. /\ s.kind = r.kind /\ s.stage = "fetch" /\ s.asks = r.asks /\ s.next = 1
        /\ s.fresh = r.fresh /\ s.images = r.images /\ s.blobs = r.blobs /\ s.wanted = Wanted(r)
    BY <1>2, <2>1 DEF Requests
  <2>4. ASSUME NEW n \in DOMAIN r.asks
        PROVE  Suits(r.asks[n], Wanted(r)[r.asks[n].image], r.images[r.asks[n].image])
    <3>1. PICK d : d = r.asks[n]
      OBVIOUS
    <3>2. d \in Descriptors /\ d \in Range(r.asks) /\ d.image \in Images
      <4>1. d \in Descriptors /\ d \in Range(r.asks)
        BY <1>2, <3>1 DEF Range
      <4> QED
        BY <4>1 DEF Descriptors
    <3> DEFINE S == {m \in 1 .. Len(r.asks) : r.asks[m].image = d.image}
    <3>3. Min(S) = n
      <4>1. n \in S /\ S \in SUBSET Nat
        BY <1>2, <3>1
      <4>2. Min(S) \in S
        <5> HIDE DEF S
        <5> QED
          BY <4>1, MinFacts
      <4>3. r.asks[Min(S)].image = r.asks[n].image /\ Min(S) \in DOMAIN r.asks
        BY <1>2, <3>1, <4>2
      <4> QED
        BY <1>2, <4>3 DEF Sound, NamedOnce
    <3>4. S # {}
      BY <1>2, <3>1
    <3>5. Wanted(r)[d.image] = VersionRequest(r.images[d.image], d)
      BY <3>1, <3>2, <3>3, <3>4 DEF Wanted, SelectInSeq
    <3>6. /\ r.images[d.image] \in Seq(Versions) /\ Genuine(d.image, r.images[d.image])
          /\ Backed(r, r.images[d.image])
      BY <1>2, <1>4, <3>2 DEF Good, Sound, Requests
    <3>7. Suits(d, VersionRequest(r.images[d.image], d), r.images[d.image])
      BY <3>2, <3>6, RequestSuits DEF Backed
    <3> QED
      BY <3>1, <3>5, <3>7
  <2>5. Sound(s)
    <3>1. \A n \in DOMAIN r.asks : ~(n < 1)
      BY <1>2
    <3> QED
      BY <1>2, <2>3, <2>4, <3>1 DEF Sound
  <2> QED
    BY <2>2, <2>5, SoundStep
<1> QED
  BY <1>3, <1>4

(* What a turn answers fits, and what it saves is the picture for its key. *)
LEMMA PickedFacts ==
    ASSUME NEW d \in Descriptors, NEW wanted \in Wants, NEW versions \in Seq(Versions),
           OneOriginal(versions), Genuine(d.image, versions), Suits(d, wanted, versions)
    PROVE  LET picture == Picked(Proper(wanted.source.key), wanted, d)
               version == NewVersion(wanted, d)
           IN  /\ Fits(d, picture)
               /\ ~wanted.exact => /\ picture = Proper(version.key)
                                   /\ Genuine(d.image, Append(versions, version))
<1> DEFINE k == wanted.source.key
<1>1. PICK picture : picture = Picked(Proper(k), wanted, d)
  OBVIOUS
<1>2. PICK version : version = NewVersion(wanted, d)
  OBVIOUS
<1>3. /\ d.image \in Images /\ d.box \in Boxes /\ wanted.type \in Types
      /\ k \in Keys /\ k[1] = d.image
  BY DEF Descriptors, Wants, Suits
<1>4. /\ Proper(k).image = d.image /\ Proper(k).box = k[2] /\ Proper(k).type = k[3]
      /\ Upload(d.image) = Proper(Primary(d.image).key)
  BY <1>3, ProperFacts
<1>5. CASE wanted.exact
  <2>1. picture = Proper(k)
    BY <1>1, <1>5 DEF Picked
  <2>2. CASE d.original
    <3>1. picture = Upload(d.image) /\ picture.image = d.image
      BY <1>4, <2>1, <2>2 DEF Suits
    <3> QED
      BY <1>1, <1>5, <2>2, <3>1 DEF Fits
  <2>3. CASE ~d.original
    <3>1. k[2] = d.box /\ k[3] = wanted.type
      BY <1>5, <2>3 DEF Suits
    <3>2. picture.image = d.image /\ picture.box = d.box /\ picture.type = wanted.type
      BY <1>4, <2>1, <3>1
    <3> QED
      BY <1>1, <1>5, <2>3, <3>2 DEF Fits, Suits
  <2> QED
    BY <2>2, <2>3
<1>6. CASE ~wanted.exact
  <2>1. picture = Picture(d.image, d.box, wanted.type, FALSE) /\ ~d.original
    BY <1>1, <1>4, <1>6 DEF Picked, Fit, Suits
  <2>2. Fits(d, picture)
    BY <2>1 DEF Fits, Picture, Suits
  <2>3. /\ version.key = <<d.image, d.box, wanted.type>> /\ version.box = d.box
        /\ version.type = wanted.type /\ version.original = FALSE
    BY <1>2 DEF NewVersion, Version
  <2>4. ~(d.box = OriginalBox /\ wanted.type = OriginalType[d.image])
    <3>1. PICK m \in DOMAIN versions : versions[m].original
      BY DEF OneOriginal
    <3>2. versions[m].box = OriginalBox /\ versions[m].type = OriginalType[d.image]
      BY <3>1 DEF Genuine
    <3> QED
      BY <1>6, <3>2 DEF Suits
  <2>5. picture = Proper(version.key)
    <3>1. version.key[1] = d.image /\ version.key[2] = d.box /\ version.key[3] = wanted.type
      BY <2>3
    <3>2. Proper(version.key) = Picture(d.image, d.box, wanted.type, FALSE)
      BY <2>4, <3>1 DEF Proper, Picture
    <3> QED
      BY <2>1, <3>2
  <2>6. Genuine(d.image, Append(versions, version))
    <3>1. PICK list : list = Append(versions, version)
      OBVIOUS
    <3>2. /\ DOMAIN versions = 1 .. Len(versions) /\ DOMAIN list = 1 .. Len(versions) + 1
          /\ \A m \in 1 .. Len(versions) : list[m] = versions[m]
          /\ list[Len(versions) + 1] = version /\ Len(versions) \in Nat
      BY <3>1
    <3>3. ASSUME NEW n \in DOMAIN list
          PROVE  /\ list[n].key = <<d.image, list[n].box, list[n].type>>
                 /\ list[n].original <=> list[n].box = OriginalBox /\ list[n].type = OriginalType[d.image]
      <4>1. CASE n \in DOMAIN versions
        BY <3>2, <4>1 DEF Genuine
      <4>2. CASE n \notin DOMAIN versions
        <5>1. list[n] = version
          BY <3>2, <4>2
        <5> QED
          BY <2>3, <2>4, <5>1
      <4> QED
        BY <4>1, <4>2
    <3>4. ASSUME NEW n \in DOMAIN versions PROVE versions[n].key # version.key
      <4>1. versions[n].key = <<d.image, versions[n].box, versions[n].type>>
        BY DEF Genuine
      <4>2. ~(versions[n].box = d.box /\ versions[n].type = wanted.type)
        BY <1>6 DEF Suits
      <4> QED
        BY <2>3, <4>1, <4>2
    <3>5. ASSUME NEW m \in DOMAIN list, NEW n \in DOMAIN list, list[m].key = list[n].key
          PROVE  m = n
      <4>1. CASE m \in DOMAIN versions /\ n \in DOMAIN versions
        BY <3>2, <3>5, <4>1 DEF Genuine
      <4>2. CASE m \notin DOMAIN versions \/ n \notin DOMAIN versions
        BY <3>2, <3>4, <3>5, <4>2
      <4> QED
        BY <4>1, <4>2
    <3>6. Genuine(d.image, list)
      BY <3>3, <3>5 DEF Genuine
    <3> QED
      BY <3>1, <3>6
  <2> QED
    BY <1>1, <1>2, <2>2, <2>5, <2>6
<1> QED
  BY <1>5, <1>6

LEMMA SoundTurned ==
    ASSUME NEW r \in Requests, Good(r), Sound(r), r.stage = "fetch",
           r.blobs[r.wanted[r.asks[r.next].image].source.key] # Nil
    PROVE  Sound(Looped(Turned(r, r.asks[r.next])))
<1>1. PICK d : d = r.asks[r.next]
  OBVIOUS
<1>2. /\ d \in Range(r.asks) /\ d \in Descriptors /\ r.kind # "upload" /\ d.image \in Images
      /\ r.asks \in Seq(Descriptors) /\ r.next \in DOMAIN r.asks /\ NamedOnce(r.asks)
  <2>1. /\ r.asks \in Seq(Descriptors) /\ r.next \in DOMAIN r.asks /\ r.kind # "upload"
        /\ NamedOnce(r.asks)
    BY DEF Requests, Good, Sound
  <2>2. d \in Range(r.asks) /\ d \in Descriptors
    BY <1>1, <2>1, ElementFacts
  <2> QED
    BY <2>1, <2>2 DEF Descriptors
<1>3. PICK wanted : wanted = r.wanted[d.image]
  OBVIOUS
<1>4. PICK versions : versions = r.images[d.image]
  OBVIOUS
<1>5. /\ wanted \in Wants /\ versions \in Seq(Versions) /\ OneOriginal(versions)
      /\ Genuine(d.image, versions)
  <2>1. r.wanted[d.image] # Nil /\ versions # Nil /\ Backed(r, versions)
    BY <1>2, <1>4 DEF Good
  <2>2. wanted \in Wants /\ versions \in Seq(Versions)
    BY <1>2, <1>3, <1>4, <2>1, RequestFields
  <2>3. Genuine(d.image, versions)
    BY <1>2, <1>4, <2>1 DEF Sound
  <2> QED
    BY <2>1, <2>2, <2>3 DEF Backed
<1>6. Suits(d, wanted, versions)
  <2>1. ~(r.next < r.next)
    <3>1. r.next \in Nat
      BY RequestFields
    <3> QED
      BY <3>1, NextFacts
  <2> QED
    BY <1>1, <1>2, <1>3, <1>4, <2>1 DEF Sound
<1>7. r.blobs[wanted.source.key] = Proper(wanted.source.key)
  BY <1>1, <1>2, <1>3, <1>6 DEF Sound, Suits
<1>8. PICK picture : picture = Picked(r.blobs[wanted.source.key], wanted, d)
  OBVIOUS
<1>9. PICK version : version = NewVersion(wanted, d)
  OBVIOUS
<1>10. /\ Fits(d, picture)
       /\ ~wanted.exact => /\ picture = Proper(version.key)
                           /\ Genuine(d.image, Append(versions, version))
  BY <1>2, <1>5, <1>6, <1>7, <1>8, <1>9, PickedFacts
<1>11. PICK kept : kept = IF d.save /\ ~wanted.exact THEN Kept(r, d, version, picture) ELSE r
  OBVIOUS
<1>12. /\ kept.kind = r.kind /\ kept.stage = "fetch" /\ kept.asks = r.asks /\ kept.next = r.next
       /\ kept.wanted = r.wanted /\ kept.blobs = r.blobs /\ kept.answer = r.answer
  BY <1>11 DEF Kept, Requests
<1>13. /\ \A i \in Images : kept.images[i] # Nil => Genuine(i, kept.images[i])
       /\ \A i \in Images \ {d.image} : kept.images[i] = r.images[i]
       /\ \A k \in Keys : kept.fresh[k] # Nil => kept.fresh[k] = Proper(k)
  <2>1. CASE d.save /\ ~wanted.exact
    <3>1. /\ kept.images = [r.images EXCEPT ![d.image] = Append(versions, version)]
          /\ kept.fresh = [r.fresh EXCEPT ![version.key] = picture]
          /\ r.images \in [Images -> Seq(Versions) \cup {Nil}]
          /\ r.fresh \in [BlobKeys -> Pictures \cup {Nil}]
      BY <1>4, <1>11, <2>1 DEF Kept, Requests
    <3>2. \A i \in Images \ {d.image} : kept.images[i] = r.images[i]
      BY <3>1
    <3>3. kept.images[d.image] = Append(versions, version)
      BY <1>2, <3>1
    <3>4. \A i \in Images : kept.images[i] # Nil => Genuine(i, kept.images[i])
      BY <1>2, <1>10, <2>1, <3>2, <3>3 DEF Sound
    <3>5. \A k \in Keys : kept.fresh[k] # Nil => kept.fresh[k] = Proper(k)
      BY <1>2, <1>10, <2>1, <3>1 DEF Sound, BlobKeys
    <3> QED
      BY <3>2, <3>4, <3>5
  <2>2. CASE ~(d.save /\ ~wanted.exact)
    BY <1>2, <1>11, <2>2 DEF Sound
  <2> QED
    BY <2>1, <2>2
<1>14. PICK t : t = [kept EXCEPT !.answer[d.image] = picture, !.next = @ + 1]
  OBVIOUS
<1>15. t = Turned(r, d)
  BY <1>3, <1>8, <1>9, <1>11, <1>14 DEF Turned
<1>16. /\ t.kind = r.kind /\ t.stage = "fetch" /\ t.asks = r.asks /\ t.next = r.next + 1
       /\ t.fresh = kept.fresh /\ t.images = kept.images /\ t.wanted = r.wanted
       /\ t.blobs = r.blobs /\ t.answer = [r.answer EXCEPT ![d.image] = picture]
  BY <1>11, <1>12, <1>14 DEF Requests, Kept
<1>17. ASSUME NEW n \in DOMAIN r.asks
       PROVE  /\ n < t.next => Fits(r.asks[n], t.answer[r.asks[n].image])
              /\ ~(n < t.next) => Suits(r.asks[n], t.wanted[r.asks[n].image], t.images[r.asks[n].image])
  <2>1. /\ r.answer \in [Images -> Pictures \cup {Nil}] /\ r.next \in Nat /\ n \in Nat
        /\ r.asks[n].image \in Images
    <3>1. r.asks[n] \in Descriptors /\ n \in Nat
      BY <1>2, ElementFacts
    <3>2. r.asks[n].image \in Images
      BY <3>1 DEF Descriptors
    <3> QED
      BY <3>1, <3>2, RequestFields
  <2>2. CASE n = r.next
    <3>1. t.answer[d.image] = picture
      BY <1>2, <1>16, <2>1
    <3>2. r.asks[n] = d /\ Fits(d, picture)
      BY <1>1, <1>10, <2>2
    <3>3. n < t.next
      <4>1. t.next = n + 1 /\ n \in Nat
        BY <1>16, <2>1, <2>2
      <4>2. n < n + 1
        BY <4>1, NextFacts
      <4> QED
        BY <4>1, <4>2
    <3> QED
      BY <3>1, <3>2, <3>3
  <2>3. CASE n # r.next
    <3>1. r.asks[n].image # d.image
      BY <1>1, <1>2, <2>3 DEF NamedOnce
    <3>2. /\ t.answer[r.asks[n].image] = r.answer[r.asks[n].image]
          /\ t.images[r.asks[n].image] = r.images[r.asks[n].image]
      BY <1>13, <1>16, <2>1, <3>1
    <3>3. n < r.next <=> n < t.next
      <4>1. t.next = r.next + 1
        BY <1>16
      <4>2. \A k \in Nat : k # r.next => (k < r.next <=> k < r.next + 1)
        BY <2>1, NextFacts
      <4>3. n < r.next <=> n < r.next + 1
        BY <2>1, <2>3, <4>2
      <4> QED
        BY <4>1, <4>3
    <3>4. /\ n < r.next => Fits(r.asks[n], r.answer[r.asks[n].image])
          /\ ~(n < r.next) => Suits(r.asks[n], r.wanted[r.asks[n].image], r.images[r.asks[n].image])
      BY <1>2 DEF Sound
    <3> QED
      BY <1>16, <3>2, <3>3, <3>4
  <2> QED
    BY <2>2, <2>3
<1>18. CASE t.next <= Len(t.asks)
  <2>1. Looped(t) = t
    BY <1>18 DEF Looped
  <2>2. Sound(t)
    BY <1>2, <1>13, <1>16, <1>17 DEF Sound
  <2> QED
    BY <1>1, <1>15, <2>1, <2>2
<1>19. CASE ~(t.next <= Len(t.asks))
  <2>1. \A x \in Range(t.asks) : Fits(x, t.answer[x.image])
    <3>1. \A n \in DOMAIN r.asks : n < t.next
      <4>1. r.next \in Nat /\ t.asks = r.asks /\ t.next = r.next + 1
        BY <1>16, RequestFields
      <4>2. Len(r.asks) \in Nat /\ \A n \in DOMAIN r.asks : n \in Nat /\ n <= Len(r.asks)
        BY <1>2, ElementFacts
      <4>3. ~(r.next + 1 <= Len(r.asks))
        BY <1>19, <4>1
      <4>4. \A k, l \in Nat : k <= l /\ ~(r.next + 1 <= l) => k < r.next + 1
        BY <4>1, NextFacts
      <4>5. \A n \in DOMAIN r.asks : n < r.next + 1
        BY <4>2, <4>3, <4>4
      <4> QED
        BY <4>1, <4>5
    <3>2. ASSUME NEW x \in Range(t.asks) PROVE Fits(x, t.answer[x.image])
      <4>1. PICK n \in DOMAIN r.asks : x = r.asks[n]
        BY <1>16 DEF Range
      <4> QED
        BY <1>17, <3>1, <4>1
    <3> QED
      BY <3>2
  <2>2. CASE t.changed = {}
    <3>1. Looped(t) = Answered(t)
      BY <1>19, <2>2 DEF Looped
    <3>2. NamedOnce(t.asks)
      BY <1>2, <1>16
    <3>3. Sound(Answered(t))
      BY <2>1, <3>2, AnsweredSound
    <3> QED
      BY <1>1, <1>15, <3>1, <3>3
  <2>3. CASE t.changed # {}
    <3>1. PICK s : s = Looped(t)
      OBVIOUS
    <3>2. s = [[t EXCEPT !.wanted = NoImages, !.blobs = NoBlobs] EXCEPT !.stage = "data",
               !.todo = {k \in BlobKeys : [t EXCEPT !.wanted = NoImages, !.blobs = NoBlobs].fresh[k] # Nil}]
      BY <1>19, <2>3, <3>1 DEF Looped, Saving, SaveOrder
    <3>3. t \in Requests
      BY TurnedFacts, <1>1, <1>15
    <3>4. /\ s.kind = t.kind /\ s.stage = "data" /\ s.asks = t.asks /\ s.fresh = t.fresh
          /\ s.images = t.images /\ s.blobs = NoBlobs /\ s.answer = t.answer
      BY <3>2, <3>3 DEF Requests
    <3>5. /\ NamedOnce(s.asks) /\ \A k \in Keys : s.blobs[k] = Nil
          /\ \A i \in Images : s.images[i] # Nil => Genuine(i, s.images[i])
          /\ \A k \in Keys : s.fresh[k] # Nil => s.fresh[k] = Proper(k)
          /\ \A x \in Range(s.asks) : Fits(x, s.answer[x.image])
      <4>1. NamedOnce(s.asks)
        BY <1>2, <1>16, <3>4
      <4>2. \A k \in Keys : s.blobs[k] = Nil
        BY <3>4 DEF NoBlobs, BlobKeys
      <4>3. s.images = kept.images /\ s.fresh = kept.fresh
        BY <1>16, <3>4
      <4>4. \A i \in Images : s.images[i] # Nil => Genuine(i, s.images[i])
        BY <1>13, <4>3
      <4>5. \A k \in Keys : s.fresh[k] # Nil => s.fresh[k] = Proper(k)
        BY <1>13, <4>3
      <4>6. \A x \in Range(s.asks) : Fits(x, s.answer[x.image])
        BY <2>1, <3>4
      <4> QED
        BY <4>1, <4>2, <4>4, <4>5, <4>6
    <3>6. Sound(s)
      BY <3>4, <3>5 DEF Sound
    <3> QED
      BY <1>1, <1>15, <3>1, <3>6
  <2> QED
    BY <2>2, <2>3
<1> QED
  BY <1>18, <1>19

LEMMA SoundSaved ==
    ASSUME NEW r \in Requests, Sound(r), r.kind # "upload", r.stage \in {"data", "meta"}, NEW key
    PROVE  Sound(Saved(r, key))
<1> DEFINE left == [r EXCEPT !.todo = @ \ {key}]
<1>1. PICK l : l = left
  OBVIOUS
<1>2. /\ l.kind = r.kind /\ l.stage = r.stage /\ l.asks = r.asks /\ l.blobs = r.blobs
      /\ l.fresh = r.fresh /\ l.images = r.images /\ l.answer = r.answer /\ l.changed = r.changed
  BY <1>1 DEF Requests
<1>3. Sound(l) /\ NamedOnce(l.asks) /\ \A d \in Range(l.asks) : Fits(d, l.answer[d.image])
  BY <1>2 DEF Sound
<1>4. CASE left.todo # {}
  BY <1>1, <1>3, <1>4 DEF Saved
<1>5. CASE left.todo = {} /\ r.stage = "data"
  <2>1. PICK s : s = [l EXCEPT !.stage = "meta", !.todo = l.changed]
    OBVIOUS
  <2>2. Saved(r, key) = s
    BY <1>1, <1>5, <2>1 DEF Saved, Saving, SaveOrder
  <2>3. /\ s.kind = r.kind /\ s.stage = "meta" /\ s.asks = r.asks /\ s.blobs = r.blobs
        /\ s.fresh = r.fresh /\ s.images = r.images /\ s.answer = r.answer
    BY <1>1, <2>1 DEF Requests
  <2>4. Sound(s)
    BY <2>3 DEF Sound
  <2> QED
    BY <2>2, <2>4
<1>6. CASE left.todo = {} /\ r.stage = "meta"
  <2>1. Saved(r, key) = Answered(l)
    BY <1>1, <1>6 DEF Saved, SaveOrder
  <2> QED
    BY <1>3, <2>1, AnsweredSound
<1> QED
  BY <1>4, <1>5, <1>6

LEMMA SoundRender == ASSUME IInv, OnceInv, NEW c \in Clients, Render(c) PROVE OnceInv'
<1>1. PICK r : r = request[c]
  OBVIOUS
<1>2. r \in Requests /\ Good(r) /\ Sound(r) /\ r.stage = "fetch"
  BY <1>1 DEF IInv, TypeOK, OnceInv, Render
<1>3. CASE r.blobs[r.wanted[r.asks[r.next].image].source.key] = Nil
  BY <1>1, <1>3, SoundMissing DEF Render
<1>4. CASE r.blobs[r.wanted[r.asks[r.next].image].source.key] # Nil
  <2>1. PICK s : s = Looped(Turned(r, r.asks[r.next]))
    OBVIOUS
  <2>2. Sound(s)
    BY <1>2, <1>4, <2>1, SoundTurned
  <2>3. /\ UNCHANGED <<meta, data, stray>>
        /\ request' = [request EXCEPT ![c] = s] \/ Refuse(c)
    BY <1>1, <1>4, <2>1 DEF Render
  <2> QED
    BY <2>2, <2>3, SoundMissing, SoundStep
<1> QED
  BY <1>3, <1>4

LEMMA SoundSave ==
    ASSUME IInv, OnceInv, NEW c \in Clients, NEW w \in Pending(c), Save(c, w) \/ SaveFails(c, w)
    PROVE  OnceInv'
<1>1. w[2] # EmptyKey
  BY DEF Save, SaveFails
<1>2. /\ w \in Writes /\ True(w) /\ request[c].kind # "upload"
      /\ request[c].stage \in {"data", "meta"}
  BY <1>1, PendingFacts, PendingTrue DEF Pending
<1>3. request[c] \in Requests /\ Sound(request[c]) /\ Good(request[c])
  BY DEF IInv, TypeOK, OnceInv
<1>4. CASE Save(c, w)
  <2>1. PICK s : s = Saved(request[c], w[2])
    OBVIOUS
  <2>2. Sound(s)
    BY <1>2, <1>3, <2>1, SoundSaved
  <2>3. request' = [request EXCEPT ![c] = s] /\ stray' = stray /\ Written(w)
    BY <1>4, <2>1 DEF Save
  <2>4. \A x \in Clients : Sound(request'[x])
    BY <2>2, <2>3 DEF OnceInv, IInv, TypeOK
  <2> QED
    BY <1>2, <2>3, <2>4, TrueStep
<1>5. CASE SaveFails(c, w)
  <2>1. \A x \in Clients : Sound(request'[x])
    BY <1>5, IdleSound DEF SaveFails, Refuse, OnceInv, IInv, TypeOK
  <2>2. \A x \in Pending(c) : x[2] # EmptyKey
    <3>1. \A k \in request[c].todo : k # EmptyKey
      BY <1>2, <1>3, KeyAssumption DEF Good, Requests
    <3> QED
      BY <3>1 DEF Pending
  <2>3. stray' \subseteq stray \cup {x \in UNION {Pending(y) : y \in Clients} : x[2] # EmptyKey}
    BY <1>5, <2>2 DEF SaveFails
  <2>4. UNCHANGED <<meta, data>> \/ Written(w)
    BY <1>5 DEF SaveFails
  <2> QED
    BY <1>2, <2>1, <2>3, <2>4, TrueStep
<1> QED
  BY <1>4, <1>5

(* Batches that name each image once, from stored originals, stay sound. *)
LEMMA InitialOnce == Init => OnceInv
<1> SUFFICES ASSUME Init PROVE OnceInv
  OBVIOUS
<1>1. stray = {} /\ request = [c \in Clients |-> Idle]
  BY DEF Init
<1>2. PICK S \in SUBSET Images :
         /\ meta = [i \in Images |-> IF i \in S THEN <<Primary(i)>> ELSE Nil]
         /\ data = [k \in Keys |-> IF k[1] \in S /\ k = Primary(k[1]).key
                                      THEN Upload(k[1]) ELSE Nil]
  BY DEF Init
<1>3. \A k \in Keys : data[k] # Nil => data[k] = Proper(k)
  <2>1. \A k \in Keys : k[1] \in Images
    BY DEF Keys
  <2> QED
    BY <1>2, <2>1, ProperFacts
<1>4. ASSUME NEW i \in Images, meta[i] # Nil PROVE Genuine(i, meta[i])
  <2>1. PICK list : list = meta[i]
    OBVIOUS
  <2>2. \A v : DOMAIN <<v>> = {1} /\ <<v>>[1] = v
    OBVIOUS
  <2>3. DOMAIN list = {1} /\ list[1] = Primary(i)
    BY <1>2, <1>4, <2>1, <2>2
  <2>4. /\ Primary(i).key = <<i, Primary(i).box, Primary(i).type>> /\ Primary(i).original = TRUE
        /\ Primary(i).box = OriginalBox /\ Primary(i).type = OriginalType[i]
    BY DEF Primary, Version
  <2>5. Genuine(i, list)
    BY <2>3, <2>4 DEF Genuine
  <2> QED
    BY <2>1, <2>5
<1> QED
  BY <1>1, <1>3, <1>4, IdleSound DEF OnceInv

(* Every step preserves OnceInv, when no batch names an image twice. *)
THEOREM InductiveOnce ==
    ASSUME \A asks \in Batches : NamedOnce(asks)
    PROVE  IInv /\ OnceInv /\ [Next]_vars => OnceInv'
<1> SUFFICES ASSUME IInv, OnceInv, [Next]_vars PROVE OnceInv'
  OBVIOUS
<1>1. CASE UNCHANGED vars
  BY <1>1 DEF vars, OnceInv, True, Sound
<1>2. ASSUME NEW c \in Clients, Step(c) PROVE OnceInv'
  <2>1. ASSUME Leave(c) PROVE OnceInv'
    BY <2>1, SoundMissing DEF Leave
  <2> QED
    BY <1>2, <2>1, SoundFind, SoundFetch, SoundChoose, SoundRender, SoundSave DEF Step
<1>3. ASSUME NEW c \in Clients, NEW kind, NEW asks, NamedOnce(asks), Begin(c, kind, asks) PROVE OnceInv'
  <2>1. PICK s : s = Begun(kind, asks)
    OBVIOUS
  <2>2. Sound(s)
    BY <1>3, <2>1, BegunSound
  <2> QED
    BY <1>3, <2>1, <2>2, SoundStep DEF Begin
<1>4. ASSUME NEW c \in Clients, NEW d \in Gets, GetImage(c, d) PROVE OnceInv'
  <2>1. NamedOnce(<<d>>)
    BY DEF NamedOnce
  <2> QED
    BY <1>3, <1>4, <2>1 DEF GetImage
<1>5. ASSUME NEW c \in Clients, NEW asks \in Batches, GetImagesData(c, asks) PROVE OnceInv'
  BY <1>3, <1>5 DEF GetImagesData
<1>6. ASSUME NEW c \in Clients, NEW i \in Images, NewImage(c, i) PROVE OnceInv'
  <2>1. PICK s : s = Saving([Begun("upload", <<>>) EXCEPT
                         !.images[i] = <<Primary(i), [Primary(i) EXCEPT !.key = EmptyKey]>>,
                         !.changed = {i}, !.fresh[EmptyKey] = Upload(i)], "data")
    OBVIOUS
  <2>2. s.kind = "upload"
    BY <2>1 DEF Saving, Begun
  <2>3. Sound(s)
    BY <2>2 DEF Sound
  <2> QED
    BY <1>6, <2>1, <2>3, SoundStep DEF NewImage
<1>7. ASSUME NEW w \in stray, LateWrite(w) PROVE OnceInv'
  <2>1. w \in Writes /\ True(w) /\ Written(w) /\ stray' \subseteq stray /\ request' = request
    BY <1>7 DEF LateWrite, OnceInv, IInv, TypeOK
  <2> QED
    BY <2>1, TrueStep DEF OnceInv
<1>8. CASE Crash
  <2>1. PICK c \in Clients : request[c] # Idle
    BY <1>8 DEF Crash
  <2> QED
    BY <1>8, <2>1, SoundMissing DEF Crash
<1> QED
  BY <1>1, <1>2, <1>4, <1>5, <1>6, <1>7, <1>8 DEF Next

(* So it is an invariant of such batches. *)
THEOREM InvarianceOnce ==
    ASSUME \A asks \in Batches : NamedOnce(asks)
    PROVE  Spec => [](IInv /\ OnceInv)
<1>1. Init => IInv /\ OnceInv
  BY Initial, InitialOnce
<1>2. IInv /\ OnceInv /\ [Next]_vars => (IInv /\ OnceInv)'
  BY Inductive, InductiveOnce
<1> QED
  BY <1>1, <1>2, PTL DEF Spec

(* Every blob a document lists is the picture the list says: late writes and
   half finished saves store the right picture or none.                      *)
THEOREM ListsAreTrue ==
    ASSUME \A asks \in Batches : NamedOnce(asks)
    PROVE  Spec => []BlobsTrue
<1>1. IInv /\ OnceInv => BlobsTrue
  <2> SUFFICES ASSUME IInv, OnceInv, NEW i \in Images, meta[i] # Nil, NEW n \in DOMAIN meta[i]
               PROVE  data[meta[i][n].key] = Picture(i, meta[i][n].box, meta[i][n].type, meta[i][n].original)
    BY DEF BlobsTrue
  <2>1. PICK v : v = meta[i][n]
    OBVIOUS
  <2>2. v.key \in Keys /\ data[v.key] = Proper(v.key)
    BY <2>1 DEF IInv, Listed, OnceInv
  <2>3. /\ v.key = <<i, v.box, v.type>>
        /\ v.original <=> v.box = OriginalBox /\ v.type = OriginalType[i]
    BY <2>1 DEF OnceInv, Genuine
  <2>4. v.original \in BOOLEAN
    <3>1. meta[i] \in Seq(Versions)
      BY DEF IInv, TypeOK
    <3>2. v \in Versions
      BY <2>1, <3>1
    <3> QED
      BY <3>2 DEF Versions
  <2>5. v.key[1] = i /\ v.key[2] = v.box /\ v.key[3] = v.type
    BY <2>3
  <2>6. Proper(v.key) = Picture(i, v.box, v.type, v.original)
    BY <2>3, <2>4, <2>5 DEF Proper, Picture
  <2> QED
    BY <2>1, <2>2, <2>6
<1> QED
  BY <1>1, InvarianceOnce, PTL

(* No version is listed twice, however the savers of an image interleave. *)
THEOREM ListedOnce ==
    ASSUME \A asks \in Batches : NamedOnce(asks)
    PROVE  Spec => []NoDuplicateVersion
<1>1. OnceInv => NoDuplicateVersion
  BY DEF OnceInv, Genuine, NoDuplicateVersion
<1> QED
  BY <1>1, InvarianceOnce, PTL

(* An answer is the picture that was asked for. *)
THEOREM AnswersFit ==
    ASSUME \A asks \in Batches : NamedOnce(asks)
    PROVE  Spec => []AnswerFits
<1>1. IInv /\ OnceInv => AnswerFits
  BY DEF IInv, Good, OnceInv, Sound, AnswerFits
<1> QED
  BY <1>1, InvarianceOnce, PTL
=============================================================================
