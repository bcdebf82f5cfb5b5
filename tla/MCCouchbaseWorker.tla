------------------------- MODULE MCCouchbaseWorker -------------------------
(* Small instances of CouchbaseWorker: one call of each kind the services make,
   on one document both clients use and on a batch that overlaps with it.    *)
EXTENDS CouchbaseWorker, TLC

CONSTANTS k1, k2, v1

Find(k)      == [multi |-> FALSE, keys |-> {k}, value |-> Nil]
Save(k)      == [multi |-> FALSE, keys |-> {k}, value |-> v1]
FindBatch(K) == [multi |-> TRUE, keys |-> K, value |-> Nil]
SaveBatch(K) == [multi |-> TRUE, keys |-> K, value |-> v1]

(* Safety: single and batch, reads and writes, and the batch of no keys. *)
SafetyCalls == {Save(k1), FindBatch({k1, k2}), SaveBatch({k1, k2}), FindBatch({})}

(* Against the abstract store: reads and writes of one document, and batches
   that a client may abandon at the first failure.                           *)
StoreCalls == {Find(k1), SaveBatch({k1, k2})}

(* Liveness: k2 is a key that libcouchbase refuses, here the empty one. *)
LiveCalls == {Find(k1), Save(k2), FindBatch({k1}), SaveBatch({k1, k2})}

Symmetry == Permutations(Clients) \cup Permutations(Commands)
=============================================================================
