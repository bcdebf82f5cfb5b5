--------------------------- MODULE DocumentStore ---------------------------
(***************************************************************************)
(* What one Couchbase bucket promises to the threads that call it through  *)
(* Couchbase::Worker (findEntry, saveData, findEntries, saveEntries), with *)
(* the queue, the worker thread, the callbacks and the shutdown left out.  *)
(*                                                                         *)
(* A call names a set of keys and either reads them (value = Nil) or       *)
(* stores one value under each.  Every key of a call is asked, takes       *)
(* effect at most once, at one moment between the call and its answer, and *)
(* is then answered, with success only if it took effect.  A failed write  *)
(* may still reach the server later: such writes are in stray.             *)
(***************************************************************************)
CONSTANTS Clients, Keys, Values, Nil, NoCall

VARIABLES
    store,   \* the documents: [Keys -> Values \cup {Nil}], Nil = no document
    call,    \* the call each client is blocked in, or NoCall
    stray    \* writes <<key, value>> nobody waits for that may yet take effect

vars == <<store, call, stray>>

Data == Values \cup {Nil}

Stages == {"unasked", "asked", "applied", "ok", "failed"}

Calls == [multi : BOOLEAN, value : Data,
          stage : [Keys -> Stages], data : [Keys -> Data]]

TypeOK == /\ store \in [Keys -> Data]
          /\ call \in [Clients -> Calls \cup {NoCall}]
          /\ stray \subseteq Keys \X Values

Init == /\ store = [k \in Keys |-> Nil]
        /\ call = [c \in Clients |-> NoCall]
        /\ stray = {}

Invoke(c, K, v, multi) ==
    /\ call[c] = NoCall
    /\ call' = [call EXCEPT ![c] =
                  [multi |-> multi, value |-> v,
                   stage |-> [k \in Keys |-> IF k \in K THEN "asked" ELSE "unasked"],
                   data  |-> [k \in Keys |-> Nil]]]
    /\ UNCHANGED <<store, stray>>

(* One key of a call comes to another stage, with the data read so far. *)
Mark(r, k, stage, data) ==
    [multi |-> r.multi, value |-> r.value,
     stage |-> [r.stage EXCEPT ![k] = stage], data |-> [r.data EXCEPT ![k] = data]]

(* The operation takes effect: a write replaces the document, a read sees it. *)
TakeEffect(c, k) ==
    /\ call[c] # NoCall /\ call[c].stage[k] = "asked"
    /\ IF call[c].value = Nil
         THEN /\ call' = [call EXCEPT ![c] = Mark(@, k, "applied", store[k])]
              /\ UNCHANGED store
         ELSE /\ call' = [call EXCEPT ![c] = Mark(@, k, "applied", Nil)]
              /\ store' = [store EXCEPT ![k] = call[c].value]
    /\ UNCHANGED stray

(* Success needs the effect, and a read of a missing document is a failure. *)
Succeed(c, k) ==
    /\ call[c] # NoCall /\ call[c].stage[k] = "applied"
    /\ call[c].value = Nil => call[c].data[k] # Nil
    /\ call' = [call EXCEPT ![c] = Mark(@, k, "ok", @.data[k])]
    /\ UNCHANGED <<store, stray>>

(* Failure needs nothing, and undoes nothing: a write that failed before it
   took effect may still take effect later.                                 *)
Fail(c, k) ==
    /\ call[c] # NoCall /\ call[c].stage[k] \in {"asked", "applied"}
    /\ call' = [call EXCEPT ![c] = Mark(@, k, "failed", Nil)]
    /\ \/ UNCHANGED stray
       \/ /\ call[c].stage[k] = "asked" /\ call[c].value # Nil
          /\ stray' = stray \cup {<<k, call[c].value>>}
    /\ UNCHANGED store

(* The client gets its answer: all keys are answered, or a batch of writes
   gave up at its first failure and the rest may still be applied.          *)
Return(c) ==
    /\ call[c] # NoCall
    /\ LET open == {k \in Keys : call[c].stage[k] \in {"asked", "applied"}}
       IN  /\ \/ open = {}
              \/ call[c].multi /\ call[c].value # Nil
                 /\ \E k \in Keys : call[c].stage[k] = "failed"
           /\ \E late \in SUBSET {<<k, call[c].value>> :
                                  k \in {j \in open : call[c].stage[j] = "asked"}} :
                 stray' = stray \cup late
    /\ call' = [call EXCEPT ![c] = NoCall]
    /\ UNCHANGED store

(* A write nobody waits for reaches the server, or never will. *)
LateWrite(w) ==
    /\ w \in stray
    /\ store' \in {store, [store EXCEPT ![w[1]] = w[2]]}
    /\ stray' \in {stray, stray \ {w}}
    /\ UNCHANGED call

Next ==
    \/ \E c \in Clients :
         \/ \E K \in SUBSET Keys, v \in Data, multi \in BOOLEAN : Invoke(c, K, v, multi)
         \/ \E k \in Keys : TakeEffect(c, k) \/ Succeed(c, k) \/ Fail(c, k)
         \/ Return(c)
    \/ \E w \in Keys \X Values : LateWrite(w)

Spec == Init /\ [][Next]_vars
=============================================================================
