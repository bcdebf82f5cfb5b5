----------------------- MODULE CouchbaseWorkerProofs -----------------------
(***************************************************************************)
(* The safety properties of CouchbaseWorker, for any number of clients,    *)
(* commands and keys.  IInv is inductive: one lemma per action shows that  *)
(* the action preserves it, Inductive puts them together, and the          *)
(* properties follow from it.                                              *)
(***************************************************************************)
EXTENDS CouchbaseWorker, TLAPS

(* Appending adds one element, and keeps a queue without repetitions so when
   the element is new: what Worker::schedule does to m_commandQueue. *)
LEMMA AppendElements ==
    ASSUME NEW S, NEW s \in Seq(S), NEW e \in S
    PROVE  /\ Append(s, e) \in Seq(S)
           /\ Range(Append(s, e)) = Range(s) \cup {e}
           /\ IsInjective(s) /\ e \notin Range(s) => IsInjective(Append(s, e))
<1>1. /\ Append(s, e) \in Seq(S)
      /\ Len(Append(s, e)) = Len(s) + 1
      /\ \A i \in 1 .. Len(s) : Append(s, e)[i] = s[i]
      /\ Append(s, e)[Len(s) + 1] = e
  OBVIOUS
<1>2. DOMAIN s = 1 .. Len(s) /\ DOMAIN Append(s, e) = 1 .. (Len(s) + 1) /\ Len(s) \in Nat
  BY <1>1
<1>3. Range(Append(s, e)) = Range(s) \cup {e}
  BY <1>1, <1>2 DEF Range
<1>4. IsInjective(s) /\ e \notin Range(s) => IsInjective(Append(s, e))
  BY <1>1, <1>2 DEF IsInjective, Range
<1> QED  BY <1>1, <1>3, <1>4

(* Head and Tail split the elements of a queue without repetitions. *)
LEMMA HeadTailElements ==
    ASSUME NEW S, NEW s \in Seq(S), s # <<>>
    PROVE  /\ Head(s) \in S /\ Tail(s) \in Seq(S)
           /\ Range(s) = {Head(s)} \cup Range(Tail(s))
           /\ IsInjective(s) => IsInjective(Tail(s)) /\ Head(s) \notin Range(Tail(s))
<1>1. /\ Head(s) = s[1] /\ Head(s) \in S
      /\ Tail(s) \in Seq(S)
      /\ Len(Tail(s)) = Len(s) - 1
      /\ \A i \in 1 .. Len(s) - 1 : Tail(s)[i] = s[i + 1]
  OBVIOUS
<1>2. DOMAIN s = 1 .. Len(s) /\ DOMAIN Tail(s) = 1 .. (Len(s) - 1) /\ Len(s) \in Nat \ {0}
  BY <1>1
<1>3. Range(s) = {Head(s)} \cup Range(Tail(s))
  <2>1. ASSUME NEW x \in Range(s) PROVE x \in {Head(s)} \cup Range(Tail(s))
    <3>1. PICK i \in 1 .. Len(s) : x = s[i]  BY <1>2 DEF Range
    <3>2. CASE i = 1  BY <3>1, <3>2, <1>1
    <3>3. CASE i # 1
      <4>1. i - 1 \in 1 .. Len(s) - 1 /\ Tail(s)[i - 1] = s[i]  BY <1>1, <1>2, <3>3
      <4> QED  BY <4>1, <3>1, <1>2 DEF Range
    <3> QED  BY <3>2, <3>3
  <2>2. ASSUME NEW x \in {Head(s)} \cup Range(Tail(s)) PROVE x \in Range(s)
    BY <1>1, <1>2 DEF Range
  <2> QED  BY <2>1, <2>2
<1>4. IsInjective(s) => IsInjective(Tail(s)) /\ Head(s) \notin Range(Tail(s))
  BY <1>1, <1>2 DEF IsInjective, Range
<1> QED  BY <1>1, <1>3, <1>4

(* The empty queue, to which m_commandQueue.clear() returns. *)
LEMMA EmptyElements == Range(<<>>) = {} /\ IsInjective(<<>>) /\ \A S : <<>> \in Seq(S)
  BY DEF Range, IsInjective

(* The constructor of Worker establishes the inductive invariant. *)
THEOREM InitIInv == Init => IInv
<1> SUFFICES ASSUME Init PROVE IInv  OBVIOUS
<1> USE DEF Init
<1>1. TypeOK
  BY ConstantsAssumption, EmptyElements DEF TypeOK, Data
<1>2. Queued = {} /\ Unsent = {}
  BY EmptyElements DEF Queued, Unsent
<1>3. Ownership
  BY <1>2, ConstantsAssumption, EmptyElements DEF Ownership, HeldByClient
<1>4. Pristine /\ Phases /\ PendingOnce /\ NoLostWakeup /\ CookieValid /\ BufferAlive
  BY <1>2 DEF Pristine, Phases, PendingOnce, NoLostWakeup, CookieValid, BufferAlive
<1> QED  BY <1>1, <1>3, <1>4 DEF IInv

-----------------------------------------------------------------------------
(* Steps that move only program counters and the bucket. *)

(* What the queue and the batch hold are addresses of commands. *)
LEMMA HeldInCommands == TypeOK => Queued \cup Unsent \cup batch \subseteq Commands
  BY DEF TypeOK, Queued, Unsent, Range

(* A step that changes only m_close, the program counters and the bucket keeps
   the parts of the invariant that are about commands and operations. *)
LEMMA FrameStep ==
    ASSUME IInv,
           UNCHANGED <<heap, m_commandQueue, batch, unsent, cmd, inflight>>,
           \A c \in Clients : /\ pc'[c] = "idle" <=> pc[c] = "idle"
                              /\ pc'[c] = "schedule" => pc[c] = "schedule"
    PROVE  Ownership' /\ Pristine' /\ PendingOnce' /\ CookieValid' /\ BufferAlive'
<1> USE DEF IInv
<1>1. Ownership'
  BY DEF Ownership, HeldByClient, Queued, Unsent
<1>2. Pristine' /\ PendingOnce' /\ CookieValid' /\ BufferAlive'
  BY DEF Pristine, PendingOnce, CookieValid, BufferAlive, HeldByClient, Queued, Unsent
<1> QED  BY <1>1, <1>2

(* The notify_one of Worker::schedule: the wakeup it was owed is delivered. *)
LEMMA NotifyStep == ASSUME IInv, NEW c \in Clients, Notify(c) PROVE IInv'
<1> USE DEF IInv, Notify, serverVars
<1>1. TypeOK'
  BY DEF TypeOK, WorkerNotified
<1>2. Ownership' /\ Pristine' /\ PendingOnce' /\ CookieValid' /\ BufferAlive'
  BY FrameStep DEF TypeOK
<1>3. Phases'
  BY DEF Phases, WorkerNotified
<1>4. NoLostWakeup'
  BY DEF NoLostWakeup, WorkerNotified
<1> QED  BY <1>1, <1>2, <1>3, <1>4

(* Blocking in m_semaphore.wait is safe because the predicate was just false
   under the mutex. *)
LEMMA WorkerWaitStep == ASSUME IInv, WorkerWait \/ SpuriousWakeup PROVE IInv'
<1> USE DEF IInv, WorkerWait, SpuriousWakeup, clientVars, serverVars
<1>1. TypeOK'
  BY DEF TypeOK
<1>2. Ownership' /\ Pristine' /\ PendingOnce' /\ CookieValid' /\ BufferAlive'
  BY FrameStep
<1>3. Phases'
  BY DEF Phases
<1>4. NoLostWakeup'
  BY DEF NoLostWakeup
<1> QED  BY <1>1, <1>2, <1>3, <1>4

(* The three steps of ~Worker; CloseNotify delivers the wakeup Close owes. *)
LEMMA DestroyStep == ASSUME IInv, Destroy PROVE IInv'
<1> USE DEF IInv, Destroy, Close, CloseNotify, Join, workerVars, clientVars, serverVars
<1>1. TypeOK'
  BY DEF TypeOK, WorkerNotified
<1>2. Ownership' /\ Pristine' /\ PendingOnce' /\ CookieValid' /\ BufferAlive'
  BY FrameStep
<1>3. Phases'
  BY DEF Phases, WorkerNotified, TypeOK
<1>4. NoLostWakeup'
  BY DEF NoLostWakeup, WorkerNotified
<1> QED  BY <1>1, <1>2, <1>3, <1>4

(* A stray write touches only the bucket. *)
LEMMA LateWriteStep == ASSUME IInv, NEW w \in stray, LateWrite(w) PROVE IInv'
<1> USE DEF IInv, LateWrite, workerVars, clientVars
<1>1. TypeOK'
  BY DEF TypeOK, Data
<1>2. Ownership' /\ Pristine' /\ PendingOnce' /\ CookieValid' /\ BufferAlive'
  BY FrameStep
<1>3. Phases' /\ NoLostWakeup'
  BY DEF Phases, NoLostWakeup
<1> QED  BY <1>1, <1>2, <1>3

-----------------------------------------------------------------------------
(* Steps of a client. *)

(* A new command is put at a free address, which nobody holds or has pending. *)
LEMMA CreateStep ==
    ASSUME IInv, NEW c \in Clients, NEW m \in Commands, NEW r \in Requests, Create(c, m, r)
    PROVE  IInv'
<1> USE DEF IInv, Create, workerVars, serverVars
<1>1. NewCommand(r) \in CommandObject /\ NewCommand(r) # Freed
  BY ConstantsAssumption DEF NewCommand, CommandObject, Promise, EmptyPromise, Data
<1>2. TypeOK'
  BY <1>1 DEF TypeOK
<1>3. /\ cmd[c] = NoCommand /\ m # NoCommand
      /\ cmd' = [cmd EXCEPT ![c] = m] /\ pc' = [pc EXCEPT ![c] = "schedule"]
      /\ \A d \in Clients : cmd[d] # m
      /\ m \notin Queued \cup batch /\ m \notin Unsent
  BY ConstantsAssumption DEF Ownership, TypeOK, HeldByClient
<1>4. Ownership'
  BY <1>1, <1>3 DEF Ownership, TypeOK, HeldByClient, Queued, Unsent
<1>5. \A o \in inflight : o.cmd # m
  BY <1>3 DEF CookieValid
<1>6. Pristine'
  BY <1>1, <1>3, <1>5 DEF Pristine, TypeOK, Queued, Unsent, NewCommand
<1>7. Phases' /\ PendingOnce' /\ NoLostWakeup'
  BY DEF Phases, PendingOnce, NoLostWakeup, TypeOK
<1>8. CookieValid'
  BY <1>5 DEF CookieValid, TypeOK
<1>9. BufferAlive'
  <2> SUFFICES ASSUME NEW n \in Queued \cup Unsent,
                      heap'[n] # Freed, heap'[n].value # Nil, heap'[n].keys # {}
               PROVE  HeldByClient(n)'
    BY DEF BufferAlive, Queued, Unsent
  <2>1. n \in Commands /\ n # m
    BY <1>3, HeldInCommands
  <2>2. HeldByClient(n)
    BY <2>1 DEF BufferAlive, TypeOK
  <2> QED  BY <2>1, <2>2, <1>3, ConstantsAssumption DEF HeldByClient, TypeOK
<1> QED  BY <1>2, <1>4, <1>6, <1>7, <1>8, <1>9

(* Worker::schedule queues a command that is new to the queue, or rejects it. *)
LEMMA ScheduleStep == ASSUME IInv, NEW c \in Clients, Schedule(c) PROVE IInv'
<1> DEFINE m == cmd[c]
<1> USE DEF IInv, Schedule, workerVars, serverVars
<1>1. /\ m \in Commands /\ heap[m] \in CommandObject /\ heap[m] # Freed
      /\ m \notin Queued \cup batch /\ m \notin Unsent
      /\ heap[m].promise = [k \in Keys |-> EmptyPromise]
      /\ \A o \in inflight : o.cmd # m
  BY ConstantsAssumption DEF Ownership, Pristine, TypeOK, HeldByClient
<1>2. CASE m_close
  <2>1. Rejected(heap[m]) \in CommandObject /\ Rejected(heap[m]) # Freed
    BY <1>1, ConstantsAssumption DEF Rejected, CommandObject, Promise, Exception, Data
  <2>2. heap' = [heap EXCEPT ![m] = Rejected(heap[m])] /\ m_commandQueue' = m_commandQueue
    BY <1>2
  <2>3. TypeOK'
    BY <2>1, <2>2 DEF TypeOK
  <2>4. Ownership'
    BY <2>1, <2>2 DEF Ownership, TypeOK, HeldByClient, Queued, Unsent
  <2>5. Pristine'
    BY <1>1, <2>2 DEF Pristine, Ownership, TypeOK, Queued, Unsent
  <2>6. Phases' /\ PendingOnce' /\ NoLostWakeup'
    BY <2>2 DEF Phases, PendingOnce, NoLostWakeup, TypeOK
  <2>7. CookieValid'
    BY <1>1, <2>2 DEF CookieValid, TypeOK
  <2>8. BufferAlive'
    BY <1>1, <2>2 DEF BufferAlive, TypeOK, HeldByClient, Queued, Unsent
  <2> QED  BY <2>3, <2>4, <2>5, <2>6, <2>7, <2>8
<1>3. CASE ~m_close
  <2>1. m_commandQueue' = Append(m_commandQueue, m) /\ heap' = heap
    BY <1>3
  <2>2. /\ m_commandQueue' \in Seq(Commands)
        /\ Queued' = Queued \cup {m} /\ Unsent' = Unsent
        /\ IsInjective(m_commandQueue')
    BY <1>1, <2>1, AppendElements DEF TypeOK, Ownership, Queued, Unsent
  <2>3. TypeOK'
    BY <2>1, <2>2 DEF TypeOK
  <2>4. Ownership'
    BY <1>1, <2>1, <2>2 DEF Ownership, TypeOK, HeldByClient
  <2>5. Pristine'
    BY <1>1, <2>1, <2>2 DEF Pristine, TypeOK
  <2>6. Phases' /\ PendingOnce'
    BY <1>3, <2>1 DEF Phases, PendingOnce, TypeOK
  <2>7. NoLostWakeup'
    BY DEF NoLostWakeup, TypeOK
  <2>8. CookieValid'
    BY <2>1 DEF CookieValid
  <2>9. BufferAlive'
    BY <2>1, <2>2 DEF BufferAlive, HeldByClient
  <2> QED  BY <2>3, <2>4, <2>5, <2>6, <2>7, <2>8, <2>9
<1> QED  BY <1>2, <1>3

(* A caller leaves only with an answer, so it takes no unsent write with it,
   and frees the command only when the worker does not hold it. *)
LEMMA ReturnStep == ASSUME IInv, NEW c \in Clients, Return(c) PROVE IInv'
<1> DEFINE m == cmd[c]
<1> USE DEF IInv, Return, workerVars, serverVars
<1>1. m \in Commands /\ heap[m] \in CommandObject /\ heap[m] # Freed
  BY ConstantsAssumption DEF Ownership, TypeOK, HeldByClient
<1>2. /\ m \in Queued \cup batch => heap' = heap
      /\ m \notin Queued \cup batch => heap' = [heap EXCEPT ![m] = Freed]
      /\ cmd' = [cmd EXCEPT ![c] = NoCommand] /\ pc' = [pc EXCEPT ![c] = "idle"]
      /\ Queued' = Queued /\ Unsent' = Unsent /\ Unsent \subseteq batch
  BY <1>1 DEF TypeOK, Queued, Unsent, Ownership
<1>3. \A n \in Commands : n # m \/ n \in Queued \cup batch => heap'[n] = heap[n]
  BY <1>1, <1>2 DEF TypeOK
<1>4. TypeOK'
  BY <1>1, <1>2 DEF TypeOK
<1>5. Ownership'
  BY <1>1, <1>2, <1>3, ConstantsAssumption DEF Ownership, TypeOK, HeldByClient
<1>6. Pristine'
  BY <1>1, <1>2, <1>3, ConstantsAssumption DEF Pristine, Ownership, TypeOK
<1>7. Phases' /\ PendingOnce' /\ NoLostWakeup'
  BY DEF Phases, PendingOnce, NoLostWakeup, TypeOK
<1>8. CookieValid'
  BY <1>3, HeldInCommands DEF CookieValid
<1>9. BufferAlive'
  <2> SUFFICES ASSUME NEW n \in Queued \cup Unsent,
                      heap[n] # Freed, heap[n].value # Nil, heap[n].keys # {}
               PROVE  HeldByClient(n)'
    BY <1>2, <1>3, HeldInCommands DEF BufferAlive
  <2>1. n \in Commands /\ HeldByClient(n)
    BY HeldInCommands DEF BufferAlive
  <2>2. ~Answered(heap[n])
    <3>1. heap[n].promise = [k \in Keys |-> EmptyPromise] /\ heap[n].keys \subseteq Keys
      BY <2>1 DEF Pristine, TypeOK, CommandObject
    <3> QED  BY <3>1 DEF Answered, EmptyPromise
  <2>3. n # m
    BY <2>2
  <2> QED  BY <2>1, <2>3, <1>2 DEF HeldByClient, TypeOK
<1> QED  BY <1>4, <1>5, <1>6, <1>7, <1>8, <1>9

-----------------------------------------------------------------------------
(* Steps of the worker thread. *)

(* The whole queue becomes the batch, which was empty. *)
LEMMA WorkerDrainStep == ASSUME IInv, WorkerDrain PROVE IInv'
<1> USE DEF IInv, WorkerDrain, clientVars, serverVars
<1>1. /\ batch = {} /\ unsent = <<>> /\ inflight = {}
      /\ Queued' = {} /\ Unsent' = Queued /\ batch' = Queued
      /\ IsInjective(m_commandQueue') /\ m_commandQueue' \in Seq(Commands)
  BY EmptyElements DEF Phases, Queued, Unsent
<1>2. TypeOK'
  BY <1>1, HeldInCommands DEF TypeOK
<1>3. Ownership'
  BY <1>1 DEF Ownership, HeldByClient
<1>4. Pristine'
  BY <1>1 DEF Pristine
<1>5. Phases' /\ PendingOnce' /\ NoLostWakeup' /\ CookieValid'
  BY <1>1 DEF Phases, PendingOnce, NoLostWakeup, CookieValid, TypeOK
<1>6. BufferAlive'
  BY <1>1 DEF BufferAlive, HeldByClient
<1> QED  BY <1>2, <1>3, <1>4, <1>5, <1>6

(* What taking the head of unsent does, whatever is done with it. *)
LEMMA NextUnsent ==
    ASSUME IInv, unsent # <<>>, unsent' = Tail(unsent)
    PROVE  /\ Head(unsent) \in Commands /\ Head(unsent) \in batch
           /\ unsent' \in Seq(Commands) /\ IsInjective(unsent')
           /\ Unsent = {Head(unsent)} \cup Unsent' /\ Head(unsent) \notin Unsent'
           /\ Head(unsent) \notin Queued
           /\ heap[Head(unsent)] \in CommandObject /\ heap[Head(unsent)] # Freed
           /\ heap[Head(unsent)].promise = [k \in Keys |-> EmptyPromise]
           /\ \A o \in inflight : o.cmd # Head(unsent)
           /\ \A c \in Clients : cmd[c] = Head(unsent) => pc[c] # "schedule"
<1> USE DEF IInv
<1>1. /\ Head(unsent) \in Commands
      /\ unsent' \in Seq(Commands) /\ IsInjective(unsent')
      /\ Unsent = {Head(unsent)} \cup Unsent' /\ Head(unsent) \notin Unsent'
  BY HeadTailElements DEF TypeOK, Ownership, Unsent
<1> QED  BY <1>1 DEF TypeOK, Ownership, Pristine

(* A rejection answers the promises of an unsent command, which are still
   open and for which nothing is pending. *)
LEMMA WorkerRejectStep == ASSUME IInv, WorkerReject PROVE IInv'
<1> DEFINE m == Head(unsent)
<1> USE DEF IInv, WorkerReject, clientVars, serverVars
<1>1. /\ m \in Commands /\ m \in batch /\ m \notin Unsent' /\ m \notin Queued
      /\ unsent' \in Seq(Commands) /\ IsInjective(unsent')
      /\ Unsent = {m} \cup Unsent' /\ Queued' = Queued
      /\ heap[m] \in CommandObject /\ heap[m] # Freed
      /\ \A o \in inflight : o.cmd # m
      /\ \A c \in Clients : cmd[c] = m => pc[c] # "schedule"
  BY NextUnsent DEF Queued
<1>2. Rejected(heap[m]) \in CommandObject /\ Rejected(heap[m]) # Freed
  BY <1>1, ConstantsAssumption, SMTT(20) DEF Rejected, CommandObject, Promise, Exception, Data
<1>3. heap' = [heap EXCEPT ![m] = Rejected(heap[m])]
  OBVIOUS
<1>4. TypeOK'
  BY <1>1, <1>2, <1>3 DEF TypeOK
<1>5. Ownership'
  BY <1>1, <1>2, <1>3 DEF Ownership, TypeOK, HeldByClient
<1>6. Pristine'
  BY <1>1, <1>3 DEF Pristine, TypeOK
<1>7. Phases' /\ PendingOnce' /\ NoLostWakeup'
  BY DEF Phases, PendingOnce, NoLostWakeup
<1>8. CookieValid'
  BY <1>1, <1>3 DEF CookieValid, TypeOK
<1>9. BufferAlive'
  BY <1>1, <1>3, HeldInCommands DEF BufferAlive, HeldByClient, TypeOK
<1> QED  BY <1>4, <1>5, <1>6, <1>7, <1>8, <1>9

(* The operations of an unsent command are new to libcouchbase, and their
   promises are open. *)
LEMMA WorkerSubmitStep == ASSUME IInv, WorkerSubmit PROVE IInv'
<1> DEFINE m == Head(unsent)
<1> USE DEF IInv, WorkerSubmit, clientVars
<1>1. /\ m \in Commands /\ m \in batch /\ m \notin Unsent' /\ m \notin Queued
      /\ unsent' \in Seq(Commands) /\ IsInjective(unsent')
      /\ Unsent = {m} \cup Unsent' /\ Queued' = Queued
      /\ heap[m] \in CommandObject /\ heap[m] # Freed
      /\ heap[m].promise = [k \in Keys |-> EmptyPromise]
      /\ \A o \in inflight : o.cmd # m
      /\ \A c \in Clients : cmd[c] = m => pc[c] # "schedule"
  BY NextUnsent DEF Queued
<1>2. \A o \in Operations(m) : /\ o \in Operation /\ o.cmd = m
                               /\ o.key \in heap[m].keys /\ o.value = heap[m].value
  <2> SUFFICES ASSUME NEW k \in heap[m].keys \ RefusedKeys, NEW o,
                      o = [cmd |-> m, key |-> k, value |-> heap[m].value,
                           applied |-> FALSE, data |-> Nil]
               PROVE  /\ o \in Operation /\ o.cmd = m
                      /\ o.key \in heap[m].keys /\ o.value = heap[m].value
    BY DEF Operations
  <2>1. k \in Keys /\ heap[m].value \in Data /\ Nil \in Data
    BY <1>1 DEF CommandObject, Data
  <2> QED  BY <1>1, <2>1 DEF Operation
<1>3. \A o, p \in Operations(m) : o.key = p.key => o = p
  <2> SUFFICES ASSUME NEW j \in heap[m].keys, NEW k \in heap[m].keys, NEW o, NEW p,
                      o = [cmd |-> m, key |-> j, value |-> heap[m].value,
                           applied |-> FALSE, data |-> Nil],
                      p = [cmd |-> m, key |-> k, value |-> heap[m].value,
                           applied |-> FALSE, data |-> Nil],
                      o.key = p.key
               PROVE  o = p
    BY DEF Operations
  <2> QED  OBVIOUS
<1>4. TypeOK'
  BY <1>1, <1>2 DEF TypeOK
<1>5. Ownership'
  BY <1>1 DEF Ownership, HeldByClient
<1>6. Pristine'
  BY <1>1, <1>2 DEF Pristine
<1>7. Phases' /\ NoLostWakeup'
  BY DEF Phases, NoLostWakeup
<1>8. PendingOnce'
  BY <1>1, <1>2, <1>3 DEF PendingOnce
<1>9. CookieValid'
  <2> SUFFICES ASSUME NEW o \in inflight \cup Operations(m)
               PROVE  /\ o.cmd \in batch /\ heap[o.cmd] # Freed
                      /\ o.key \in heap[o.cmd].keys /\ heap[o.cmd].value = o.value
                      /\ heap[o.cmd].promise[o.key].state = "empty"
    BY DEF CookieValid
  <2>1. CASE o \in inflight  BY <2>1 DEF CookieValid
  <2>2. CASE o \in Operations(m)
    <3>1. o.key \in Keys  BY <1>2, <2>2 DEF Operation
    <3> QED  BY <1>1, <1>2, <2>2, <3>1 DEF EmptyPromise
  <2> QED  BY <2>1, <2>2
<1>10. BufferAlive'
  BY <1>1 DEF BufferAlive, HeldByClient
<1> QED  BY <1>4, <1>5, <1>6, <1>7, <1>8, <1>9, <1>10

(* When the batch is dropped nothing is pending, so no cookie is left behind. *)
LEMMA DropBatchStep ==
    ASSUME IInv, WorkerNextBatch \/ WorkerExit PROVE IInv'
<1> USE DEF IInv, WorkerNextBatch, WorkerExit, DropBatch, clientVars, serverVars
<1>1. /\ inflight = {} /\ unsent = <<>> /\ Unsent = {} /\ Unsent' = {} /\ Queued' = Queued
      /\ inflight' = {} /\ batch' = {}
  BY EmptyElements DEF Phases, Unsent, Queued, TypeOK
<1>2. \A n \in Commands : n \in Queued \/ HeldByClient(n) => heap'[n] = heap[n]
  BY DEF TypeOK
<1>3. TypeOK'
  BY DEF TypeOK
<1>4. Ownership'
  BY <1>1, <1>2 DEF Ownership, HeldByClient
<1>5. Pristine'
  BY <1>1, <1>2 DEF Pristine, HeldByClient
<1>6. Phases' /\ PendingOnce' /\ NoLostWakeup' /\ CookieValid'
  BY <1>1 DEF Phases, PendingOnce, NoLostWakeup, CookieValid
<1>7. BufferAlive'
  BY <1>1, <1>2, HeldInCommands DEF BufferAlive, HeldByClient
<1> QED  BY <1>3, <1>4, <1>5, <1>6, <1>7

-----------------------------------------------------------------------------
(* Steps of libcouchbase. *)

(* The server marks an operation as applied and changes nothing else of it. *)
LEMMA ApplyStep == ASSUME IInv, NEW o \in inflight, Apply(o) PROVE IInv'
<1> DEFINE q == [o EXCEPT !.applied = TRUE,
                          !.data = IF o.value = Nil THEN bucket[o.key] ELSE Nil]
<1> USE DEF IInv, Apply, workerVars, clientVars
<1>1. /\ o \in Operation /\ q \in Operation
      /\ q.cmd = o.cmd /\ q.key = o.key /\ q.value = o.value
      /\ inflight' = (inflight \ {o}) \cup {q}
  BY DEF TypeOK, Operation, Data
<1> HIDE DEF q
<1>2. TypeOK'
  <2>1. bucket' \in [Keys -> Data]  BY <1>1 DEF TypeOK, Operation
  <2> QED  BY <1>1, <2>1 DEF TypeOK
<1>3. Ownership'
  BY DEF Ownership, HeldByClient, Queued, Unsent
<1>4. Pristine'
  BY <1>1 DEF Pristine, Queued, Unsent
<1>5. Phases' /\ NoLostWakeup'
  BY DEF Phases, NoLostWakeup
<1>6. PendingOnce'
  BY <1>1 DEF PendingOnce
<1>7. CookieValid'
  BY <1>1 DEF CookieValid
<1>8. BufferAlive'
  BY DEF BufferAlive, HeldByClient, Queued, Unsent
<1> QED  BY <1>2, <1>3, <1>4, <1>5, <1>6, <1>7, <1>8

(* A callback fulfils the promise of a pending operation and retires it; the
   other pending operations have other promises. *)
LEMMA CompleteStep ==
    ASSUME IInv, NEW o \in inflight, NEW answer \in Promise, Complete(o, answer),
           stray' \subseteq Keys \X Values
    PROVE  IInv'
<1> DEFINE m == o.cmd
<1> USE DEF IInv, Complete, workerVars, clientVars
<1>1. /\ o \in Operation /\ m \in Commands /\ m \in batch /\ o.key \in Keys
      /\ heap[m] \in CommandObject /\ heap[m] # Freed
      /\ Unsent = {} /\ Unsent' = {} /\ Queued' = Queued /\ m \notin Queued
      /\ inflight' = inflight \ {o}
      /\ \A c \in Clients : cmd[c] = m => pc[c] # "schedule"
  BY EmptyElements DEF TypeOK, Operation, CookieValid, Ownership, Unsent, Queued
<1>2. /\ heap'[m] \in CommandObject /\ heap'[m] # Freed
      /\ heap'[m].keys = heap[m].keys /\ heap'[m].value = heap[m].value
      /\ \A k \in Keys \ {o.key} : heap'[m].promise[k] = heap[m].promise[k]
      /\ \A n \in Commands \ {m} : heap'[n] = heap[n]
  <2>1. heap' = [heap EXCEPT ![m] = [heap[m] EXCEPT !.promise =
                                        [heap[m].promise EXCEPT ![o.key] = answer]]]
    OBVIOUS
  <2>2. [heap[m].promise EXCEPT ![o.key] = answer] \in [Keys -> Promise]
    BY <1>1 DEF CommandObject
  <2>3. [heap[m] EXCEPT !.promise = [heap[m].promise EXCEPT ![o.key] = answer]] \in CommandObject
    BY <1>1, <2>2 DEF CommandObject
  <2>4. Freed \notin CommandObject
    BY ConstantsAssumption DEF CommandObject, Promise, Data
  <2>5. /\ heap'[m] = [heap[m] EXCEPT !.promise = [heap[m].promise EXCEPT ![o.key] = answer]]
        /\ \A n \in Commands \ {m} : heap'[n] = heap[n]
    BY <1>1, <2>1 DEF TypeOK
  <2>6. /\ heap'[m].keys = heap[m].keys /\ heap'[m].value = heap[m].value
        /\ heap'[m].promise = [heap[m].promise EXCEPT ![o.key] = answer]
    BY <1>1, <2>5 DEF CommandObject
  <2>7. \A k \in Keys \ {o.key} : heap'[m].promise[k] = heap[m].promise[k]
    BY <1>1, <2>6 DEF CommandObject
  <2> QED  BY <2>3, <2>4, <2>5, <2>6, <2>7
<1>3. TypeOK'
  BY <1>1, <1>2 DEF TypeOK
<1>4. Ownership'
  BY <1>1, <1>2 DEF Ownership, HeldByClient, Queued, Unsent
<1>5. Pristine'
  BY <1>1, <1>2 DEF Pristine
<1>6. Phases' /\ PendingOnce' /\ NoLostWakeup'
  BY <1>1 DEF Phases, PendingOnce, NoLostWakeup
<1>7. CookieValid'
  <2> SUFFICES ASSUME NEW p \in inflight, p # o
               PROVE  /\ p.cmd \in batch /\ heap'[p.cmd] # Freed
                      /\ p.key \in heap'[p.cmd].keys /\ heap'[p.cmd].value = p.value
                      /\ heap'[p.cmd].promise[p.key].state = "empty"
    BY <1>1 DEF CookieValid
  <2>1. p.cmd \in Commands /\ p.key \in Keys /\ (p.cmd = m => p.key # o.key)
    BY DEF TypeOK, Operation, PendingOnce
  <2> QED  BY <2>1, <1>1, <1>2 DEF CookieValid
<1>8. BufferAlive'
  BY <1>1, <1>2, HeldInCommands DEF BufferAlive, HeldByClient
<1> QED  BY <1>3, <1>4, <1>5, <1>6, <1>7, <1>8

(* Both answers of libcouchbase are callbacks. *)
LEMMA ReportStep == ASSUME IInv, NEW o \in inflight, Success(o) \/ Failure(o) PROVE IInv'
<1>1. o \in Operation /\ stray \subseteq Keys \X Values  BY DEF IInv, TypeOK
<1>2. CASE Success(o)
  <2>1. [state |-> "value", data |-> o.data] \in Promise  BY <1>1 DEF Promise, Operation
  <2> QED  BY <1>1, <1>2, <2>1, CompleteStep DEF Success
<1>3. CASE Failure(o)
  <2>1. Exception \in Promise  BY DEF Promise, Exception, Data
  <2>2. stray' \subseteq Keys \X Values  BY <1>1, <1>3 DEF Failure, Operation, Data
  <2> QED  BY <1>3, <2>1, <2>2, CompleteStep DEF Failure
<1> QED  BY <1>2, <1>3

-----------------------------------------------------------------------------
(* Stuttering keeps the invariant. *)
LEMMA StutterStep == IInv /\ UNCHANGED vars => IInv'
<1> SUFFICES ASSUME IInv, UNCHANGED vars PROVE IInv'  OBVIOUS
<1> USE DEF IInv, vars, workerVars, clientVars, serverVars
<1>1. Ownership' /\ Pristine' /\ PendingOnce' /\ CookieValid' /\ BufferAlive'
  BY FrameStep
<1>2. TypeOK' /\ Phases' /\ NoLostWakeup'
  BY DEF TypeOK, Phases, NoLostWakeup
<1> QED  BY <1>1, <1>2

(* The invariant is inductive: every action of every thread preserves it. *)
THEOREM Inductive == IInv /\ [Next]_vars => IInv'
<1> SUFFICES ASSUME IInv, [Next]_vars PROVE IInv'  OBVIOUS
<1>1. CASE \E c \in Clients, m \in Commands, r \in Requests : Create(c, m, r)
  BY <1>1, CreateStep
<1>2. CASE \E c \in Clients : ClientStep(c)
  BY <1>2, ScheduleStep, NotifyStep, ReturnStep DEF ClientStep
<1>3. CASE Execute \/ SpuriousWakeup
  BY <1>3, WorkerWaitStep, WorkerDrainStep, WorkerRejectStep, WorkerSubmitStep, DropBatchStep
     DEF Execute
<1>4. CASE \E o \in inflight : Apply(o) \/ Success(o) \/ Failure(o)
  BY <1>4, ApplyStep, ReportStep
<1>5. CASE \E w \in stray : LateWrite(w)
  BY <1>5, LateWriteStep
<1>6. CASE Destroy
  BY <1>6, DestroyStep
<1>7. CASE UNCHANGED vars
  BY <1>7, StutterStep
<1> QED  BY <1>1, <1>2, <1>3, <1>4, <1>5, <1>6, <1>7 DEF Next

(* The inductive invariant holds in every reachable state. *)
THEOREM Invariance == Spec => []IInv
  BY InitIInv, Inductive, PTL DEF Spec

(* Every variable keeps its type. *)
THEOREM TypeCorrect == Spec => []TypeOK
  BY Invariance, PTL DEF IInv

(* No wakeup of the worker thread is ever lost (Worker.cpp:30, 47, 121). *)
THEOREM WakeupsKept == Spec => []NoLostWakeup
  BY Invariance, PTL DEF IInv

(* Every callback meets a live command with an open promise
   (Command.cpp:16-32). *)
THEOREM CookiesValid == Spec => []CookieValid
  BY Invariance, PTL DEF IInv

(* A write's buffer outlives its submission (WriteMulti.cpp:14-21). *)
THEOREM BuffersAlive == Spec => []BufferAlive
  BY Invariance, PTL DEF IInv

(* After ~Worker nothing is queued, held or pending (Worker.cpp:24-32). *)
THEOREM ShutdownIsClean == Spec => []CleanShutdown
<1>1. IInv => CleanShutdown
  BY DEF IInv, Phases, CleanShutdown
<1> QED  BY <1>1, Invariance, PTL

-----------------------------------------------------------------------------
(* An answer is final. *)

FinalStep ==
    \A m \in Commands, k \in Keys :
        heap[m] # Freed /\ heap'[m] # Freed /\ heap[m].promise[k].state # "empty" =>
            heap'[m].promise[k] = heap[m].promise[k]

(* No step changes a promise that is set while its command exists. *)
LEMMA FinalInStep == IInv /\ [Next]_vars => FinalStep
<1> SUFFICES ASSUME IInv, [Next]_vars, NEW m \in Commands, NEW k \in Keys,
                    heap[m] # Freed, heap'[m] # Freed, heap[m].promise[k].state # "empty"
             PROVE  heap'[m].promise[k] = heap[m].promise[k]
  BY DEF FinalStep
<1> USE DEF IInv
<1>1. EmptyPromise.state = "empty"
  BY DEF EmptyPromise
<1>2. ASSUME NEW c \in Clients, NEW n \in Commands, NEW r \in Requests, Create(c, n, r)
      PROVE  heap'[m] = heap[m]
  BY <1>2 DEF Create, TypeOK
<1>3. ASSUME NEW c \in Clients, Schedule(c) PROVE heap'[m] = heap[m]
  <2>1. /\ cmd[c] \in Commands /\ heap[cmd[c]].promise = [j \in Keys |-> EmptyPromise]
    BY <1>3, ConstantsAssumption DEF Schedule, Ownership, Pristine, TypeOK
  <2>2. m # cmd[c]
    BY <1>1, <2>1
  <2> QED  BY <1>3, <2>1, <2>2 DEF Schedule, TypeOK
<1>4. ASSUME NEW c \in Clients, Notify(c) \/ Return(c) PROVE heap'[m] = heap[m]
  BY <1>4 DEF Notify, Return, TypeOK
<1>5. CASE WorkerReject
  <2>1. Head(unsent) \in Commands /\ heap[Head(unsent)].promise = [j \in Keys |-> EmptyPromise]
    BY <1>5, NextUnsent DEF WorkerReject
  <2>2. m # Head(unsent)
    BY <1>1, <2>1
  <2> QED  BY <1>5, <2>1, <2>2 DEF WorkerReject, TypeOK
<1>6. CASE WorkerWait \/ WorkerDrain \/ WorkerSubmit \/ SpuriousWakeup
  BY <1>6 DEF WorkerWait, WorkerDrain, WorkerSubmit, SpuriousWakeup
<1>7. CASE WorkerNextBatch \/ WorkerExit
  BY <1>7 DEF WorkerNextBatch, WorkerExit, DropBatch
<1>8. ASSUME NEW o \in inflight, NEW answer, Complete(o, answer)
      PROVE  heap'[m].promise[k] = heap[m].promise[k]
  <2>1. o.cmd \in Commands /\ ~(m = o.cmd /\ k = o.key)
    BY DEF TypeOK, Operation, CookieValid
  <2>2. heap[m] \in CommandObject
    BY DEF TypeOK
  <2>3. heap'[m] = IF m = o.cmd
                     THEN [heap[m] EXCEPT !.promise = [heap[m].promise EXCEPT ![o.key] = answer]]
                     ELSE heap[m]
    BY <1>8, <2>1 DEF Complete, TypeOK
  <2> QED  BY <2>1, <2>2, <2>3 DEF CommandObject
<1>9. ASSUME NEW o \in inflight, Apply(o) \/ Success(o) \/ Failure(o)
      PROVE  heap'[m].promise[k] = heap[m].promise[k]
  BY <1>8, <1>9 DEF Apply, Success, Failure
<1>10. CASE UNCHANGED heap
  BY <1>10
<1> QED
  BY <1>2, <1>3, <1>4, <1>5, <1>6, <1>7, <1>9, <1>10
     DEF Next, ClientStep, Execute, LateWrite, Destroy, Close, CloseNotify, Join, vars

(* An answer never changes (Read.cpp:31-54, Write.cpp:47-55). *)
THEOREM AnswersAreFinal == Spec => AnswersFinal
<1>1. IInv /\ [Next]_vars => [FinalStep]_vars
  BY FinalInStep
<1> QED  BY <1>1, Invariance, PTL DEF Spec, AnswersFinal, FinalStep

-----------------------------------------------------------------------------
(***************************************************************************)
(* The worker implements DocumentStore: each step of the worker, of a      *)
(* caller or of the server is a step of the store on the calls that CallOf *)
(* makes of the commands, or leaves them alone.                            *)
(***************************************************************************)

(* What IInv does not say of answers: a command for one key has one, and there
   are data only where a read has seen them.                                  *)
AnswerInv ==
    /\ \A m \in Commands : heap[m] # Freed =>
         /\ heap[m].multi \/ \E k \in Keys : heap[m].keys = {k}
         /\ \A k \in Keys : heap[m].promise[k].state # "value" => heap[m].promise[k].data = Nil
    /\ \A o \in inflight : ~o.applied \/ o.value # Nil => o.data = Nil

(* The store's call and stray. *)
Calling == [c \in Clients |-> CallOf(c)]
Loose   == stray \cup Abandoned

(* A command in use is a command object. *)
LEMMA LiveCommands ==
    ASSUME TypeOK, NEW m \in Commands, heap[m] # Freed
    PROVE  /\ heap[m].multi \in BOOLEAN /\ heap[m].keys \subseteq Keys /\ heap[m].value \in Data
           /\ heap[m].promise \in [Keys -> Promise]
           /\ \A k \in Keys : heap[m].promise[k].state \in {"empty", "value", "exception"}
<1>1. heap[m] \in CommandObject
  BY DEF TypeOK
<1>2. heap[m].promise \in [Keys -> Promise]
  BY <1>1 DEF CommandObject
<1> QED
  BY <1>1, <1>2 DEF CommandObject, Promise

(* A client in a call has a live command. *)
LEMMA LiveCalls ==
    ASSUME TypeOK, Ownership, NEW c \in Clients, cmd[c] # NoCommand
    PROVE  cmd[c] \in Commands /\ heap[cmd[c]] # Freed /\ HeldByClient(cmd[c])
<1>1. cmd[c] \in Commands
  BY DEF TypeOK
<1> QED
  BY <1>1 DEF Ownership, HeldByClient

-----------------------------------------------------------------------------
(* The call of a client follows its command and the operations that it has in
   libcouchbase.                                                              *)
LEMMA SameStage ==
    ASSUME NEW c \in Clients, NEW k \in Keys, cmd'[c] = cmd[c],
           heap'[cmd[c]].keys = heap[cmd[c]].keys,
           heap'[cmd[c]].promise[k] = heap[cmd[c]].promise[k],
           {o \in inflight' : o.cmd = cmd[c] /\ o.key = k} =
             {o \in inflight : o.cmd = cmd[c] /\ o.key = k}
    PROVE  StageOf(c, k)' = StageOf(c, k) /\ DataOf(c, k)' = DataOf(c, k)
<1>1. Pending(c, k)' = Pending(c, k)
  BY DEF Pending
<1>2. StageOf(c, k)' = StageOf(c, k)
  BY <1>1 DEF StageOf
<1> DEFINE seen == {o \in Pending(c, k) : o.applied}
           pick(S) == CHOOSE o \in S : TRUE
           promised == heap[cmd[c]].promise[k].data
<1>3. seen' = seen /\ promised' = promised
  BY <1>1
<1>4. /\ DataOf(c, k) = IF seen = {} THEN promised ELSE pick(seen).data
      /\ DataOf(c, k)' = IF seen' = {} THEN promised' ELSE pick(seen').data
  BY DEF DataOf
<1> HIDE DEF seen, pick, promised
<1>5. DataOf(c, k)' = DataOf(c, k)
  BY <1>3, <1>4
<1> QED
  BY <1>2, <1>5

LEMMA SameCall ==
    ASSUME NEW c \in Clients, cmd'[c] = cmd[c],
           cmd[c] # NoCommand =>
             /\ heap'[cmd[c]] = heap[cmd[c]]
             /\ {o \in inflight' : o.cmd = cmd[c]} = {o \in inflight : o.cmd = cmd[c]}
    PROVE  CallOf(c)' = CallOf(c)
<1>1. CASE cmd[c] = NoCommand
  BY <1>1 DEF CallOf
<1>2. CASE cmd[c] # NoCommand
  <2>1. ASSUME NEW k \in Keys PROVE StageOf(c, k)' = StageOf(c, k) /\ DataOf(c, k)' = DataOf(c, k)
    <3>1. {o \in inflight' : o.cmd = cmd[c] /\ o.key = k} =
            {o \in inflight : o.cmd = cmd[c] /\ o.key = k}
      BY <1>2
    <3> QED
      BY <1>2, <3>1, SameStage
  <2>2. /\ [k \in Keys |-> StageOf(c, k)]' = [k \in Keys |-> StageOf(c, k)]
        /\ [k \in Keys |-> DataOf(c, k)]' = [k \in Keys |-> DataOf(c, k)]
    BY <2>1
  <2> QED
    BY <1>2, <2>2 DEF CallOf
<1> QED
  BY <1>1, <1>2

(* A step that changes what one key of one call has come to. *)
LEMMA OneKey ==
    ASSUME NEW c \in Clients, NEW k \in Keys, NEW CONSTANT s, NEW STATE x,
           cmd' = cmd, cmd[c] # NoCommand,
           heap'[cmd[c]].multi = heap[cmd[c]].multi,
           heap'[cmd[c]].value = heap[cmd[c]].value,
           StageOf(c, k)' = s, DataOf(c, k)' = x,
           \A j \in Keys \ {k} : StageOf(c, j)' = StageOf(c, j) /\ DataOf(c, j)' = DataOf(c, j),
           \A d \in Clients \ {c} : CallOf(d)' = CallOf(d)
    PROVE  Calling' = [Calling EXCEPT ![c] = Store!Mark(Calling[c], k, s, x)]
<1> DEFINE stages == [j \in Keys |-> StageOf(c, j)]
           datas  == [j \in Keys |-> DataOf(c, j)]
<1>1. stages' = [stages EXCEPT ![k] = s] /\ datas' = [datas EXCEPT ![k] = x]
  OBVIOUS
<1>2. /\ CallOf(c) = [multi |-> heap[cmd[c]].multi, value |-> heap[cmd[c]].value,
                      stage |-> stages, data |-> datas]
      /\ CallOf(c)' = [multi |-> heap[cmd[c]].multi, value |-> heap[cmd[c]].value,
                       stage |-> stages', data |-> datas']
  BY DEF CallOf
<1> HIDE DEF stages, datas
<1>3. CallOf(c)' = Store!Mark(CallOf(c), k, s, x)
  BY <1>1, <1>2 DEF Store!Mark
<1> QED
  BY <1>3 DEF Calling

(* The data of a key are those its operation has seen, or its promise has. *)
LEMMA DataSeen ==
    ASSUME PendingOnce, NEW c \in Clients, NEW k \in Keys, NEW o \in Pending(c, k), o.applied
    PROVE  DataOf(c, k) = o.data
<1>1. {p \in Pending(c, k) : p.applied} = {o}
  BY DEF Pending, PendingOnce
<1> QED
  BY <1>1 DEF DataOf

LEMMA DataPromised ==
    ASSUME NEW c \in Clients, NEW k \in Keys, \A o \in Pending(c, k) : ~o.applied
    PROVE  DataOf(c, k) = heap[cmd[c]].promise[k].data
<1>1. {o \in Pending(c, k) : o.applied} = {}
  OBVIOUS
<1> QED
  BY <1>1 DEF DataOf

-----------------------------------------------------------------------------
(* AnswerInv is inductive together with IInv. *)
LEMMA InitAnswers == Init => AnswerInv
  BY DEF Init, AnswerInv

(* A step that leaves every command as it was, rejects it or frees it, and adds
   no operation but fresh ones. *)
LEMMA AnswersKept ==
    ASSUME TypeOK, AnswerInv,
           \A m \in Commands : \/ heap'[m] \in {heap[m], Freed}
                               \/ heap[m] # Freed /\ heap'[m] = Rejected(heap[m]),
           \A o \in inflight' : o \in inflight \/ (~o.applied /\ o.data = Nil)
    PROVE  AnswerInv'
<1>1. ASSUME NEW m \in Commands, heap'[m] # Freed
      PROVE  /\ heap'[m].multi \/ \E k \in Keys : heap'[m].keys = {k}
             /\ \A k \in Keys : heap'[m].promise[k].state # "value" =>
                               heap'[m].promise[k].data = Nil
  <2>1. CASE heap'[m] = heap[m]
    BY <1>1, <2>1 DEF AnswerInv
  <2>2. CASE heap[m] # Freed /\ heap'[m] = Rejected(heap[m])
    <3>1. CASE heap[m].multi
      BY <2>1, <2>2, <3>1 DEF Rejected
    <3>2. CASE ~heap[m].multi
      <4>1. heap[m].promise \in [Keys -> Promise]
        BY <2>2, LiveCommands
      <4>2. heap'[m] = [heap[m] EXCEPT !.promise =
                          [k \in Keys |-> IF k \in heap[m].keys THEN Exception
                                                               ELSE heap[m].promise[k]]]
        BY <2>2, <3>2 DEF Rejected
      <4> QED
        BY <2>2, <4>1, <4>2 DEF AnswerInv, Exception
    <3> QED
      BY <3>1, <3>2
  <2> QED
    BY <1>1, <2>1, <2>2
<1>2. \A o \in inflight' : ~o.applied \/ o.value # Nil => o.data = Nil
  BY DEF AnswerInv
<1> QED
  BY <1>1, <1>2 DEF AnswerInv

LEMMA ApplyAnswers ==
    ASSUME TypeOK, AnswerInv, NEW o \in inflight, Apply(o) PROVE AnswerInv'
<1>1. o \in Operation
  BY DEF TypeOK
<1>2. ASSUME NEW p \in inflight', ~p.applied \/ p.value # Nil PROVE p.data = Nil
  BY <1>1, <1>2 DEF Apply, AnswerInv, Operation
<1>3. heap' = heap
  BY DEF Apply
<1> QED
  BY <1>2, <1>3 DEF AnswerInv

(* A callback sets one promise: to the data of a read, or to none. *)
LEMMA CompleteAnswers ==
    ASSUME IInv, AnswerInv, NEW o \in inflight, NEW STATE answer, Complete(o, answer),
           answer.state # "value" => answer.data = Nil
    PROVE  AnswerInv'
<1>1. /\ o.cmd \in Commands /\ o.key \in Keys
      /\ heap \in [Commands -> CommandObject \cup {Freed}]
  BY DEF IInv, TypeOK, Operation
<1>2. heap[o.cmd] \in CommandObject
  BY <1>1 DEF IInv, CookieValid
<1>3. heap' = [heap EXCEPT ![o.cmd].promise[o.key] = answer]
  BY DEF Complete
<1>4. heap'[o.cmd] = [heap[o.cmd] EXCEPT !.promise[o.key] = answer]
  BY <1>1, <1>3
<1>5. /\ heap'[o.cmd].multi = heap[o.cmd].multi /\ heap'[o.cmd].keys = heap[o.cmd].keys
      /\ heap'[o.cmd].promise = [heap[o.cmd].promise EXCEPT ![o.key] = answer]
  BY <1>2, <1>4 DEF CommandObject
<1>6. /\ heap[o.cmd].promise \in [Keys -> Promise]
      /\ heap[o.cmd] # Freed
  BY <1>2 DEF CommandObject, IInv, CookieValid
<1>7. \A m \in Commands \ {o.cmd} : heap'[m] = heap[m]
  BY <1>1, <1>3
<1>8. \A m \in Commands : heap'[m] # Freed =>
         /\ heap'[m].multi \/ \E k \in Keys : heap'[m].keys = {k}
         /\ \A k \in Keys : heap'[m].promise[k].state # "value" => heap'[m].promise[k].data = Nil
  <2>1. ASSUME NEW k \in Keys, heap'[o.cmd].promise[k].state # "value"
        PROVE  heap'[o.cmd].promise[k].data = Nil
    BY <1>1, <1>5, <1>6, <2>1 DEF AnswerInv
  <2>2. heap'[o.cmd].multi \/ \E k \in Keys : heap'[o.cmd].keys = {k}
    BY <1>1, <1>5, <1>6 DEF AnswerInv
  <2> QED
    BY <1>7, <2>1, <2>2 DEF AnswerInv
<1>9. inflight' \subseteq inflight
  BY DEF Complete
<1> QED
  BY <1>8, <1>9 DEF AnswerInv

LEMMA AnswerStep == ASSUME IInv, AnswerInv, [Next]_vars PROVE AnswerInv'
<1> USE DEF IInv, clientVars, workerVars, serverVars
<1>1. ASSUME NEW c \in Clients, NEW m \in Commands, NEW r \in Requests, Create(c, m, r)
      PROVE AnswerInv'
  <2>1. /\ heap' = [heap EXCEPT ![m] = NewCommand(r)] /\ inflight' = inflight
        /\ heap \in [Commands -> CommandObject \cup {Freed}]
    BY <1>1 DEF Create, TypeOK
  <2>2. heap'[m] = NewCommand(r) /\ \A n \in Commands \ {m} : heap'[n] = heap[n]
    BY <2>1
  <2>3. NewCommand(r).multi \/ \E k \in Keys : NewCommand(r).keys = {k}
    BY ConstantsAssumption DEF NewCommand
  <2>4. \A k \in Keys : NewCommand(r).promise[k].data = Nil
    BY DEF NewCommand, EmptyPromise
  <2> QED
    BY <2>1, <2>2, <2>3, <2>4 DEF AnswerInv
<1>2. ASSUME NEW c \in Clients, Schedule(c) PROVE AnswerInv'
  <2>1. cmd[c] \in Commands /\ heap[cmd[c]] # Freed
    BY <1>2, LiveCalls DEF Schedule, Ownership
  <2> QED
    BY <1>2, <2>1, AnswersKept DEF Schedule, TypeOK
<1>3. ASSUME NEW c \in Clients, Return(c) PROVE AnswerInv'
  BY <1>3, AnswersKept DEF Return, TypeOK
<1>4. ASSUME WorkerReject PROVE AnswerInv'
  <2>1. Head(unsent) \in Commands /\ heap[Head(unsent)] # Freed
    BY <1>4, HeadTailElements DEF WorkerReject, TypeOK, Ownership, Unsent
  <2> QED
    BY <1>4, <2>1, AnswersKept DEF WorkerReject, TypeOK
<1>5. ASSUME WorkerSubmit PROVE AnswerInv'
  BY <1>5, AnswersKept DEF WorkerSubmit, Operations
<1>6. ASSUME DropBatch, inflight' = inflight PROVE AnswerInv'
  BY <1>6, AnswersKept DEF DropBatch
<1>7. ASSUME NEW o \in inflight, Success(o) \/ Failure(o) PROVE AnswerInv'
  BY <1>7, CompleteAnswers DEF Success, Failure, Exception
<1>8. ASSUME heap' = heap, inflight' = inflight PROVE AnswerInv'
  BY <1>8 DEF AnswerInv
<1> QED
  BY <1>1, <1>2, <1>3, <1>4, <1>5, <1>6, <1>7, <1>8, ApplyAnswers
     DEF Next, vars, ClientStep, Notify, Execute, WorkerWait, WorkerDrain, WorkerNextBatch,
         WorkerExit, SpuriousWakeup, LateWrite, Destroy, Close, CloseNotify, Join

(* A call of a client in a call is a record of the store. *)
LEMMA CallTyped ==
    ASSUME TypeOK, Ownership, NEW c \in Clients, cmd[c] # NoCommand
    PROVE  /\ Calling[c] # NoCommand /\ Calling[c] = CallOf(c)
           /\ Calling[c].multi = heap[cmd[c]].multi /\ Calling[c].value = heap[cmd[c]].value
           /\ \A k \in Keys : Calling[c].stage[k] = StageOf(c, k) /\ Calling[c].data[k] = DataOf(c, k)
<1>1. /\ cmd[c] \in Commands /\ heap[cmd[c]] # Freed
      /\ heap[cmd[c]].multi \in BOOLEAN /\ heap[cmd[c]].value \in Data
      /\ heap[cmd[c]].promise \in [Keys -> Promise]
  BY LiveCalls, LiveCommands
<1>2. Calling[c] = [multi |-> heap[cmd[c]].multi, value |-> heap[cmd[c]].value,
                    stage |-> [k \in Keys |-> StageOf(c, k)],
                    data  |-> [k \in Keys |-> DataOf(c, k)]]
  BY DEF Calling, CallOf
<1>3. ASSUME NEW k \in Keys PROVE StageOf(c, k) \in Store!Stages /\ DataOf(c, k) \in Data
  <2>1. StageOf(c, k) \in Store!Stages
    BY DEF StageOf, Store!Stages
  <2>2. heap[cmd[c]].promise[k].data \in Data
    BY <1>1 DEF Promise
  <2>3. ASSUME NEW S, S \subseteq inflight, S # {} PROVE (CHOOSE o \in S : TRUE).data \in Data
    BY <2>3 DEF TypeOK, Operation
  <2>4. {o \in Pending(c, k) : o.applied} \subseteq inflight
    BY DEF Pending
  <2> QED
    BY <2>1, <2>2, <2>3, <2>4 DEF DataOf
<1>4. Calling[c] \in Store!Calls
  <2>1. /\ [k \in Keys |-> StageOf(c, k)] \in [Keys -> Store!Stages]
        /\ [k \in Keys |-> DataOf(c, k)] \in [Keys -> Data]
    BY <1>3
  <2> QED
    BY <1>1, <1>2, <2>1 DEF Store!Calls, Store!Data, Data
<1> QED
  BY <1>2, <1>4, CallAssumption DEF Calling

-----------------------------------------------------------------------------
(* Every step is a step of the store.  First what leaves the store alone. *)
LEMMA AbandonedKept ==
    ASSUME inflight' = inflight,
           \A o \in inflight : HeldByClient(o.cmd)' <=> HeldByClient(o.cmd)
    PROVE  Abandoned' = Abandoned
  BY DEF Abandoned

LEMMA StoreKept ==
    ASSUME cmd' = cmd, inflight' = inflight, stray' = stray, bucket' = bucket,
           \A c \in Clients : cmd[c] # NoCommand => heap'[cmd[c]] = heap[cmd[c]]
    PROVE  UNCHANGED Store!vars
<1>1. \A c \in Clients : CallOf(c)' = CallOf(c)
  BY SameCall
<1>2. Abandoned' = Abandoned
  BY AbandonedKept DEF HeldByClient
<1> QED
  BY <1>1, <1>2 DEF Store!vars

(* Making a command is making the call. *)
LEMMA CreateMaps ==
    ASSUME IInv, NEW c \in Clients, NEW m \in Commands, NEW r \in Requests, Create(c, m, r)
    PROVE  Store!Invoke(c, r.keys, r.value, r.multi)
<1> USE DEF IInv, serverVars
<1>1. /\ cmd[c] = NoCommand /\ heap[m] = Freed /\ m # NoCommand
      /\ heap' = [heap EXCEPT ![m] = NewCommand(r)] /\ cmd' = [cmd EXCEPT ![c] = m]
      /\ heap'[m] = NewCommand(r) /\ cmd'[c] = m
      /\ inflight' = inflight /\ bucket' = bucket /\ stray' = stray
  BY ConstantsAssumption DEF Create, TypeOK, Ownership
<1>2. \A o \in inflight : o.cmd # m
  BY <1>1 DEF CookieValid
<1>3. ASSUME NEW d \in Clients \ {c} PROVE CallOf(d)' = CallOf(d)
  <2>1. cmd'[d] = cmd[d]
    BY <1>1
  <2>2. cmd[d] # NoCommand => cmd[d] \in Commands /\ cmd[d] # m
    BY <1>1, LiveCalls
  <2>3. cmd[d] # NoCommand => heap'[cmd[d]] = heap[cmd[d]]
    BY <1>1, <2>2
  <2> QED
    BY <1>1, <2>1, <2>3, SameCall
<1>4. /\ r.keys \subseteq Keys
      /\ NewCommand(r).keys = r.keys /\ NewCommand(r).multi = r.multi
      /\ NewCommand(r).value = r.value
      /\ \A k \in Keys : NewCommand(r).promise[k].state = "empty"
                     /\ NewCommand(r).promise[k].data = Nil
  BY ConstantsAssumption DEF NewCommand, EmptyPromise
<1>5. ASSUME NEW k \in Keys
      PROVE  StageOf(c, k)' = (IF k \in r.keys THEN "asked" ELSE "unasked") /\ DataOf(c, k)' = Nil
  <2>1. Pending(c, k)' = {}
    BY <1>1, <1>2 DEF Pending
  <2>2. DataOf(c, k)' = Nil
    BY <1>1, <1>4, <2>1 DEF DataOf
  <2> QED
    BY <1>1, <1>4, <2>1, <2>2 DEF StageOf
<1>6. CallOf(c) = NoCommand
  BY <1>1 DEF CallOf
<1>7. CallOf(c)' = [multi |-> r.multi, value |-> r.value,
                    stage |-> [k \in Keys |-> IF k \in r.keys THEN "asked" ELSE "unasked"],
                    data  |-> [k \in Keys |-> Nil]]
  <2>1. /\ [k \in Keys |-> StageOf(c, k)'] =
              [k \in Keys |-> IF k \in r.keys THEN "asked" ELSE "unasked"]
        /\ [k \in Keys |-> DataOf(c, k)'] = [k \in Keys |-> Nil]
    BY <1>5
  <2>2. CallOf(c)' = [multi |-> r.multi, value |-> r.value,
                      stage |-> [k \in Keys |-> StageOf(c, k)'],
                      data  |-> [k \in Keys |-> DataOf(c, k)']]
    BY <1>1, <1>4 DEF CallOf
  <2> QED
    BY <2>1, <2>2
<1>8. Calling' = [Calling EXCEPT ![c] =
                    [multi |-> r.multi, value |-> r.value,
                     stage |-> [k \in Keys |-> IF k \in r.keys THEN "asked" ELSE "unasked"],
                     data  |-> [k \in Keys |-> Nil]]]
  BY <1>3, <1>7 DEF Calling
<1>9. Abandoned' = Abandoned
  <2>1. ASSUME NEW o \in inflight PROVE HeldByClient(o.cmd)' <=> HeldByClient(o.cmd)
    <3>1. o.cmd # m /\ o.cmd # NoCommand
      BY <1>2, ConstantsAssumption DEF TypeOK, Operation
    <3> QED
      BY <1>1, <3>1 DEF HeldByClient, TypeOK
  <2> QED
    BY <1>1, <2>1, AbandonedKept
<1> QED
  BY <1>1, <1>6, <1>8, <1>9 DEF Store!Invoke, Calling

(* A rejection or an error status fails one key of the call. *)
LEMMA OneKeyFails ==
    ASSUME TypeOK, Ownership, NEW c \in Clients, NEW k \in Keys, cmd' = cmd, cmd[c] # NoCommand,
           heap'[cmd[c]].multi = heap[cmd[c]].multi,
           heap'[cmd[c]].value = heap[cmd[c]].value,
           StageOf(c, k) \in {"asked", "applied"},
           StageOf(c, k)' = "failed", DataOf(c, k)' = Nil,
           \A j \in Keys \ {k} : StageOf(c, j)' = StageOf(c, j) /\ DataOf(c, j)' = DataOf(c, j),
           \A d \in Clients \ {c} : CallOf(d)' = CallOf(d),
           bucket' = bucket,
           \/ Loose' = Loose
           \/ /\ StageOf(c, k) = "asked" /\ heap[cmd[c]].value # Nil
              /\ Loose' = Loose \cup {<<k, heap[cmd[c]].value>>}
    PROVE  Store!Fail(c, k)
<1>1. Calling' = [Calling EXCEPT ![c] = Store!Mark(Calling[c], k, "failed", Nil)]
  BY OneKey
<1>2. /\ Calling[c] # NoCommand /\ Calling[c].stage[k] = StageOf(c, k)
      /\ Calling[c].value = heap[cmd[c]].value
  BY CallTyped
<1> QED
  BY <1>1, <1>2 DEF Store!Fail, Calling, Loose

(* reject: it fails the key of a Read or a Write, and does nothing to a batch or
   to a command whose caller is gone. *)
LEMMA RejectMaps ==
    ASSUME IInv, AnswerInv, NEW m \in Commands, heap[m] # Freed,
           heap[m].promise = [k \in Keys |-> EmptyPromise], \A o \in inflight : o.cmd # m,
           heap' = [heap EXCEPT ![m] = Rejected(@)],
           cmd' = cmd, inflight' = inflight, bucket' = bucket, stray' = stray
    PROVE  (\E c \in Clients, k \in Keys : Store!Fail(c, k)) \/ UNCHANGED Store!vars
<1> USE DEF IInv
<1>1. heap'[m] = Rejected(heap[m]) /\ \A n \in Commands \ {m} : heap'[n] = heap[n]
  BY DEF TypeOK
<1>2. CASE heap[m].multi \/ ~HeldByClient(m)
  <2>1. ASSUME NEW c \in Clients, cmd[c] # NoCommand PROVE heap'[cmd[c]] = heap[cmd[c]]
    BY <1>1, <1>2, <2>1, LiveCalls DEF Rejected, HeldByClient
  <2> QED
    BY <2>1, StoreKept
<1>3. CASE ~heap[m].multi /\ HeldByClient(m)
  <2>1. PICK c \in Clients : cmd[c] = m
    BY <1>3 DEF HeldByClient
  <2>2. PICK k \in Keys : heap[m].keys = {k}
    BY <1>3 DEF AnswerInv
  <2>3. cmd[c] # NoCommand
    BY <2>1, ConstantsAssumption
  <2>4. heap'[m] = [heap[m] EXCEPT !.promise =
                      [j \in Keys |-> IF j \in heap[m].keys THEN Exception
                                                           ELSE heap[m].promise[j]]]
    BY <1>1, <1>3 DEF Rejected
  <2>5. /\ heap'[m].multi = heap[m].multi /\ heap'[m].value = heap[m].value
        /\ heap'[m].keys = heap[m].keys /\ heap'[m].promise[k] = Exception
        /\ \A j \in Keys \ {k} : heap'[m].promise[j] = heap[m].promise[j]
    <3>1. heap[m] \in CommandObject
      BY DEF TypeOK
    <3> QED
      BY <2>2, <2>4, <3>1 DEF CommandObject
  <2>6. Pending(c, k) = {} /\ Pending(c, k)' = {}
    BY <2>1 DEF Pending
  <2>7. StageOf(c, k) = "asked"
    BY <2>1, <2>2, <2>6 DEF StageOf, EmptyPromise
  <2>8. StageOf(c, k)' = "failed" /\ DataOf(c, k)' = Nil
    BY <2>1, <2>2, <2>5, <2>6 DEF StageOf, DataOf, Exception
  <2>9. ASSUME NEW j \in Keys \ {k}
        PROVE  StageOf(c, j)' = StageOf(c, j) /\ DataOf(c, j)' = DataOf(c, j)
    BY <2>1, <2>5, SameStage
  <2>10. ASSUME NEW d \in Clients \ {c} PROVE CallOf(d)' = CallOf(d)
    <3>1. cmd[d] # NoCommand => heap'[cmd[d]] = heap[cmd[d]]
      BY <1>1, <2>1, <2>3, LiveCalls DEF Ownership
    <3> QED
      BY <3>1, SameCall
  <2>11. Loose' = Loose
    BY AbandonedKept DEF HeldByClient, Loose
  <2> QED
    BY <2>1, <2>3, <2>5, <2>7, <2>8, <2>9, <2>10, <2>11, OneKeyFails
<1> QED
  BY <1>2, <1>3

LEMMA ScheduleMaps ==
    ASSUME IInv, AnswerInv, NEW c \in Clients, Schedule(c)
    PROVE  (\E d \in Clients, k \in Keys : Store!Fail(d, k)) \/ UNCHANGED Store!vars
<1> USE DEF IInv, serverVars
<1>1. /\ cmd[c] \in Commands /\ heap[cmd[c]] # Freed
      /\ heap[cmd[c]].promise = [k \in Keys |-> EmptyPromise]
      /\ \A o \in inflight : o.cmd # cmd[c]
  BY LiveCalls DEF Schedule, Ownership, Pristine
<1>2. CASE m_close
  BY <1>1, <1>2, RejectMaps DEF Schedule
<1>3. CASE ~m_close
  BY <1>3, StoreKept DEF Schedule
<1> QED
  BY <1>2, <1>3

LEMMA WorkerRejectMaps ==
    ASSUME IInv, AnswerInv, WorkerReject
    PROVE  (\E d \in Clients, k \in Keys : Store!Fail(d, k)) \/ UNCHANGED Store!vars
<1> USE DEF IInv, clientVars, serverVars
<1>1. Head(unsent) \in Commands /\ Head(unsent) \in Unsent
  BY HeadTailElements DEF WorkerReject, TypeOK, Unsent
<1>2. /\ heap[Head(unsent)] # Freed
      /\ heap[Head(unsent)].promise = [k \in Keys |-> EmptyPromise]
      /\ \A o \in inflight : o.cmd # Head(unsent)
  BY <1>1 DEF Ownership, Pristine
<1> QED
  BY <1>1, <1>2, RejectMaps DEF WorkerReject

(* Handing the operations of a command over asks nothing new of the store. *)
LEMMA WorkerSubmitMaps ==
    ASSUME IInv, WorkerSubmit PROVE UNCHANGED Store!vars
<1> USE DEF IInv, clientVars, serverVars
<1> DEFINE m == Head(unsent)
<1>1. m \in Commands /\ m \in Unsent
  BY HeadTailElements DEF WorkerSubmit, TypeOK, Unsent
<1>2. heap[m] # Freed /\ \A o \in inflight : o.cmd # m
  BY <1>1 DEF Ownership, Pristine
<1>3. /\ inflight' = inflight \cup Operations(m)
      /\ heap' = heap /\ cmd' = cmd /\ bucket' = bucket /\ stray' = stray
  BY DEF WorkerSubmit
<1>4. \A o \in Operations(m) : o.cmd = m /\ ~o.applied /\ o.value = heap[m].value /\ o.key \in heap[m].keys
  BY DEF Operations
<1> HIDE DEF m
<1>5. ASSUME NEW c \in Clients PROVE CallOf(c)' = CallOf(c)
  <2>1. CASE cmd[c] = m /\ cmd[c] # NoCommand
    <3>1. ASSUME NEW k \in Keys PROVE StageOf(c, k)' = StageOf(c, k) /\ DataOf(c, k)' = DataOf(c, k)
      <4>1. /\ {o \in Pending(c, k) : o.applied} = {} /\ {o \in Pending(c, k)' : o.applied} = {}
            /\ ~(\E o \in Pending(c, k) : o.applied) /\ ~(\E o \in Pending(c, k)' : o.applied)
        BY <1>2, <1>3, <1>4, <2>1 DEF Pending
      <4>2. StageOf(c, k)' = StageOf(c, k)
        BY <1>3, <4>1 DEF StageOf
      <4>3. DataOf(c, k)' = DataOf(c, k)
        BY <1>3, <4>1 DEF DataOf
      <4> QED
        BY <4>2, <4>3
    <3>2. /\ [k \in Keys |-> StageOf(c, k)]' = [k \in Keys |-> StageOf(c, k)]
          /\ [k \in Keys |-> DataOf(c, k)]' = [k \in Keys |-> DataOf(c, k)]
      BY <3>1
    <3> QED
      BY <1>3, <3>2 DEF CallOf
  <2>2. CASE cmd[c] # m \/ cmd[c] = NoCommand
    <3>1. cmd[c] # m
      BY <1>1, <2>2, ConstantsAssumption
    <3>2. {o \in inflight' : o.cmd = cmd[c]} = {o \in inflight : o.cmd = cmd[c]}
      BY <1>3, <1>4, <3>1
    <3> QED
      BY <1>3, <3>2, SameCall
  <2> QED
    BY <2>1, <2>2
<1>6. Abandoned' = Abandoned
  <2>1. ASSUME NEW o \in Operations(m), o.value # Nil PROVE HeldByClient(o.cmd)
    BY <1>1, <1>2, <1>4, <2>1 DEF BufferAlive
  <2>2. {p \in inflight' : p.value # Nil /\ ~p.applied /\ ~HeldByClient(p.cmd)'} =
          {p \in inflight : p.value # Nil /\ ~p.applied /\ ~HeldByClient(p.cmd)}
    BY <1>3, <2>1 DEF HeldByClient
  <2> QED
    BY <2>2 DEF Abandoned
<1> QED
  BY <1>3, <1>5, <1>6 DEF Store!vars

(* Freeing the batch frees nothing that a caller holds. *)
LEMMA DropBatchMaps ==
    ASSUME IInv, DropBatch, cmd' = cmd, inflight' = inflight, bucket' = bucket, stray' = stray
    PROVE  UNCHANGED Store!vars
<1> USE DEF IInv
<1>1. ASSUME NEW c \in Clients, cmd[c] # NoCommand PROVE heap'[cmd[c]] = heap[cmd[c]]
  BY <1>1, LiveCalls DEF DropBatch
<1> QED
  BY <1>1, StoreKept

-----------------------------------------------------------------------------
(* The steps of libcouchbase and of the server. *)

(* The store's LateWrite, of which the worker has two: the late write of an
   operation that failed, and the effect of one whose caller is gone. *)
LEMMA LateWriteOf ==
    ASSUME NEW w \in Loose, w \in Keys \X Values, Calling' = Calling,
           bucket' \in {bucket, [bucket EXCEPT ![w[1]] = w[2]]},
           Loose \ {w} \subseteq Loose', Loose' \subseteq Loose
    PROVE  \E x \in Keys \X Values : Store!LateWrite(x)
<1>1. Loose' \in {Loose, Loose \ {w}}
  <2>1. CASE w \in Loose'
    BY <2>1
  <2>2. CASE w \notin Loose'
    BY <2>2
  <2> QED
    BY <2>1, <2>2
<1>2. Store!LateWrite(w)
  BY <1>1 DEF Store!LateWrite, Loose, Calling
<1> QED
  BY <1>2

LEMMA LateWriteMaps ==
    ASSUME IInv, NEW w \in stray, LateWrite(w)
    PROVE  \E x \in Keys \X Values : Store!LateWrite(x)
<1> USE DEF IInv, clientVars
<1>1. heap' = heap /\ inflight' = inflight /\ cmd' = cmd
  BY DEF LateWrite
<1>2. Calling' = Calling
  BY <1>1, SameCall DEF Calling
<1>3. Abandoned' = Abandoned
  BY <1>1, AbandonedKept DEF HeldByClient
<1>4. w \in Keys \X Values /\ w \in Loose
  BY DEF TypeOK, Loose
<1> QED
  BY <1>2, <1>3, <1>4, LateWriteOf DEF LateWrite, Loose

(* The server performs an operation: the key takes effect for its caller, or,
   when the caller is gone, late. *)
LEMMA ApplyMaps ==
    ASSUME IInv, AnswerInv, NEW o \in inflight, Apply(o)
    PROVE  \/ \E c \in Clients, k \in Keys : Store!TakeEffect(c, k)
           \/ \E w \in Keys \X Values : Store!LateWrite(w)
           \/ UNCHANGED Store!vars
<1> USE DEF IInv, clientVars
<1> DEFINE seen == IF o.value = Nil THEN bucket[o.key] ELSE Nil
           done == [o EXCEPT !.applied = TRUE, !.data = seen]
<1>1. /\ o \in Operation /\ o.cmd \in Commands /\ o.key \in Keys /\ o.value \in Data
      /\ ~o.applied
  BY DEF TypeOK, Operation, Apply
<1>2. /\ inflight' = (inflight \ {o}) \cup {done}
      /\ heap' = heap /\ cmd' = cmd /\ stray' = stray
      /\ bucket' = IF o.value = Nil THEN bucket ELSE [bucket EXCEPT ![o.key] = o.value]
  BY DEF Apply
<1>3. /\ done.cmd = o.cmd /\ done.key = o.key /\ done.value = o.value
      /\ done.applied /\ done.data = seen
  BY <1>1 DEF Operation
<1> HIDE DEF done
<1>4. ASSUME NEW d \in Clients, cmd[d] # o.cmd PROVE CallOf(d)' = CallOf(d)
  <2>1. {p \in inflight' : p.cmd = cmd[d]} = {p \in inflight : p.cmd = cmd[d]}
    BY <1>2, <1>3, <1>4
  <2> QED
    BY <1>2, <2>1, SameCall
<1>5. CASE HeldByClient(o.cmd)
  <2>1. PICK c \in Clients : cmd[c] = o.cmd
    BY <1>5 DEF HeldByClient
  <2> DEFINE k == o.key
  <2>2. cmd[c] # NoCommand
    BY <1>1, <2>1, ConstantsAssumption
  <2>3. /\ k \in heap[cmd[c]].keys /\ heap[cmd[c]].promise[k].state = "empty"
        /\ heap[cmd[c]].value = o.value
    BY <2>1 DEF CookieValid
  <2>4. Pending(c, k) = {o} /\ Pending(c, k)' = {done}
    BY <1>2, <1>3, <2>1 DEF Pending, PendingOnce
  <2>5. StageOf(c, k) = "asked" /\ StageOf(c, k)' = "applied"
    BY <1>1, <1>2, <1>3, <2>3, <2>4 DEF StageOf
  <2>6. DataOf(c, k)' = seen
    <3>1. {p \in Pending(c, k)' : p.applied} = {done}
      BY <1>3, <2>4
    <3> QED
      BY <1>3, <3>1 DEF DataOf
  <2>7. ASSUME NEW j \in Keys \ {k}
        PROVE  StageOf(c, j)' = StageOf(c, j) /\ DataOf(c, j)' = DataOf(c, j)
    <3>1. {p \in inflight' : p.cmd = cmd[c] /\ p.key = j} =
            {p \in inflight : p.cmd = cmd[c] /\ p.key = j}
      BY <1>2, <1>3
    <3> QED
      BY <1>2, <3>1, SameStage
  <2>8. ASSUME NEW d \in Clients \ {c} PROVE CallOf(d)' = CallOf(d)
    BY <1>4, <2>1, <2>2, LiveCalls, SameCall DEF Ownership
  <2> HIDE DEF seen, k
  <2>9. Calling' = [Calling EXCEPT ![c] = Store!Mark(Calling[c], k, "applied", seen)]
    BY <1>1, <1>2, <2>2, <2>5, <2>6, <2>7, <2>8, OneKey DEF k
  <2>10. Loose' = Loose
    <3>1. {p \in inflight' : p.value # Nil /\ ~p.applied /\ ~HeldByClient(p.cmd)'} =
            {p \in inflight : p.value # Nil /\ ~p.applied /\ ~HeldByClient(p.cmd)}
      BY <1>2, <1>3, <1>5 DEF HeldByClient
    <3> QED
      BY <1>2, <3>1 DEF Abandoned, Loose
  <2>11. k \in Keys /\ Calling[c] # NoCommand
         /\ Calling[c].stage[k] = "asked" /\ Calling[c].value = o.value
    BY <1>1, <2>2, <2>3, <2>5, CallTyped DEF k
  <2>12. Store!TakeEffect(c, k)
    <3>1. CASE o.value = Nil
      BY <1>2, <2>9, <2>10, <2>11, <3>1 DEF Store!TakeEffect, Calling, Loose, seen, k
    <3>2. CASE o.value # Nil
      BY <1>2, <2>9, <2>10, <2>11, <3>2 DEF Store!TakeEffect, Calling, Loose, seen, k
    <3> QED
      BY <3>1, <3>2
  <2> QED
    BY <2>11, <2>12
<1>6. CASE ~HeldByClient(o.cmd)
  <2>1. Calling' = Calling
    BY <1>4, <1>6 DEF Calling, HeldByClient
  <2> DEFINE Gone == {p \in inflight : p.value # Nil /\ ~p.applied /\ ~HeldByClient(p.cmd)}
  <2>2. Gone' = Gone \ {o}
    BY <1>2, <1>3 DEF HeldByClient
  <2>3. Abandoned = {<<p.key, p.value>> : p \in Gone} /\ Abandoned' = {<<p.key, p.value>> : p \in Gone'}
    BY DEF Abandoned
  <2>4. CASE o.value = Nil
    <3>1. Gone' = Gone
      BY <2>2, <2>4
    <3>2. Abandoned' = Abandoned
      BY <2>3, <3>1
    <3> QED
      BY <1>2, <2>1, <2>4, <3>2 DEF Store!vars, Calling
  <2>5. CASE o.value # Nil
    <3> DEFINE w == <<o.key, o.value>>
    <3>1. w \in Keys \X Values /\ w[1] = o.key /\ w[2] = o.value
      BY <1>1, <2>5 DEF Data
    <3>2. w \in Abandoned
      BY <1>1, <1>6, <2>3, <2>5
    <3>3. Abandoned \ {w} \subseteq Abandoned' /\ Abandoned' \subseteq Abandoned
      BY <2>2, <2>3
    <3> HIDE DEF w
    <3>4. w \in Loose /\ Loose \ {w} \subseteq Loose' /\ Loose' \subseteq Loose
      BY <1>2, <3>2, <3>3 DEF Loose
    <3> QED
      BY <1>2, <2>1, <2>5, <3>1, <3>4, LateWriteOf
  <2> QED
    BY <2>4, <2>5
<1> QED
  BY <1>5, <1>6

(* A callback answers one key of the command it has as its cookie, and of the
   call of the client that holds it, if there still is one. *)
LEMMA CompleteCalls ==
    ASSUME IInv, AnswerInv, NEW o \in inflight, NEW STATE answer, Complete(o, answer),
           answer.state \in {"value", "exception"}
    PROVE  /\ cmd' = cmd /\ bucket' = bucket
           /\ \A d \in Clients : cmd[d] # o.cmd => CallOf(d)' = CallOf(d)
           /\ \A c \in Clients : cmd[c] = o.cmd =>
                /\ o.key \in Keys /\ cmd[c] # NoCommand
                /\ heap[cmd[c]].value = o.value
                /\ heap'[cmd[c]].multi = heap[cmd[c]].multi
                /\ heap'[cmd[c]].value = heap[cmd[c]].value
                /\ StageOf(c, o.key) = IF o.applied THEN "applied" ELSE "asked"
                /\ o.applied => DataOf(c, o.key) = o.data
                /\ StageOf(c, o.key)' = IF answer.state = "value" THEN "ok" ELSE "failed"
                /\ DataOf(c, o.key)' = answer.data
                /\ \A j \in Keys \ {o.key} :
                     StageOf(c, j)' = StageOf(c, j) /\ DataOf(c, j)' = DataOf(c, j)
                /\ \A d \in Clients \ {c} : CallOf(d)' = CallOf(d)
<1> USE DEF IInv, clientVars
<1>1. /\ o.cmd \in Commands /\ o.key \in Keys
      /\ heap \in [Commands -> CommandObject \cup {Freed}]
      /\ heap[o.cmd] \in CommandObject
  BY DEF TypeOK, Operation, CookieValid
<1>2. /\ heap' = [heap EXCEPT ![o.cmd].promise[o.key] = answer]
      /\ inflight' = inflight \ {o} /\ cmd' = cmd /\ bucket' = bucket
  BY DEF Complete
<1>3. heap'[o.cmd] = [heap[o.cmd] EXCEPT !.promise[o.key] = answer]
  BY <1>1, <1>2
<1>4. /\ heap'[o.cmd].multi = heap[o.cmd].multi /\ heap'[o.cmd].keys = heap[o.cmd].keys
      /\ heap'[o.cmd].value = heap[o.cmd].value
      /\ heap'[o.cmd].promise[o.key] = answer
      /\ \A j \in Keys \ {o.key} : heap'[o.cmd].promise[j] = heap[o.cmd].promise[j]
      /\ \A m \in Commands \ {o.cmd} : heap'[m] = heap[m]
  BY <1>1, <1>2, <1>3 DEF CommandObject
<1>5. ASSUME NEW d \in Clients, cmd[d] # o.cmd PROVE CallOf(d)' = CallOf(d)
  <2>1. {p \in inflight' : p.cmd = cmd[d]} = {p \in inflight : p.cmd = cmd[d]}
    BY <1>2, <1>5
  <2>2. cmd[d] # NoCommand => heap'[cmd[d]] = heap[cmd[d]]
    BY <1>4, <1>5, LiveCalls
  <2> QED
    BY <1>2, <2>1, <2>2, SameCall
<1>6. ASSUME NEW c \in Clients, cmd[c] = o.cmd
      PROVE  /\ o.key \in Keys /\ cmd[c] # NoCommand
             /\ heap[cmd[c]].value = o.value
             /\ heap'[cmd[c]].multi = heap[cmd[c]].multi
             /\ heap'[cmd[c]].value = heap[cmd[c]].value
             /\ StageOf(c, o.key) = IF o.applied THEN "applied" ELSE "asked"
             /\ o.applied => DataOf(c, o.key) = o.data
             /\ StageOf(c, o.key)' = IF answer.state = "value" THEN "ok" ELSE "failed"
             /\ DataOf(c, o.key)' = answer.data
             /\ \A j \in Keys \ {o.key} :
                  StageOf(c, j)' = StageOf(c, j) /\ DataOf(c, j)' = DataOf(c, j)
             /\ \A d \in Clients \ {c} : CallOf(d)' = CallOf(d)
  <2>1. /\ cmd[c] # NoCommand /\ o.key \in heap[cmd[c]].keys
        /\ heap[cmd[c]].value = o.value /\ heap[cmd[c]].promise[o.key].state = "empty"
    BY <1>1, <1>6, ConstantsAssumption DEF CookieValid
  <2>2. Pending(c, o.key) = {o} /\ Pending(c, o.key)' = {}
    BY <1>2, <1>6 DEF Pending, PendingOnce
  <2>3. StageOf(c, o.key) = IF o.applied THEN "applied" ELSE "asked"
    BY <2>1, <2>2 DEF StageOf
  <2>4. o.applied => DataOf(c, o.key) = o.data
    <3>1. o.applied => {p \in Pending(c, o.key) : p.applied} = {o}
      BY <2>2
    <3> QED
      BY <3>1 DEF DataOf
  <2>5. StageOf(c, o.key)' = IF answer.state = "value" THEN "ok" ELSE "failed"
    BY <1>2, <1>4, <1>6, <2>1 DEF StageOf
  <2>6. DataOf(c, o.key)' = answer.data
    BY <1>2, <1>4, <1>6, <2>2 DEF DataOf
  <2>7. ASSUME NEW j \in Keys \ {o.key}
        PROVE  StageOf(c, j)' = StageOf(c, j) /\ DataOf(c, j)' = DataOf(c, j)
    <3>1. {p \in inflight' : p.cmd = cmd[c] /\ p.key = j} =
            {p \in inflight : p.cmd = cmd[c] /\ p.key = j}
      BY <1>2
    <3> QED
      BY <1>2, <1>4, <1>6, <3>1, SameStage
  <2>8. ASSUME NEW d \in Clients \ {c} PROVE CallOf(d)' = CallOf(d)
    BY <1>5, <1>6, <2>1 DEF Ownership
  <2> QED
    BY <1>1, <1>4, <1>6, <2>1, <2>3, <2>4, <2>5, <2>6, <2>7, <2>8
<1> QED
  BY <1>2, <1>5, <1>6

LEMMA SuccessMaps ==
    ASSUME IInv, AnswerInv, NEW o \in inflight, Success(o)
    PROVE  (\E c \in Clients, k \in Keys : Store!Succeed(c, k)) \/ UNCHANGED Store!vars
<1> USE DEF IInv
<1> DEFINE answer == [state |-> "value", data |-> o.data]
<1>1. Complete(o, answer) /\ answer.state = "value" /\ answer.data = o.data
  BY DEF Success
<1> HIDE DEF answer
<1>2. /\ o.applied /\ stray' = stray /\ inflight' = inflight \ {o} /\ cmd' = cmd
      /\ bucket' = bucket
  BY <1>1 DEF Success, Complete, clientVars
<1>3. Loose' = Loose
  <2>1. {p \in inflight' : p.value # Nil /\ ~p.applied /\ ~HeldByClient(p.cmd)'} =
          {p \in inflight : p.value # Nil /\ ~p.applied /\ ~HeldByClient(p.cmd)}
    BY <1>2 DEF HeldByClient
  <2> QED
    BY <1>2, <2>1 DEF Abandoned, Loose
<1>4. CASE HeldByClient(o.cmd)
  <2>1. PICK c \in Clients : cmd[c] = o.cmd
    BY <1>4 DEF HeldByClient
  <2>2. /\ o.key \in Keys /\ cmd[c] # NoCommand /\ heap[cmd[c]].value = o.value
        /\ heap'[cmd[c]].multi = heap[cmd[c]].multi /\ heap'[cmd[c]].value = heap[cmd[c]].value
        /\ StageOf(c, o.key) = "applied" /\ DataOf(c, o.key) = o.data
        /\ StageOf(c, o.key)' = "ok" /\ DataOf(c, o.key)' = o.data
        /\ \A j \in Keys \ {o.key} : StageOf(c, j)' = StageOf(c, j) /\ DataOf(c, j)' = DataOf(c, j)
        /\ \A d \in Clients \ {c} : CallOf(d)' = CallOf(d)
    BY <1>1, <1>2, <2>1, CompleteCalls
  <2>3. Calling' = [Calling EXCEPT ![c] = Store!Mark(Calling[c], o.key, "ok", DataOf(c, o.key))]
    BY <1>2, <2>2, OneKey
  <2>4. /\ Calling[c] # NoCommand /\ Calling[c].stage[o.key] = "applied"
        /\ Calling[c].value = o.value /\ Calling[c].data[o.key] = o.data
    BY <2>2, CallTyped
  <2>5. o.value = Nil => o.data # Nil
    BY DEF Success
  <2>6. Store!Succeed(c, o.key)
    BY <1>2, <1>3, <2>2, <2>3, <2>4, <2>5 DEF Store!Succeed, Calling, Loose
  <2> QED
    BY <2>2, <2>6
<1>5. CASE ~HeldByClient(o.cmd)
  <2>1. Calling' = Calling
    BY <1>1, <1>5, CompleteCalls DEF Calling, HeldByClient
  <2> QED
    BY <1>2, <1>3, <2>1 DEF Store!vars, Calling, Loose
<1> QED
  BY <1>4, <1>5

(* An error status fails the key, and a write that had not been performed is
   stray from then on; it is already when its caller is gone. *)
LEMMA FailureMaps ==
    ASSUME IInv, AnswerInv, NEW o \in inflight, Failure(o)
    PROVE  (\E c \in Clients, k \in Keys : Store!Fail(c, k)) \/ UNCHANGED Store!vars
<1> USE DEF IInv
<1>1. Complete(o, Exception) /\ Exception.state = "exception" /\ Exception.data = Nil
  BY DEF Failure, Exception
<1>2. /\ inflight' = inflight \ {o} /\ cmd' = cmd /\ bucket' = bucket
      /\ stray' = IF o.value # Nil /\ ~o.applied THEN stray \cup {<<o.key, o.value>>} ELSE stray
  BY <1>1 DEF Failure, Complete, clientVars
<1> DEFINE Gone == {p \in inflight : p.value # Nil /\ ~p.applied /\ ~HeldByClient(p.cmd)}
<1>3. Gone' = Gone \ {o}
  BY <1>2 DEF HeldByClient
<1>4. Abandoned = {<<p.key, p.value>> : p \in Gone} /\ Abandoned' = {<<p.key, p.value>> : p \in Gone'}
  BY DEF Abandoned
<1>5. CASE HeldByClient(o.cmd)
  <2>1. PICK c \in Clients : cmd[c] = o.cmd
    BY <1>5 DEF HeldByClient
  <2>2. /\ o.key \in Keys /\ cmd[c] # NoCommand /\ heap[cmd[c]].value = o.value
        /\ heap'[cmd[c]].multi = heap[cmd[c]].multi /\ heap'[cmd[c]].value = heap[cmd[c]].value
        /\ StageOf(c, o.key) = (IF o.applied THEN "applied" ELSE "asked")
        /\ StageOf(c, o.key)' = "failed" /\ DataOf(c, o.key)' = Nil
        /\ \A j \in Keys \ {o.key} : StageOf(c, j)' = StageOf(c, j) /\ DataOf(c, j)' = DataOf(c, j)
        /\ \A d \in Clients \ {c} : CallOf(d)' = CallOf(d)
    BY <1>1, <1>2, <2>1, CompleteCalls
  <2>3. Gone' = Gone
    BY <1>3, <1>5
  <2>4. Abandoned' = Abandoned
    BY <1>4, <2>3
  <2>5. \/ Loose' = Loose
        \/ /\ StageOf(c, o.key) = "asked" /\ heap[cmd[c]].value # Nil
           /\ Loose' = Loose \cup {<<o.key, heap[cmd[c]].value>>}
    BY <1>2, <2>2, <2>4 DEF Loose
  <2>6. Store!Fail(c, o.key)
    BY <1>2, <2>2, <2>5, OneKeyFails
  <2> QED
    BY <2>2, <2>6
<1>6. CASE ~HeldByClient(o.cmd)
  <2>1. Calling' = Calling
    BY <1>1, <1>6, CompleteCalls DEF Calling, HeldByClient
  <2>2. Loose' = Loose
    <3>1. CASE o.value # Nil /\ ~o.applied
      <4>1. o \in Gone
        BY <1>6, <3>1
      <4>2. <<o.key, o.value>> \in Abandoned
        BY <1>4, <4>1
      <4>3. Abandoned \cup {<<o.key, o.value>>} = Abandoned' \cup {<<o.key, o.value>>}
        BY <1>3, <1>4
      <4> QED
        BY <1>2, <3>1, <4>2, <4>3 DEF Loose
    <3>2. CASE ~(o.value # Nil /\ ~o.applied)
      <4>1. Gone' = Gone
        BY <1>3, <3>2
      <4>2. Abandoned' = Abandoned
        BY <1>4, <4>1
      <4> QED
        BY <1>2, <3>2, <4>2 DEF Loose
    <3> QED
      BY <3>1, <3>2
  <2> QED
    BY <1>2, <2>1, <2>2 DEF Store!vars, Calling, Loose
<1> QED
  BY <1>5, <1>6

-----------------------------------------------------------------------------
(* The caller gets its answer.  What its command has left in libcouchbase, the
   rest of a batch of writes that failed, is stray from then on. *)
LEMMA ReturnMaps ==
    ASSUME IInv, NEW c \in Clients, Return(c) PROVE Store!Return(c)
<1> USE DEF IInv, serverVars
<1> DEFINE open == {k \in Keys : Calling[c].stage[k] \in {"asked", "applied"}}
           Gone == {p \in inflight : p.value # Nil /\ ~p.applied /\ ~HeldByClient(p.cmd)}
           Left == {p \in inflight : p.value # Nil /\ ~p.applied /\ p.cmd = cmd[c]}
           late == {<<p.key, p.value>> : p \in Left}
<1>1. /\ cmd[c] # NoCommand /\ cmd[c] \in Commands /\ heap[cmd[c]] # Freed
      /\ heap[cmd[c]].keys \subseteq Keys
      /\ \A k \in Keys : heap[cmd[c]].promise[k].state \in {"empty", "value", "exception"}
  BY LiveCalls, LiveCommands DEF Return, Ownership
<1>2. /\ Answered(heap[cmd[c]]) /\ cmd' = [cmd EXCEPT ![c] = NoCommand]
      /\ cmd'[c] = NoCommand
      /\ inflight' = inflight /\ bucket' = bucket /\ stray' = stray
      /\ \A m \in Commands \ {cmd[c]} : heap'[m] = heap[m]
  BY DEF Return, TypeOK
<1>3. ASSUME NEW d \in Clients \ {c} PROVE CallOf(d)' = CallOf(d)
  <2>1. cmd'[d] = cmd[d]
    BY <1>2
  <2>2. cmd[d] # NoCommand => heap'[cmd[d]] = heap[cmd[d]]
    BY <1>1, <1>2, LiveCalls DEF Ownership
  <2> QED
    BY <1>2, <2>1, <2>2, SameCall
<1>4. Calling' = [Calling EXCEPT ![c] = NoCommand]
  <2>1. CallOf(c)' = NoCommand
    BY <1>2 DEF CallOf
  <2> QED
    BY <1>3, <2>1 DEF Calling
<1>5. /\ Calling[c] # NoCommand /\ Calling[c].multi = heap[cmd[c]].multi
      /\ Calling[c].value = heap[cmd[c]].value
      /\ \A k \in Keys : Calling[c].stage[k] = StageOf(c, k)
  BY <1>1, CallTyped
<1>6. open = {k \in heap[cmd[c]].keys : heap[cmd[c]].promise[k].state = "empty"}
  BY <1>1, <1>5 DEF StageOf
<1>7. \/ open = {}
      \/ /\ Calling[c].multi /\ Calling[c].value # Nil
         /\ \E k \in Keys : Calling[c].stage[k] = "failed"
  <2>1. CASE \A k \in heap[cmd[c]].keys : heap[cmd[c]].promise[k].state # "empty"
    BY <1>6, <2>1
  <2>2. CASE /\ heap[cmd[c]].multi /\ heap[cmd[c]].value # Nil
             /\ \E k \in heap[cmd[c]].keys : heap[cmd[c]].promise[k].state = "exception"
    <3>1. PICK k \in heap[cmd[c]].keys : heap[cmd[c]].promise[k].state = "exception"
      BY <2>2
    <3>2. k \in Keys /\ StageOf(c, k) = "failed"
      BY <1>1, <3>1 DEF StageOf
    <3> QED
      BY <1>5, <2>2, <3>2
  <2> QED
    BY <1>2, <2>1, <2>2 DEF Answered
<1>8. late \in SUBSET {<<k, Calling[c].value>> :
                       k \in {j \in open : Calling[c].stage[j] = "asked"}}
  <2>1. ASSUME NEW p \in Left
        PROVE  /\ p.key \in open /\ Calling[c].stage[p.key] = "asked"
               /\ p.value = Calling[c].value
    <3>1. /\ p.key \in Keys /\ p.key \in heap[cmd[c]].keys
          /\ heap[cmd[c]].promise[p.key].state = "empty" /\ p.value = heap[cmd[c]].value
      BY DEF TypeOK, Operation, CookieValid
    <3>2. Pending(c, p.key) = {p}
      BY DEF Pending, PendingOnce
    <3>3. StageOf(c, p.key) = "asked"
      BY <3>1, <3>2 DEF StageOf
    <3> QED
      BY <1>5, <3>1, <3>3
  <2> QED
    BY <2>1
<1>9. Abandoned' = Abandoned \cup late
  <2>1. ASSUME NEW p \in inflight
        PROVE  HeldByClient(p.cmd)' <=> HeldByClient(p.cmd) /\ p.cmd # cmd[c]
    <3>1. p.cmd \in Commands /\ p.cmd # NoCommand
      BY ConstantsAssumption DEF TypeOK, Operation
    <3>2. \A d \in Clients \ {c} : cmd'[d] = cmd[d] /\ cmd[d] # cmd[c]
      BY <1>1, <1>2 DEF Ownership, TypeOK
    <3> QED
      BY <1>2, <3>1, <3>2 DEF HeldByClient
  <2>2. Gone' = Gone \cup Left
    BY <1>2, <2>1
  <2>3. /\ Abandoned = {<<p.key, p.value>> : p \in Gone}
        /\ Abandoned' = {<<p.key, p.value>> : p \in Gone'}
    BY DEF Abandoned
  <2> HIDE DEF Gone, Left
  <2> QED
    BY <2>2, <2>3
<1>10. Loose' = Loose \cup late
  BY <1>2, <1>9 DEF Loose
<1> HIDE DEF late
<1> QED
  BY <1>2, <1>4, <1>5, <1>7, <1>8, <1>10 DEF Store!Return, Calling, Loose

-----------------------------------------------------------------------------
LEMMA InitMaps == Init => Store!Init
<1> SUFFICES ASSUME Init PROVE Store!Init
  OBVIOUS
<1>1. \A c \in Clients : CallOf(c) = NoCommand
  BY DEF Init, CallOf
<1>2. stray \cup Abandoned = {}
  BY DEF Init, Abandoned
<1> QED
  BY <1>1, <1>2 DEF Init, Store!Init

LEMMA StepMaps == ASSUME IInv, AnswerInv, [Next]_vars PROVE [Store!Next]_(Store!vars)
<1> USE DEF clientVars, workerVars, serverVars
<1>1. ASSUME NEW c \in Clients, NEW m \in Commands, NEW r \in Requests, Create(c, m, r)
      PROVE  Store!Next
  <2>1. Store!Invoke(c, r.keys, r.value, r.multi)
    BY <1>1, CreateMaps
  <2>2. r.keys \in SUBSET Keys /\ r.value \in Store!Data /\ r.multi \in BOOLEAN
    BY ConstantsAssumption DEF Store!Data
  <2> QED
    BY <2>1, <2>2 DEF Store!Next
<1>2. ASSUME NEW c \in Clients, Schedule(c) PROVE Store!Next \/ UNCHANGED Store!vars
  BY <1>2, ScheduleMaps DEF Store!Next
<1>3. ASSUME NEW c \in Clients, Return(c) PROVE Store!Next
  BY <1>3, ReturnMaps DEF Store!Next
<1>4. ASSUME WorkerReject PROVE Store!Next \/ UNCHANGED Store!vars
  BY <1>4, WorkerRejectMaps DEF Store!Next
<1>5. ASSUME WorkerNextBatch \/ WorkerExit PROVE UNCHANGED Store!vars
  BY <1>5, DropBatchMaps DEF WorkerNextBatch, WorkerExit
<1>6. ASSUME NEW o \in inflight, Apply(o) PROVE Store!Next \/ UNCHANGED Store!vars
  BY <1>6, ApplyMaps DEF Store!Next
<1>7. ASSUME NEW o \in inflight, Success(o) \/ Failure(o)
      PROVE  Store!Next \/ UNCHANGED Store!vars
  BY <1>7, SuccessMaps, FailureMaps DEF Store!Next
<1>8. ASSUME NEW w \in stray, LateWrite(w) PROVE Store!Next
  BY <1>8, LateWriteMaps DEF Store!Next
<1>9. ASSUME UNCHANGED <<cmd, heap, inflight, bucket, stray>> PROVE UNCHANGED Store!vars
  BY <1>9, StoreKept
<1> QED
  BY <1>1, <1>2, <1>3, <1>4, <1>5, <1>6, <1>7, <1>8, <1>9, WorkerSubmitMaps
     DEF Next, vars, ClientStep, Notify, Execute, WorkerWait, WorkerDrain,
         SpuriousWakeup, Destroy, Close, CloseNotify, Join

(* The worker implements the bucket of DocumentStore, whatever the clients ask:
   each key of a call takes effect at most once, between the call and its answer,
   and success is reported only after it (Worker.cpp:59-126 and the commands). *)
THEOREM StoreImplemented == Spec => ImplementsStore
<1>1. Init => IInv /\ AnswerInv
  BY InitIInv, InitAnswers
<1>2. IInv /\ AnswerInv /\ [Next]_vars => (IInv /\ AnswerInv)'
  BY Inductive, AnswerStep
<1>3. Init => Store!Init
  BY InitMaps
<1>4. IInv /\ AnswerInv /\ [Next]_vars => [Store!Next]_(Store!vars)
  BY StepMaps
<1> QED
  BY <1>1, <1>2, <1>3, <1>4, PTL DEF Spec, ImplementsStore, Store!Spec
=============================================================================
