-------------------------- MODULE CouchbaseWorker --------------------------
(***************************************************************************)
(* Couchbase::Worker: the thread that owns one bucket connection, and the  *)
(* request threads that call it.  A caller builds a command on its heap,   *)
(* queues it under m_queueMutex, notifies m_semaphore and blocks on the    *)
(* command's future(s).  The worker takes the whole queue as one batch,    *)
(* hands every operation of every command to libcouchbase and runs         *)
(* lcb_wait until nothing is pending; the callbacks fulfil the promises.   *)
(* The destructor raises m_close, and what is queued then is rejected.     *)
(*                                                                         *)
(* A critical section of m_queueMutex is one step, except the loop that    *)
(* rejects the last batch, which holds the mutex over several.  The mutex  *)
(* is therefore held exactly when worker = "closing".                      *)
(*                                                                         *)
(* cancel() is called nowhere in the repository, so m_cancelled is left    *)
(* out: it is FALSE in every reachable state.                              *)
(***************************************************************************)
EXTENDS Sequences, Functions

CONSTANTS
    Clients,      \* request threads
    Commands,     \* addresses of command objects, reused once freed
    Keys,         \* document keys
    RefusedKeys,  \* keys lcb_get and lcb_store refuse without a callback (empty key)
    Values,       \* document contents
    Nil,          \* no document, and the value of a command that reads
    Freed,        \* the content of an address that holds no command
    NoCommand,    \* the command of a client that is not in a call
    Requests      \* the calls the clients make: what is read or stored, singly or not

ASSUME ConstantsAssumption ==
    /\ RefusedKeys \subseteq Keys
    /\ Nil \notin Values
    /\ Freed \notin [multi : BOOLEAN, keys : SUBSET Keys, value : Values \cup {Nil},
                    promise : [Keys -> [state : {"empty", "value", "exception"},
                                        data : Values \cup {Nil}]]]
    /\ NoCommand \notin Commands
    /\ Requests \subseteq [multi : BOOLEAN, keys : SUBSET Keys, value : Values \cup {Nil}]
    /\ \A r \in Requests : r.multi \/ \E k \in Keys : r.keys = {k}

VARIABLES
    m_close,         \* Worker::m_close
    m_commandQueue,  \* Worker::m_commandQueue
    closer,          \* the destructor: open, notify, join, joined
    worker,          \* execute(): check, waiting, run, closing, done
    batch,           \* the commands the worker's local vector keeps alive
    unsent,          \* the part of batch its loop has still to visit
    pc,              \* each client: idle, schedule, notify, wait
    cmd,             \* the command each client holds
    heap,            \* the command at each address
    inflight,        \* operations libcouchbase has accepted and not reported
    bucket,          \* the server: the document under each key
    stray            \* failed writes the server may still apply

vars == <<m_close, m_commandQueue, closer, worker, batch, unsent, pc, cmd, heap,
          inflight, bucket, stray>>

workerVars == <<worker, batch, unsent>>
clientVars == <<pc, cmd>>
serverVars == <<inflight, bucket, stray>>

-----------------------------------------------------------------------------
(* Commands: Read and Write have one key, ReadMulti and WriteMulti a batch. *)

Data == Values \cup {Nil}

Promise == [state : {"empty", "value", "exception"}, data : Data]

EmptyPromise == [state |-> "empty", data |-> Nil]
Exception    == [state |-> "exception", data |-> Nil]

CommandObject == [multi : BOOLEAN, keys : SUBSET Keys, value : Data,
                  promise : [Keys -> Promise]]

Operation == [cmd : Commands, key : Keys, value : Data, applied : BOOLEAN, data : Data]

(* The constructors.  ReadMulti and WriteMulti take their keys from a map,
   so a key occurs once; an empty batch is possible.                        *)
NewCommand(r) ==
    [multi |-> r.multi, keys |-> r.keys, value |-> r.value,
     promise |-> [k \in Keys |-> EmptyPromise]]

Queued == Range(m_commandQueue)
Unsent == Range(unsent)

(* Is the shared_ptr to m held by a client, by the queue or by the batch?   *)
HeldByClient(m) == \E c \in Clients : cmd[c] = m

(* The batch goes out of scope: at return, or when lcb_wait finds nothing
   pending.  A command that no client and no queue entry holds is destroyed. *)
DropBatch ==
    /\ batch' = {}
    /\ heap' = [m \in Commands |->
                  IF m \in batch \ Queued /\ ~HeldByClient(m) THEN Freed ELSE heap[m]]

-----------------------------------------------------------------------------
(* Faulty variants of the definitions below, each with a bug this code could
   have had.  No specification uses them: they show that a property can fail. *)

(* saveData and saveEntries return without waiting for their future. *)
Answered_WriteForgets(command) ==
    \/ command.value # Nil
    \/ \A k \in command.keys : command.promise[k].state # "empty"

(* getResults returns with the first entry. *)
Answered_First(command) ==
    command.keys # {} => \E k \in command.keys : command.promise[k].state # "empty"

(* schedule does not look at m_close. *)
Schedule_IgnoresClose(c) ==
    /\ pc[c] = "schedule" /\ worker # "closing"
    /\ m_commandQueue' = Append(m_commandQueue, cmd[c])
    /\ pc' = [pc EXCEPT ![c] = "notify"]
    /\ UNCHANGED <<m_close, closer, workerVars, cmd, heap, serverVars>>

(* notify_one is forgotten. *)
WorkerNotified_Never == worker

(* m_semaphore.wait(lock) without the predicate. *)
WorkerWait_NoPredicate ==
    /\ worker = "check"
    /\ worker' = "waiting"
    /\ UNCHANGED <<m_close, m_commandQueue, closer, batch, unsent, clientVars, heap, serverVars>>

(* m_commandQueue.clear() is forgotten. *)
WorkerDrain_NoClear ==
    /\ worker = "check"
    /\ m_commandQueue # <<>> \/ m_close
    /\ batch' = Queued
    /\ unsent' = m_commandQueue
    /\ worker' = IF m_close THEN "closing" ELSE "run"
    /\ UNCHANGED <<m_close, m_commandQueue, closer, clientVars, heap, serverVars>>

(* lcb_wait is given up while operations are pending. *)
WorkerNextBatch_NoWait ==
    /\ worker = "run" /\ unsent = <<>>
    /\ DropBatch
    /\ worker' = "check"
    /\ UNCHANGED <<m_close, m_commandQueue, closer, unsent, clientVars, serverVars>>

(* The destructor joins without a notify_one. *)
CloseNotify_Missing ==
    /\ closer = "notify"
    /\ closer' = "join"
    /\ UNCHANGED <<m_close, m_commandQueue, workerVars, clientVars, heap, serverVars>>

-----------------------------------------------------------------------------
(* reject(reason).  Read and Write set the exception; the overrides of
   ReadMulti and WriteMulti have an empty body.                             *)
Rejected(command) ==
    IF command.multi
      THEN command
      ELSE [command EXCEPT !.promise = [k \in Keys |-> IF k \in command.keys
                                                         THEN Exception ELSE @[k]]]

(* schedule(instance): every operation of the command is handed over; the
   status of lcb_get and lcb_store is ignored, so a refused one is dropped. *)
Operations(m) ==
    {[cmd |-> m, key |-> k, value |-> heap[m].value, applied |-> FALSE, data |-> Nil] :
       k \in heap[m].keys \ RefusedKeys}

-----------------------------------------------------------------------------
Init ==
    /\ m_close = FALSE
    /\ m_commandQueue = <<>>
    /\ closer = "open"
    /\ worker = "check"
    /\ batch = {}
    /\ unsent = <<>>
    /\ pc = [c \in Clients |-> "idle"]
    /\ cmd = [c \in Clients |-> NoCommand]
    /\ heap = [m \in Commands |-> Freed]
    /\ inflight = {}
    /\ bucket = [k \in Keys |-> Nil]
    /\ stray = {}

(* findEntry, saveData, findEntries, saveEntries: make_shared the command.  *)
Create(c, m, r) ==
    /\ pc[c] = "idle" /\ closer # "joined"
    /\ heap[m] = Freed
    /\ heap' = [heap EXCEPT ![m] = NewCommand(r)]
    /\ cmd' = [cmd EXCEPT ![c] = m]
    /\ pc' = [pc EXCEPT ![c] = "schedule"]
    /\ UNCHANGED <<m_close, m_commandQueue, closer, workerVars, serverVars>>

(* The critical section of Worker::schedule. *)
Schedule(c) ==
    /\ pc[c] = "schedule" /\ worker # "closing"
    /\ IF m_close
         THEN /\ heap' = [heap EXCEPT ![cmd[c]] = Rejected(@)]
              /\ UNCHANGED m_commandQueue
         ELSE /\ m_commandQueue' = Append(m_commandQueue, cmd[c])
              /\ UNCHANGED heap
    /\ pc' = [pc EXCEPT ![c] = "notify"]
    /\ UNCHANGED <<m_close, closer, workerVars, cmd, serverVars>>

(* What notify_one does to the only thread that ever waits. *)
WorkerNotified == IF worker = "waiting" THEN "check" ELSE worker

(* The notify_one of Worker::schedule, outside the lock. *)
Notify(c) ==
    /\ pc[c] = "notify"
    /\ worker' = WorkerNotified
    /\ pc' = [pc EXCEPT ![c] = "wait"]
    /\ UNCHANGED <<m_close, m_commandQueue, closer, batch, unsent, cmd, heap, serverVars>>

(* future.get(): a Read or a Write ends with its one promise, getResults
   with all of them, WriteMulti::wait with all or at the first exception in
   the order of the batch, which the unordered map leaves open.             *)
Answered(command) ==
    LET state(k) == command.promise[k].state
    IN  \/ \A k \in command.keys : state(k) # "empty"
        \/ command.multi /\ command.value # Nil /\ \E k \in command.keys : state(k) = "exception"

Return(c) ==
    /\ pc[c] = "wait"
    /\ Answered(heap[cmd[c]])
    /\ heap' = [heap EXCEPT ![cmd[c]] = IF cmd[c] \in Queued \cup batch THEN @ ELSE Freed]
    /\ pc' = [pc EXCEPT ![c] = "idle"]
    /\ cmd' = [cmd EXCEPT ![c] = NoCommand]
    /\ UNCHANGED <<m_close, m_commandQueue, closer, workerVars, serverVars>>

-----------------------------------------------------------------------------
(* The worker thread, Worker::execute. *)

(* m_semaphore.wait: the predicate is false, release the mutex and block.   *)
WorkerWait ==
    /\ worker = "check"
    /\ m_commandQueue = <<>> /\ ~m_close
    /\ worker' = "waiting"
    /\ UNCHANGED <<m_close, m_commandQueue, closer, batch, unsent, clientVars, heap, serverVars>>

(* A condition variable may wake its waiter for no reason. *)
SpuriousWakeup ==
    /\ worker = "waiting"
    /\ worker' = "check"
    /\ UNCHANGED <<m_close, m_commandQueue, closer, batch, unsent, clientVars, heap, serverVars>>

(* The predicate holds: drain the queue, and keep the mutex if closing. *)
WorkerDrain ==
    /\ worker = "check"
    /\ m_commandQueue # <<>> \/ m_close
    /\ batch' = Queued
    /\ unsent' = m_commandQueue
    /\ m_commandQueue' = <<>>
    /\ worker' = IF m_close THEN "closing" ELSE "run"
    /\ UNCHANGED <<m_close, closer, clientVars, heap, serverVars>>

WorkerReject ==
    /\ worker = "closing" /\ unsent # <<>>
    /\ heap' = [heap EXCEPT ![Head(unsent)] = Rejected(@)]
    /\ unsent' = Tail(unsent)
    /\ UNCHANGED <<m_close, m_commandQueue, closer, worker, batch, clientVars, serverVars>>

WorkerSubmit ==
    /\ worker = "run" /\ unsent # <<>>
    /\ inflight' = inflight \cup Operations(Head(unsent))
    /\ unsent' = Tail(unsent)
    /\ UNCHANGED <<m_close, m_commandQueue, closer, worker, batch, clientVars, heap, bucket, stray>>

WorkerNextBatch ==
    /\ worker = "run" /\ unsent = <<>> /\ inflight = {}
    /\ DropBatch
    /\ worker' = "check"
    /\ UNCHANGED <<m_close, m_commandQueue, closer, unsent, clientVars, serverVars>>

WorkerExit ==
    /\ worker = "closing" /\ unsent = <<>>
    /\ DropBatch
    /\ worker' = "done"
    /\ UNCHANGED <<m_close, m_commandQueue, closer, unsent, clientVars, serverVars>>

-----------------------------------------------------------------------------
(* libcouchbase and the server behind it. *)

(* The server performs an operation it was sent. *)
Apply(o) ==
    /\ o \in inflight /\ ~o.applied
    /\ inflight' = (inflight \ {o}) \cup
                     {[o EXCEPT !.applied = TRUE,
                                !.data = IF o.value = Nil THEN bucket[o.key] ELSE Nil]}
    /\ bucket' = IF o.value = Nil THEN bucket ELSE [bucket EXCEPT ![o.key] = o.value]
    /\ UNCHANGED <<m_close, m_commandQueue, closer, workerVars, clientVars, heap, stray>>

(* complete(response), called from lcb_wait on the worker's thread through the
   cookie, which is the command's bare address.                             *)
Complete(o, answer) ==
    /\ worker = "run" /\ unsent = <<>>
    /\ heap' = [heap EXCEPT ![o.cmd].promise[o.key] = answer]
    /\ inflight' = inflight \ {o}
    /\ UNCHANGED <<m_close, m_commandQueue, closer, workerVars, clientVars, bucket>>

Success(o) ==
    /\ o \in inflight /\ o.applied
    /\ o.value = Nil => o.data # Nil
    /\ Complete(o, [state |-> "value", data |-> o.data])
    /\ UNCHANGED stray

(* An error status: a missing document, a timeout, a lost connection.  A
   write that timed out may still be on its way.                            *)
Failure(o) ==
    /\ o \in inflight
    /\ Complete(o, Exception)
    /\ stray' = IF o.value # Nil /\ ~o.applied THEN stray \cup {<<o.key, o.value>>}
                                               ELSE stray

LateWrite(w) ==
    /\ w \in stray
    /\ bucket' \in {bucket, [bucket EXCEPT ![w[1]] = w[2]]}
    /\ stray' = stray \ {w}
    /\ UNCHANGED <<m_close, m_commandQueue, closer, workerVars, clientVars, heap, inflight>>

-----------------------------------------------------------------------------
(* Worker::~Worker, run by the thread that drops the last reference. *)

Close ==
    /\ closer = "open" /\ worker # "closing"
    /\ m_close' = TRUE
    /\ closer' = "notify"
    /\ UNCHANGED <<m_commandQueue, workerVars, clientVars, heap, serverVars>>

CloseNotify ==
    /\ closer = "notify"
    /\ worker' = WorkerNotified
    /\ closer' = "join"
    /\ UNCHANGED <<m_close, m_commandQueue, batch, unsent, clientVars, heap, serverVars>>

Join ==
    /\ closer = "join" /\ worker = "done"
    /\ closer' = "joined"
    /\ UNCHANGED <<m_close, m_commandQueue, workerVars, clientVars, heap, serverVars>>

-----------------------------------------------------------------------------
Execute == \/ WorkerWait \/ WorkerDrain \/ WorkerReject \/ WorkerSubmit
           \/ WorkerNextBatch \/ WorkerExit

Destroy == Close \/ CloseNotify \/ Join

ClientStep(c) == Schedule(c) \/ Notify(c) \/ Return(c)

Next ==
    \/ \E c \in Clients, m \in Commands, r \in Requests : Create(c, m, r)
    \/ \E c \in Clients : ClientStep(c)
    \/ Execute \/ SpuriousWakeup
    \/ \E o \in inflight : Apply(o) \/ Success(o) \/ Failure(o)
    \/ \E w \in stray : LateWrite(w)
    \/ Destroy

Spec == Init /\ [][Next]_vars

(* Threads that can run do run; once the destructor has raised m_close it goes
   on; and libcouchbase reports every operation it accepted, at the latest when
   its operation timeout expires.  Nothing is assumed of Create, of Close, of
   the server (Apply, LateWrite) or of spurious wakeups.                    *)
Report(m, k) == \E o \in inflight : o.cmd = m /\ o.key = k /\ (Success(o) \/ Failure(o))

Fairness == /\ WF_vars(Execute)
            /\ WF_vars(CloseNotify \/ Join)
            /\ \A c \in Clients : WF_vars(ClientStep(c))
            /\ \A m \in Commands, k \in Keys : WF_vars(Report(m, k))

FairSpec == Spec /\ Fairness

-----------------------------------------------------------------------------
(* Properties. *)

(* Every variable has its type. *)
TypeOK ==
    /\ m_close \in BOOLEAN
    /\ m_commandQueue \in Seq(Commands)
    /\ closer \in {"open", "notify", "join", "joined"}
    /\ worker \in {"check", "waiting", "run", "closing", "done"}
    /\ batch \subseteq Commands
    /\ unsent \in Seq(Commands)
    /\ pc \in [Clients -> {"idle", "schedule", "notify", "wait"}]
    /\ cmd \in [Clients -> Commands \cup {NoCommand}]
    /\ heap \in [Commands -> CommandObject \cup {Freed}]
    /\ inflight \subseteq Operation
    /\ bucket \in [Keys -> Data]
    /\ stray \subseteq Keys \X Values

(* The worker never sleeps on work: while it is blocked in m_semaphore.wait
   with a command queued or m_close raised, some thread is still on its way to
   notify_one (Worker.cpp:30 and 47, both after the mutex is released).     *)
NoLostWakeup ==
    worker = "waiting" /\ (m_commandQueue # <<>> \/ m_close) =>
        closer = "notify" \/ \E c \in Clients : pc[c] = "notify"

(* The callbacks get a bare pointer as their cookie (Command.cpp:16-32).  For
   every operation libcouchbase has not reported, the command at that address
   is alive, is the one that sent it, and its promise is still open: a second
   set_value would throw through the C library and end the process.         *)
CookieValid ==
    \A o \in inflight :
        /\ o.cmd \in batch
        /\ heap[o.cmd] # Freed
        /\ o.key \in heap[o.cmd].keys
        /\ heap[o.cmd].value = o.value
        /\ heap[o.cmd].promise[o.key].state = "empty"

(* lcb_cmdstore_value keeps the caller's pointer and lcb_store copies from it:
   until the worker has submitted a write, the caller that owns the buffer is
   still inside its call (Worker.cpp:161-168, WriteMulti.cpp:14-21).        *)
BufferAlive ==
    \A m \in Queued \cup Unsent :
        heap[m] # Freed /\ heap[m].value # Nil /\ heap[m].keys # {} => HeldByClient(m)

(* What ~Worker leaves behind: when join has returned, nothing is queued that
   nobody will answer, and the connection is destroyed with no operation
   pending (Worker.cpp:24-32 and 128-137).                                  *)
CleanShutdown ==
    closer = "joined" => m_commandQueue = <<>> /\ batch = {} /\ inflight = {}

(* Who holds which command.  With the properties above this is inductive. *)

(* Every holder holds a live command, and no two hold the same one, except
   that a caller may share its command with the queue or the batch.         *)
Ownership ==
    /\ \A c \in Clients : pc[c] = "idle" <=> cmd[c] = NoCommand
    /\ \A c, d \in Clients : cmd[c] = cmd[d] /\ cmd[c] # NoCommand => c = d
    /\ \A m \in Commands : HeldByClient(m) \/ m \in Queued \cup batch => heap[m] # Freed
    /\ \A c \in Clients : pc[c] = "schedule" => cmd[c] \notin Queued \cup batch
    /\ Queued \cap batch = {} /\ Unsent \subseteq batch
    /\ IsInjective(m_commandQueue) /\ IsInjective(unsent)

(* Nothing has happened yet to a command that is still to be submitted. *)
Pristine ==
    \A m \in Commands :
        (m \in Queued \cup Unsent \/ \E c \in Clients : cmd[c] = m /\ pc[c] = "schedule") =>
            /\ heap[m].promise = [k \in Keys |-> EmptyPromise]
            /\ \A o \in inflight : o.cmd # m

(* Where the worker is, against what it holds and against the destructor. *)
Phases ==
    /\ m_close <=> closer # "open"
    /\ worker \in {"closing", "done"} => m_close /\ m_commandQueue = <<>>
    /\ worker \notin {"run", "closing"} => batch = {} /\ unsent = <<>>
    /\ inflight # {} => worker = "run"
    /\ closer = "joined" => worker = "done"

(* An operation is pending once. *)
PendingOnce == \A o, p \in inflight : o.cmd = p.cmd /\ o.key = p.key => o = p

IInv == /\ TypeOK /\ Ownership /\ Pristine /\ Phases /\ PendingOnce
        /\ NoLostWakeup /\ CookieValid /\ BufferAlive

(* An answer is final: a promise that is set keeps its value for as long as the
   command exists.                                                          *)
AnswersFinal ==
    [][\A m \in Commands, k \in Keys :
         heap[m] # Freed /\ heap'[m] # Freed /\ heap[m].promise[k].state # "empty" =>
             heap'[m].promise[k] = heap[m].promise[k]]_vars

(* The worker implements the bucket of DocumentStore: each key of a call takes
   effect at most once, between the call and its answer, and reads as well as
   writes report success only after it.                                     *)
Pending(c, k) == {o \in inflight : o.cmd = cmd[c] /\ o.key = k}

StageOf(c, k) ==
    LET command == heap[cmd[c]]
        state   == command.promise[k].state
    IN  CASE k \notin command.keys -> "unasked"
          [] k \in command.keys /\ state = "value" -> "ok"
          [] k \in command.keys /\ state = "exception" -> "failed"
          [] OTHER -> IF \E o \in Pending(c, k) : o.applied THEN "applied" ELSE "asked"

DataOf(c, k) ==
    LET seen == {o \in Pending(c, k) : o.applied}
    IN  IF seen = {} THEN heap[cmd[c]].promise[k].data ELSE (CHOOSE o \in seen : TRUE).data

CallOf(c) ==
    IF cmd[c] = NoCommand
      THEN NoCommand
      ELSE [multi |-> heap[cmd[c]].multi, value |-> heap[cmd[c]].value,
            stage |-> [k \in Keys |-> StageOf(c, k)],
            data  |-> [k \in Keys |-> DataOf(c, k)]]

(* Writes of a call that has given up on its batch are stray as well. *)
Abandoned ==
    {<<o.key, o.value>> : o \in {p \in inflight : p.value # Nil /\ ~p.applied
                                                  /\ ~HeldByClient(p.cmd)}}

Store == INSTANCE DocumentStore
           WITH store <- bucket, call <- [c \in Clients |-> CallOf(c)],
                stray <- stray \cup Abandoned, NoCall <- NoCommand

(* The mark of a client that is not in a call is no call. *)
ASSUME CallAssumption == NoCommand \notin Store!Calls

ImplementsStore == Store!Spec

(* A caller gets its answer.  A Read or a Write always does, also when the
   connection is being closed; a batch does unless it is being closed; a call
   with a key that libcouchbase refuses is excluded, for it never returns.  *)
Waiting(c) == pc[c] = "wait" /\ heap[cmd[c]].keys \cap RefusedKeys = {}

CallsReturn ==
    \A c \in Clients :
        Waiting(c) ~> (pc[c] = "idle" \/ (m_close /\ heap[cmd[c]].multi))

(* The destructor returns: once m_close is raised the thread can be joined. *)
ShutdownEnds == m_close ~> closer = "joined"

(* schedule and execute tell a command that arrives while closing "Couchbase
   connection is being closed." (Worker.cpp:41, 131-132), so its caller should
   return.  It does not for ReadMulti and WriteMulti.                       *)
RejectedCallsReturn ==
    \A c \in Clients : (m_close /\ Waiting(c)) ~> pc[c] = "idle"
=============================================================================
