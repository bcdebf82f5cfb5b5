----------------------------- MODULE ThreadPool -----------------------------
(***************************************************************************)
(* Utils::ThreadPool, on which a renderer runs aspectFit and renderSprite. *)
(* A request thread calls sync: it puts a closure on m_queue, notifies     *)
(* m_semaphore and blocks on a promise that lives on its own stack and     *)
(* that the closure captured by reference.                                 *)
(*                                                                         *)
(* async declares a unique_lock without a mutex (ThreadPool.h:33), so      *)
(* emplace_back may run beside another emplace_back, and beside a pool     *)
(* thread's empty, front and pop_front.  An emplace_back lasts here from   *)
(* its call to the moment its stores have reached the other threads; the   *)
(* accesses of a pool thread are instants.  Where none falls into another, *)
(* the deque is a sequence.  Where one does (undefined behaviour), torn is *)
(* set and the deque is never to be trusted again: whoever looks at it     *)
(* may find it empty or find any closure in front, a lost one, one it has  *)
(* had before, or the bytes of one that was destroyed with its caller's    *)
(* frame.  A process that faults has no further states.                    *)
(***************************************************************************)
EXTENDS Naturals, Sequences

CONSTANTS
    Clients,   \* request threads that call sync
    Threads,   \* m_threads
    MaxCalls,  \* bound: how many calls the clients make in all
    Junk,      \* bytes in a torn deque that never were a closure
    NoOp       \* the empty std::function

ASSUME PoolAssumption == MaxCalls \in Nat /\ Junk \notin Clients /\ NoOp \notin Clients

VARIABLES
    m_stop,    \* ThreadPool::m_stop
    m_queue,   \* ThreadPool::m_queue, the clients whose closures are queued
    torn,      \* history: an emplace_back has met another access of m_queue
    calls,     \* how many calls have begun
    pc,        \* each client: idle, emplace, notify, get
    answered,  \* the clients whose promise is set
    thread,    \* each pool thread: check, toblock, waiting, pop, run, exit
    op,        \* the operation a pool thread has taken
    stopper    \* the destructor: open, notify, join, joined

vars == <<m_stop, m_queue, torn, calls, pc, answered, thread, op, stopper>>
dequeVars == <<m_queue, torn>>
clientVars == <<calls, pc, answered>>
poolVars == <<thread, op>>

Emplacing == {c \in Clients : pc[c] = "emplace"}
Blocked == {t \in Threads : thread[t] = "waiting"}

(* What a look at a torn deque may find; only its front is ever looked at. *)
Wrecks == {<<>>} \cup {<<x>> : x \in Clients \cup {Junk}}

(* An access of the deque that leaves it as after, if it meets no other. *)
Touch(met, after) ==
    /\ torn' = (torn \/ met)
    /\ m_queue' \in IF torn' THEN Wrecks ELSE {after}

(* What a notification does: threads that wait look again. *)
Wake(S) == thread' = [t \in Threads |-> IF t \in S THEN "check" ELSE thread[t]]

-----------------------------------------------------------------------------
(* Faulty variants of the definitions below, each with a bug this code could
   have had.  No specification uses them: they show that a property can fail. *)

(* sync does not wait for its future. *)
Get_NoWait(c) ==
    /\ pc[c] = "get"
    /\ pc' = [pc EXCEPT ![c] = "idle"]
    /\ UNCHANGED <<m_stop, dequeVars, calls, answered, poolVars, stopper>>

(* front() is copied, pop_front() is forgotten. *)
Pop_KeepsFront(t) ==
    /\ thread[t] = "pop"
    /\ Touch(Emplacing # {}, m_queue)
    /\ \E f \in IF torn' THEN Clients \cup {Junk, NoOp} ELSE {Head(m_queue)} :
         op' = [op EXCEPT ![t] = f]
    /\ thread' = [thread EXCEPT ![t] = "run"]
    /\ UNCHANGED <<m_stop, clientVars, stopper>>

(* async returns without a notify_one. *)
Notify_Forgotten(c) ==
    /\ pc[c] = "notify"
    /\ pc' = [pc EXCEPT ![c] = "get"]
    /\ UNCHANGED <<m_stop, dequeVars, calls, answered, poolVars, stopper>>

(* The closure that sync makes swallows the exception of its block. *)
Run_Swallows(t) ==
    /\ thread[t] = "run"
    /\ answered' \in {answered, answered \cup ({op[t]} \cap Clients)}
    /\ op' = [op EXCEPT ![t] = NoOp]
    /\ thread' = [thread EXCEPT ![t] = "check"]
    /\ UNCHANGED <<m_stop, dequeVars, calls, pc, stopper>>

(* One pool thread is woken instead of all. *)
NotifyAll_One ==
    /\ stopper = "notify"
    /\ IF Blocked = {} THEN UNCHANGED thread ELSE \E t \in Blocked : Wake({t})
    /\ stopper' = "join"
    /\ UNCHANGED <<m_stop, dequeVars, clientVars, op>>

-----------------------------------------------------------------------------
Init ==
    /\ m_stop = FALSE
    /\ m_queue = <<>> /\ torn = FALSE
    /\ calls = 0
    /\ pc = [c \in Clients |-> "idle"]
    /\ answered = {}
    /\ thread = [t \in Threads |-> "check"]
    /\ op = [t \in Threads |-> NoOp]
    /\ stopper = "open"

(* sync makes its promise and calls async, which looks at m_stop without a
   lock and returns at once when it is set, or else begins to emplace.      *)
Call(c) ==
    /\ pc[c] = "idle" /\ stopper # "joined"
    /\ calls < MaxCalls
    /\ calls' = calls + 1
    /\ answered' = answered \ {c}
    /\ \/ m_stop /\ pc' = [pc EXCEPT ![c] = "get"] /\ UNCHANGED dequeVars
       \/ ~m_stop /\ pc' = [pc EXCEPT ![c] = "emplace"] /\ Touch(Emplacing # {}, m_queue)
    /\ UNCHANGED <<m_stop, poolVars, stopper>>

(* The end of emplace_back. *)
Emplace(c) ==
    /\ pc[c] = "emplace"
    /\ Touch(FALSE, Append(m_queue, c))
    /\ pc' = [pc EXCEPT ![c] = "notify"]
    /\ UNCHANGED <<m_stop, calls, answered, poolVars, stopper>>

Notify(c) ==
    /\ pc[c] = "notify"
    /\ IF Blocked = {} THEN UNCHANGED thread ELSE \E t \in Blocked : Wake({t})
    /\ pc' = [pc EXCEPT ![c] = "get"]
    /\ UNCHANGED <<m_stop, dequeVars, calls, answered, op, stopper>>

(* promise.get_future().get(), and the frame of sync is gone. *)
Get(c) ==
    /\ pc[c] = "get" /\ c \in answered
    /\ pc' = [pc EXCEPT ![c] = "idle"]
    /\ UNCHANGED <<m_stop, dequeVars, calls, answered, poolVars, stopper>>

-----------------------------------------------------------------------------
(* A pool thread, processOperations.  It holds m_queueMutex in toblock and pop. *)

MutexFree == \A t \in Threads : thread[t] \notin {"toblock", "pop"}

(* Take the mutex and evaluate the predicate, at first or after a wakeup. *)
Check(t) ==
    /\ thread[t] = "check" /\ MutexFree
    /\ Touch(Emplacing # {}, m_queue)
    /\ thread' = [thread EXCEPT ![t] = IF m_stop THEN "exit"
                                       ELSE IF m_queue' # <<>> THEN "pop" ELSE "toblock"]
    /\ UNCHANGED <<m_stop, clientVars, op, stopper>>

(* The predicate was false: block, and release the mutex. *)
Block(t) ==
    /\ thread[t] = "toblock"
    /\ thread' = [thread EXCEPT ![t] = "waiting"]
    /\ UNCHANGED <<m_stop, dequeVars, clientVars, op, stopper>>

SpuriousWakeup(t) ==
    /\ thread[t] = "waiting"
    /\ Wake({t})
    /\ UNCHANGED <<m_stop, dequeVars, clientVars, op, stopper>>

(* The queue was not empty: copy and destroy its front.  The second empty()
   of line 52 can only differ from the predicate's in a torn deque.          *)
Pop(t) ==
    /\ thread[t] = "pop"
    /\ Touch(Emplacing # {}, Tail(m_queue))
    /\ \E f \in IF torn' THEN Clients \cup {Junk, NoOp} ELSE {Head(m_queue)} :
         op' = [op EXCEPT ![t] = f]
    /\ thread' = [thread EXCEPT ![t] = "run"]
    /\ UNCHANGED <<m_stop, clientVars, stopper>>

(* op(): the closure fulfils its caller's promise, with a value or with the
   exception it caught.  A closure from a torn deque writes where a promise of
   that caller was, and so may answer a later call.                          *)
Run(t) ==
    /\ thread[t] = "run"
    /\ answered' = answered \cup ({op[t]} \cap Clients)
    /\ op' = [op EXCEPT ![t] = NoOp]
    /\ thread' = [thread EXCEPT ![t] = "check"]
    /\ UNCHANGED <<m_stop, dequeVars, calls, pc, stopper>>

-----------------------------------------------------------------------------
(* ~ThreadPool: m_stop is set without the mutex. *)

Stop ==
    /\ stopper = "open"
    /\ m_stop' = TRUE /\ stopper' = "notify"
    /\ UNCHANGED <<dequeVars, clientVars, poolVars>>

NotifyAll ==
    /\ stopper = "notify"
    /\ Wake(Blocked)
    /\ stopper' = "join"
    /\ UNCHANGED <<m_stop, dequeVars, clientVars, op>>

Join ==
    /\ stopper = "join" /\ \A t \in Threads : thread[t] = "exit"
    /\ stopper' = "joined"
    /\ UNCHANGED <<m_stop, dequeVars, clientVars, poolVars>>

-----------------------------------------------------------------------------
ClientStep(c) == Emplace(c) \/ Notify(c) \/ Get(c)
ThreadStep(t) == Check(t) \/ Block(t) \/ Pop(t) \/ Run(t)

Next ==
    \/ \E c \in Clients : Call(c) \/ ClientStep(c)
    \/ \E t \in Threads : ThreadStep(t) \/ SpuriousWakeup(t)
    \/ Stop \/ NotifyAll \/ Join

Spec == Init /\ [][Next]_vars

(* Threads that can run do run; a mutex that becomes free again and again is
   got at last.  Calls and the destructor may never come.                   *)
FairSpec == /\ Spec
            /\ \A c \in Clients : WF_vars(ClientStep(c))
            /\ \A t \in Threads : SF_vars(Check(t)) /\ WF_vars(ThreadStep(t))
            /\ WF_vars(NotifyAll \/ Join)

-----------------------------------------------------------------------------
Several == \E t, u \in Threads : t # u

(* The callers whose frame of sync waits for its answer, its operation handed over. *)
Waiting == {c \in Clients : pc[c] \in {"notify", "get"} /\ c \notin answered}

(* A closure points into the frame of the sync that made it, and a promise set
   a second time throws (ThreadPool.h:64-77).  While no emplace_back has met
   another access of the deque, whatever is queued or taken belongs to a caller
   that is still in sync and unanswered.                                      *)
FrameAlive ==
    ~torn => \A c \in Clients :
               (\E i \in DOMAIN m_queue : m_queue[i] = c) \/ (\E t \in Threads : op[t] = c)
               => c \in Waiting

(* An operation is in one place at most: once in the queue or on one pool
   thread.  And until the destructor begins, after which async drops what it is
   given, the operation of a caller that waits is somewhere: front, pop_front
   and the run outside the mutex (ThreadPool.cpp:52-59) never lose one.        *)
HeldOnce ==
    ~torn =>
      /\ \A i, j \in DOMAIN m_queue : m_queue[i] = m_queue[j] => i = j
      /\ \A t, u \in Threads : op[t] = op[u] /\ op[t] \in Clients => t = u
      /\ \A i \in DOMAIN m_queue, t \in Threads : m_queue[i] # op[t]
      /\ \A c \in Waiting :
           \/ m_stop
           \/ \E i \in DOMAIN m_queue : m_queue[i] = c
           \/ \E t \in Threads : op[t] = c

(* async notifies without the mutex, so that its notification may fall between
   a pool thread's test and its sleep and be lost on it (ThreadPool.h:37).  In a
   pool of two threads or more this strands nothing: while the queue is not empty,
   a caller is about to notify or a pool thread is about to look.               *)
NoneStranded ==
    ~torn /\ ~m_stop /\ Several /\ m_queue # <<>> =>
      \/ \E c \in Clients : pc[c] = "notify"
      \/ \E t \in Threads : thread[t] \in {"check", "pop", "run"}

(* What the missing lock costs a pool of two threads, then, is the deque: where
   no emplace_back meets another access of it, and the pool is not being
   destroyed, every sync gets its answer (ThreadPool.h:33-37).                *)
SyncReturnsAlone ==
    Several /\ [](~torn /\ ~m_stop)
    => \A c \in Clients : pc[c] = "emplace" ~> pc[c] = "idle"

(* ~ThreadPool sets m_stop without the mutex (ThreadPool.cpp:27) and notifies
   once: join ends, whatever is queued or running, if the deque is not torn and
   no pool thread is between its test and its sleep when it does.             *)
DestructorEnds ==
    [](~torn /\ ~(stopper = "notify" /\ \E t \in Threads : thread[t] = "toblock"))
    => (stopper = "notify" ~> stopper = "joined")

(* "Execute on the thread pool", says MagickRenderer.cpp:41 of its call of
   sync: an operation handed to a pool that is not being destroyed is run.  A
   pool of one thread (transformerThreads of the configuration) does not do so
   even if the deque is never torn: a notification is lost between the thread's
   test and its sleep.                                                        *)
SyncReturns ==
    [](~torn /\ ~m_stop) => \A c \in Clients : pc[c] = "emplace" ~> pc[c] = "idle"
=============================================================================
