-------------------------- MODULE ThreadPoolProofs --------------------------
(***************************************************************************)
(* What holds of the thread pool although async takes no lock, for any     *)
(* number of callers, pool threads and calls: until an emplace_back meets  *)
(* another access of the deque, the closures queued and taken are those of *)
(* the callers that wait, each once, and a pool of two threads never       *)
(* sleeps on them.                                                         *)
(***************************************************************************)
EXTENDS ThreadPool, TLAPS

Types ==
    /\ m_queue \in Seq(Clients \cup {Junk})
    /\ torn \in BOOLEAN /\ m_stop \in BOOLEAN
    /\ pc \in [Clients -> {"idle", "emplace", "notify", "get"}]
    /\ answered \subseteq Clients
    /\ thread \in [Threads -> {"check", "toblock", "waiting", "pop", "run", "exit"}]
    /\ op \in [Threads -> Clients \cup {Junk, NoOp}]

(* The mutex has one holder, and a pool thread leaves when the pool stops. *)
Mutexed ==
    /\ \A t, u \in Threads : {thread[t], thread[u]} \subseteq {"toblock", "pop"} => t = u
    /\ \A t \in Threads : thread[t] = "exit" => m_stop

(* Where the closures are. *)
Queued(c) == \E i \in DOMAIN m_queue : m_queue[i] = c
Taken(c) == \E t \in Threads : op[t] = c

Owned ==
    /\ \A i \in DOMAIN m_queue : m_queue[i] \in Waiting
    /\ \A t \in Threads : op[t] \in Waiting \cup {NoOp}
    /\ \A t \in Threads : thread[t] # "run" => op[t] = NoOp
    /\ \A t \in Threads : thread[t] = "pop" => m_queue # <<>>
    /\ \A c \in Clients : pc[c] = "emplace" => c \notin answered
    /\ \A c, d \in Emplacing : c = d

Once ==
    /\ \A i, j \in DOMAIN m_queue : m_queue[i] = m_queue[j] => i = j
    /\ \A t, u \in Threads : op[t] = op[u] /\ op[t] \in Clients => t = u
    /\ \A i \in DOMAIN m_queue, t \in Threads : m_queue[i] # op[t]

Kept == \A c \in Waiting : m_stop \/ Queued(c) \/ Taken(c)

Awake ==
    ~m_stop /\ Several /\ m_queue # <<>> =>
      \/ \E c \in Clients : pc[c] = "notify"
      \/ \E t \in Threads : thread[t] \in {"check", "pop", "run"}

PoolInv == Types /\ Mutexed /\ (~torn => Owned /\ Once /\ Kept /\ Awake)

-----------------------------------------------------------------------------
LEMMA ShortFacts ==
    ASSUME NEW S PROVE <<>> \in Seq(S) /\ \A x \in S : <<x>> \in Seq(S)
OBVIOUS

LEMMA AppendFacts ==
    ASSUME NEW S, NEW s \in Seq(S), NEW e \in S
    PROVE  /\ Append(s, e) \in Seq(S) /\ Append(s, e) # <<>>
           /\ DOMAIN s = 1 .. Len(s) /\ Len(s) \in Nat
           /\ DOMAIN Append(s, e) = 1 .. Len(s) + 1
           /\ Append(s, e)[Len(s) + 1] = e
           /\ \A i \in DOMAIN s : Append(s, e)[i] = s[i] /\ i \in DOMAIN Append(s, e)
           /\ \A i \in DOMAIN Append(s, e) : i = Len(s) + 1 \/ i \in DOMAIN s
OBVIOUS

LEMMA TailFacts ==
    ASSUME NEW S, NEW s \in Seq(S), s # <<>>
    PROVE  /\ Tail(s) \in Seq(S)
           /\ 1 \in DOMAIN s /\ Head(s) = s[1] /\ Head(s) \in S
           /\ \A i \in DOMAIN Tail(s) : Tail(s)[i] = s[i + 1] /\ i + 1 \in DOMAIN s /\ i + 1 # 1
           /\ \A j \in DOMAIN s : j = 1 \/ (j - 1 \in DOMAIN Tail(s) /\ Tail(s)[j - 1] = s[j])
           /\ \A i, j \in DOMAIN Tail(s) : i + 1 = j + 1 => i = j
<1>1. /\ Tail(s) \in Seq(S) /\ Len(s) \in Nat \ {0} /\ DOMAIN s = 1 .. Len(s)
      /\ DOMAIN Tail(s) = 1 .. Len(s) - 1
  OBVIOUS
<1>2. Head(s) = s[1] /\ s[1] \in S
  BY <1>1
<1>3. \A i \in DOMAIN Tail(s) : Tail(s)[i] = s[i + 1]
  BY <1>1
<1>4. /\ 1 \in DOMAIN s
      /\ \A i \in DOMAIN Tail(s) : i + 1 \in DOMAIN s /\ i + 1 # 1
      /\ \A i, j \in DOMAIN Tail(s) : i + 1 = j + 1 => i = j
  BY <1>1
<1>5. ASSUME NEW j \in DOMAIN s, j # 1 PROVE j - 1 \in DOMAIN Tail(s) /\ Tail(s)[j - 1] = s[j]
  <2>1. j - 1 \in DOMAIN Tail(s) /\ (j - 1) + 1 = j
    BY <1>1, <1>5
  <2> QED
    BY <1>3, <2>1
<1> QED
  BY <1>1, <1>2, <1>3, <1>4, <1>5

(* A torn deque stays a sequence and stays torn; an untouched one is whole. *)
LEMMA TouchFacts ==
    ASSUME Types, NEW met \in BOOLEAN, NEW after, Touch(met, after),
           ~torn => after \in Seq(Clients \cup {Junk})
    PROVE  /\ torn' \in BOOLEAN /\ (torn => torn')
           /\ (~torn => m_queue' \in Seq(Clients \cup {Junk})) /\ (torn' => m_queue' \in Seq(Clients \cup {Junk}))
           /\ ~torn' => ~torn /\ ~met /\ m_queue' = after
<1>1. torn \in BOOLEAN /\ torn' = (torn \/ met)
  BY DEF Types, Touch
<1>2. \A q \in Wrecks : q \in Seq(Clients \cup {Junk})
  BY ShortFacts DEF Wrecks
<1>3. IF torn' THEN m_queue' \in Wrecks ELSE m_queue' = after
  BY DEF Touch
<1> QED
  BY <1>1, <1>2, <1>3

-----------------------------------------------------------------------------
LEMMA InitPool == Init => PoolInv
<1> SUFFICES ASSUME Init PROVE PoolInv
  OBVIOUS
<1> USE PoolAssumption DEF Init
<1>1. Types
  <2>1. m_queue \in Seq(Clients \cup {Junk})
    BY ShortFacts
  <2> QED
    BY <2>1 DEF Types
<1>2. Mutexed
  BY DEF Mutexed
<1>3. DOMAIN m_queue = {} /\ Waiting = {} /\ Emplacing = {}
  BY DEF Waiting, Emplacing
<1>4. Owned
  BY <1>3 DEF Owned
<1>5. Once /\ Kept
  BY <1>3 DEF Once, Kept
<1>6. Awake
  BY DEF Awake
<1> QED
  BY <1>1, <1>2, <1>4, <1>5, <1>6 DEF PoolInv

(* What a step that moves no closure has to keep. *)
LEMMA QuietPool ==
    ASSUME PoolInv, Types', Mutexed',
           torn => torn',
           ~torn' => UNCHANGED <<m_queue, op>> /\ Waiting \subseteq Waiting'
                     /\ (m_stop => m_stop')
                     /\ (m_stop' \/ Waiting' \subseteq Waiting)
                     /\ (\A c \in Clients : pc'[c] = "emplace" => c \notin answered')
                     /\ (\A c, d \in Emplacing' : c = d)
                     /\ (\A t \in Threads : thread[t] = "run" => thread'[t] = "run")
                     /\ (\A t \in Threads : thread'[t] = "pop" => m_queue # <<>>)
                     /\ Awake'
    PROVE  PoolInv'
<1> SUFFICES ASSUME ~torn' PROVE Owned' /\ Once' /\ Kept' /\ Awake'
  BY DEF PoolInv
<1>1. /\ ~torn /\ m_queue' = m_queue /\ op' = op /\ Waiting \subseteq Waiting'
      /\ Owned /\ Once /\ Kept
  BY DEF PoolInv
<1>2. Owned'
  <2>1. \A i \in DOMAIN m_queue' : m_queue'[i] \in Waiting'
    BY <1>1 DEF Owned
  <2>2. \A t \in Threads : op'[t] \in Waiting' \cup {NoOp}
    BY <1>1 DEF Owned
  <2>3. \A t \in Threads : thread'[t] # "run" => op'[t] = NoOp
    BY <1>1 DEF Owned
  <2>4. \A t \in Threads : thread'[t] = "pop" => m_queue' # <<>>
    BY <1>1
  <2> QED
    BY <2>1, <2>2, <2>3, <2>4 DEF Owned
<1>3. Once'
  BY <1>1 DEF Once
<1>4. Kept'
  BY <1>1 DEF Kept, Queued, Taken
<1> QED
  BY <1>2, <1>3, <1>4

(* The awake thread or caller of Awake is still awake, or another is. *)
LEMMA StillAwake ==
    ASSUME PoolInv, ~torn, m_queue' = m_queue, m_stop => m_stop',
           \A c \in Clients : pc[c] = "notify" => pc'[c] = "notify",
           \A t \in Threads : thread[t] \in {"check", "pop", "run"} =>
                              thread'[t] \in {"check", "pop", "run"}
    PROVE  Awake'
BY DEF PoolInv, Awake, Several, Types

LEMMA CallPool == ASSUME PoolInv, NEW c \in Clients, Call(c) PROVE PoolInv'
<1>1. Types /\ Mutexed
  BY DEF PoolInv
<1>2. /\ pc[c] = "idle" /\ answered' = answered \ {c} /\ UNCHANGED <<m_stop, thread, op>>
      /\ \/ m_stop /\ pc' = [pc EXCEPT ![c] = "get"] /\ UNCHANGED dequeVars
         \/ ~m_stop /\ pc' = [pc EXCEPT ![c] = "emplace"] /\ Touch(Emplacing # {}, m_queue)
  BY DEF Call, poolVars
<1>3. /\ torn' \in BOOLEAN /\ (torn => torn') /\ m_queue' \in Seq(Clients \cup {Junk})
      /\ ~torn' => m_queue' = m_queue
      /\ ~torn' /\ ~m_stop => Emplacing = {}
  BY <1>1, <1>2, TouchFacts DEF Types, dequeVars
<1>4. \A d \in Clients : IF d = c THEN pc'[d] = (IF m_stop THEN "get" ELSE "emplace")
                         ELSE pc'[d] = pc[d]
  BY <1>1, <1>2 DEF Types
<1>5. Types'
  BY <1>1, <1>2, <1>3 DEF Types
<1>6. Mutexed'
  BY <1>1, <1>2 DEF Mutexed
<1>7. ASSUME ~torn'
      PROVE  /\ UNCHANGED <<m_queue, op>> /\ Waiting \subseteq Waiting'
             /\ (m_stop => m_stop') /\ (m_stop' \/ Waiting' \subseteq Waiting)
             /\ (\A d \in Clients : pc'[d] = "emplace" => d \notin answered')
             /\ (\A d, e \in Emplacing' : d = e)
             /\ (\A t \in Threads : thread[t] = "run" => thread'[t] = "run")
             /\ (\A t \in Threads : thread'[t] = "pop" => m_queue # <<>>)
             /\ Awake'
  <2>1. ~torn /\ m_queue' = m_queue /\ Owned
    BY <1>3, <1>7 DEF PoolInv
  <2>2. c \notin Waiting /\ Waiting \subseteq Waiting' /\ (m_stop \/ Waiting' \subseteq Waiting)
    BY <1>2, <1>4 DEF Waiting
  <2>3. \A d \in Clients : pc'[d] = "emplace" => d \notin answered'
    BY <1>2, <1>4, <2>1 DEF Owned
  <2>4. \A d, e \in Emplacing' : d = e
    <3>1. CASE m_stop
      BY <1>4, <2>1, <3>1 DEF Owned, Emplacing
    <3>2. CASE ~m_stop
      BY <1>3, <1>4, <1>7, <3>2 DEF Emplacing
    <3> QED
      BY <3>1, <3>2
  <2>5. Awake'
    BY <1>2, <1>4, <2>1, StillAwake
  <2> QED
    BY <1>2, <2>1, <2>2, <2>3, <2>4, <2>5 DEF Owned
<1> QED
  BY <1>3, <1>5, <1>6, <1>7, QuietPool

(* The new closure is that of a caller that had none, behind the others. *)
LEMMA EmplacePool == ASSUME PoolInv, NEW c \in Clients, Emplace(c) PROVE PoolInv'
<1>1. Types /\ Mutexed
  BY DEF PoolInv
<1>2. /\ pc[c] = "emplace" /\ Touch(FALSE, Append(m_queue, c)) /\ pc' = [pc EXCEPT ![c] = "notify"]
      /\ UNCHANGED <<m_stop, answered, thread, op>>
  BY DEF Emplace, poolVars
<1>3. Append(m_queue, c) \in Seq(Clients \cup {Junk})
  BY <1>1, AppendFacts DEF Types
<1>4. /\ torn' \in BOOLEAN /\ (torn => torn') /\ m_queue' \in Seq(Clients \cup {Junk})
      /\ ~torn' => ~torn /\ m_queue' = Append(m_queue, c)
  BY <1>1, <1>2, <1>3, TouchFacts DEF Types
<1>5. \A d \in Clients : pc'[d] = IF d = c THEN "notify" ELSE pc[d]
  BY <1>1, <1>2 DEF Types
<1>6. Types'
  BY <1>1, <1>2, <1>4 DEF Types
<1>7. Mutexed'
  BY <1>1, <1>2 DEF Mutexed
<1> SUFFICES ASSUME ~torn' PROVE Owned' /\ Once' /\ Kept' /\ Awake'
  BY <1>6, <1>7 DEF PoolInv
<1>8. m_queue' = Append(m_queue, c) /\ Owned /\ Once /\ Kept
  BY <1>4 DEF PoolInv
<1> DEFINE n == Len(m_queue) + 1
<1>9. /\ n \in DOMAIN m_queue' /\ m_queue'[n] = c /\ m_queue' # <<>> /\ n \notin DOMAIN m_queue
      /\ \A i \in DOMAIN m_queue : i \in DOMAIN m_queue' /\ m_queue'[i] = m_queue[i]
      /\ \A i \in DOMAIN m_queue' : i = n \/ i \in DOMAIN m_queue
  BY <1>1, <1>8, AppendFacts DEF Types
<1> HIDE DEF n
<1>10. c \notin Waiting /\ Waiting' = Waiting \cup {c}
  BY <1>2, <1>5, <1>8 DEF Waiting, Owned
<1>11. c \in Clients \ {NoOp}
  BY PoolAssumption
<1>12. Owned'
  <2>1. \A i \in DOMAIN m_queue' : m_queue'[i] \in Waiting'
    BY <1>8, <1>9, <1>10 DEF Owned
  <2>2. \A t \in Threads : op'[t] \in Waiting' \cup {NoOp}
    BY <1>2, <1>8, <1>10 DEF Owned
  <2>3. \A t \in Threads : (thread'[t] # "run" => op'[t] = NoOp)
    BY <1>2, <1>8 DEF Owned
  <2>4. /\ \A d \in Clients : pc'[d] = "emplace" => d \notin answered'
        /\ \A d, e \in Emplacing' : d = e
    BY <1>2, <1>5, <1>8 DEF Owned, Emplacing
  <2> QED
    BY <1>9, <2>1, <2>2, <2>3, <2>4 DEF Owned
<1>13. Once'
  <2>1. \A i \in DOMAIN m_queue : m_queue[i] # c
    BY <1>8, <1>10 DEF Owned
  <2>2. \A t \in Threads : op'[t] # c /\ op'[t] = op[t]
    BY <1>2, <1>8, <1>10, <1>11 DEF Owned
  <2>3. \A i, j \in DOMAIN m_queue' : m_queue'[i] = m_queue'[j] => i = j
    BY <1>8, <1>9, <2>1 DEF Once
  <2>4. \A i \in DOMAIN m_queue', t \in Threads : m_queue'[i] # op'[t]
    BY <1>8, <1>9, <2>2 DEF Once
  <2> QED
    BY <1>8, <2>2, <2>3, <2>4 DEF Once
<1>14. Kept'
  BY <1>2, <1>8, <1>9, <1>10 DEF Kept, Queued, Taken
<1>15. Awake'
  BY <1>5 DEF Awake
<1> QED
  BY <1>12, <1>13, <1>14, <1>15

(* A woken thread will look again; if none sleeps, one of two is not past its
   test, for the mutex lets one at a time be between its test and its sleep.  *)
LEMMA NotifyPool == ASSUME PoolInv, NEW c \in Clients, Notify(c) PROVE PoolInv'
<1>1. Types /\ Mutexed
  BY DEF PoolInv
<1>2. /\ pc[c] = "notify" /\ pc' = [pc EXCEPT ![c] = "get"]
      /\ UNCHANGED <<m_stop, m_queue, torn, answered, op>>
  BY DEF Notify, dequeVars
<1>3. \/ Blocked = {} /\ thread' = thread
      \/ \E t \in Blocked : thread'[t] = "check"
  BY DEF Notify, Wake, Blocked
<1>4. \A t \in Threads : thread'[t] = thread[t] \/ (t \in Blocked /\ thread'[t] = "check")
  BY <1>1 DEF Notify, Wake, Types
<1>5. \A d \in Clients : pc'[d] = IF d = c THEN "get" ELSE pc[d]
  BY <1>1, <1>2 DEF Types
<1>6. Types'
  <2>1. thread' \in [Threads -> {"check", "toblock", "waiting", "pop", "run", "exit"}]
    BY <1>1 DEF Notify, Wake, Types
  <2> QED
    BY <1>1, <1>2, <2>1 DEF Types
<1>7. Mutexed'
  BY <1>1, <1>2, <1>4 DEF Mutexed
<1>8. ASSUME ~torn'
      PROVE  /\ UNCHANGED <<m_queue, op>> /\ Waiting \subseteq Waiting'
             /\ (m_stop => m_stop') /\ (m_stop' \/ Waiting' \subseteq Waiting)
             /\ (\A d \in Clients : pc'[d] = "emplace" => d \notin answered')
             /\ (\A d, e \in Emplacing' : d = e)
             /\ (\A t \in Threads : thread[t] = "run" => thread'[t] = "run")
             /\ (\A t \in Threads : thread'[t] = "pop" => m_queue # <<>>)
             /\ Awake'
  <2>1. Owned /\ Awake
    BY <1>2, <1>8 DEF PoolInv
  <2>2. Waiting' = Waiting /\ Emplacing' = Emplacing
    BY <1>2, <1>5 DEF Waiting, Emplacing
  <2>3. \A d \in Clients : pc'[d] = "emplace" => d \notin answered'
    BY <1>2, <1>5, <2>1 DEF Owned
  <2>4. \A t \in Threads : /\ thread[t] = "run" => thread'[t] = "run"
                           /\ thread'[t] = "pop" => thread[t] = "pop"
    BY <1>4 DEF Blocked
  <2>5. Awake'
    <3>1. SUFFICES ASSUME ~m_stop, NEW t \in Threads, NEW u \in Threads, t # u
                   PROVE  \E v \in Threads : thread'[v] \in {"check", "pop", "run"}
      BY <1>2 DEF Awake, Several
    <3>2. CASE \E v \in Blocked : thread'[v] = "check"
      BY <3>2 DEF Blocked
    <3>3. CASE Blocked = {} /\ thread' = thread
      <4>1. \A v \in Threads : thread[v] \in {"check", "toblock", "pop", "run"}
        BY <1>1, <3>1, <3>3 DEF Types, Mutexed, Blocked
      <4>2. thread[t] # "toblock" \/ thread[u] # "toblock"
        BY <1>1, <3>1 DEF Mutexed
      <4> QED
        BY <3>3, <4>1, <4>2
    <3> QED
      BY <1>3, <3>2, <3>3
  <2> QED
    BY <1>2, <2>1, <2>2, <2>3, <2>4, <2>5 DEF Owned
<1> QED
  BY <1>2, <1>6, <1>7, <1>8, QuietPool

(* A caller leaves with its answer: it was waiting for none any more. *)
LEMMA GetPool == ASSUME PoolInv, NEW c \in Clients, Get(c) PROVE PoolInv'
<1>1. Types /\ Mutexed
  BY DEF PoolInv
<1>2. /\ pc[c] = "get" /\ c \in answered /\ pc' = [pc EXCEPT ![c] = "idle"]
      /\ UNCHANGED <<m_stop, m_queue, torn, answered, thread, op>>
  BY DEF Get, dequeVars, poolVars
<1>3. \A d \in Clients : pc'[d] = IF d = c THEN "idle" ELSE pc[d]
  BY <1>1, <1>2 DEF Types
<1>4. Types' /\ Mutexed'
  BY <1>1, <1>2 DEF Types, Mutexed
<1>5. Waiting' = Waiting /\ Emplacing' = Emplacing
  BY <1>2, <1>3 DEF Waiting, Emplacing
<1>6. ASSUME ~torn' PROVE Owned /\ Awake'
  <2>1. Owned /\ ~torn
    BY <1>2, <1>6 DEF PoolInv
  <2> QED
    BY <1>2, <1>3, <2>1, StillAwake
<1>7. \A d \in Clients : pc'[d] = "emplace" => pc[d] = "emplace"
  BY <1>3
<1> QED
  BY <1>2, <1>4, <1>5, <1>6, <1>7, QuietPool DEF Owned

(* The mutex is taken, and the queue is as the predicate saw it. *)
LEMMA CheckPool == ASSUME PoolInv, NEW t \in Threads, Check(t) PROVE PoolInv'
<1>1. Types /\ Mutexed
  BY DEF PoolInv
<1>2. /\ thread[t] = "check" /\ MutexFree /\ Touch(Emplacing # {}, m_queue)
      /\ thread' = [thread EXCEPT ![t] = IF m_stop THEN "exit"
                                         ELSE IF m_queue' # <<>> THEN "pop" ELSE "toblock"]
      /\ UNCHANGED <<m_stop, pc, answered, op>>
  BY DEF Check, clientVars
<1>3. /\ torn' \in BOOLEAN /\ (torn => torn') /\ m_queue' \in Seq(Clients \cup {Junk})
      /\ ~torn' => ~torn /\ m_queue' = m_queue
  BY <1>1, <1>2, TouchFacts DEF Types
<1>4. /\ \A u \in Threads : u # t => thread'[u] = thread[u]
      /\ thread'[t] \in {"exit", "pop", "toblock"}
      /\ thread'[t] = "exit" <=> m_stop
      /\ thread'[t] = "pop" => m_queue' # <<>>
      /\ ~m_stop /\ m_queue' # <<>> => thread'[t] = "pop"
  BY <1>1, <1>2 DEF Types
<1>5. Types'
  BY <1>1, <1>2, <1>3 DEF Types
<1>6. Mutexed'
  BY <1>1, <1>2, <1>4 DEF Mutexed, MutexFree
<1>7. Waiting' = Waiting /\ Emplacing' = Emplacing
  BY <1>2 DEF Waiting, Emplacing
<1>8. Awake'
  BY <1>2, <1>4 DEF Awake
<1>9. ASSUME ~torn' PROVE Owned
  BY <1>3, <1>9 DEF PoolInv
<1>10. \A u \in Threads : thread[u] = "run" => thread'[u] = "run"
  BY <1>2, <1>4
<1>11. ASSUME ~torn', NEW u \in Threads, thread'[u] = "pop" PROVE m_queue # <<>>
  BY <1>3, <1>4, <1>9, <1>11 DEF Owned
<1> QED
  BY <1>2, <1>3, <1>5, <1>6, <1>7, <1>8, <1>9, <1>10, <1>11, QuietPool DEF Owned

(* A thread goes to sleep, which was not awake for Awake, or is woken. *)
LEMMA SleepPool ==
    ASSUME PoolInv, NEW t \in Threads, Block(t) \/ SpuriousWakeup(t) PROVE PoolInv'
<1>1. Types /\ Mutexed
  BY DEF PoolInv
<1>2. /\ UNCHANGED <<m_stop, m_queue, torn, pc, answered, op>>
      /\ thread[t] \in {"toblock", "waiting"}
  BY DEF Block, SpuriousWakeup, dequeVars, clientVars
<1>3. /\ \A u \in Threads : u # t => thread'[u] = thread[u]
      /\ thread'[t] \in {"waiting", "check"}
      /\ thread' \in [Threads -> {"check", "toblock", "waiting", "pop", "run", "exit"}]
  BY <1>1 DEF Block, SpuriousWakeup, Wake, Types
<1>4. Types' /\ Mutexed'
  BY <1>1, <1>2, <1>3 DEF Types, Mutexed
<1>5. Waiting' = Waiting /\ Emplacing' = Emplacing
  BY <1>2 DEF Waiting, Emplacing
<1>6. ASSUME ~torn' PROVE Owned /\ Awake'
  <2>1. Owned /\ ~torn
    BY <1>2, <1>6 DEF PoolInv
  <2> QED
    BY <1>2, <1>3, <2>1, StillAwake
<1>7. \A u \in Threads : /\ thread[u] = "run" => thread'[u] = "run"
                         /\ thread'[u] = "pop" => thread[u] = "pop"
  BY <1>2, <1>3
<1> QED
  BY <1>2, <1>4, <1>5, <1>6, <1>7, QuietPool DEF Owned

(* The front closure moves from the queue to the pool thread. *)
LEMMA PopPool == ASSUME PoolInv, NEW t \in Threads, Pop(t) PROVE PoolInv'
<1>1. Types /\ Mutexed
  BY DEF PoolInv
<1>2. /\ thread[t] = "pop" /\ Touch(Emplacing # {}, Tail(m_queue))
      /\ thread' = [thread EXCEPT ![t] = "run"]
      /\ UNCHANGED <<m_stop, pc, answered>>
  BY DEF Pop, clientVars
<1>3. PICK f \in (IF torn' THEN Clients \cup {Junk, NoOp} ELSE {Head(m_queue)}) :
        op' = [op EXCEPT ![t] = f]
  BY DEF Pop
<1>4. ~torn => m_queue # <<>> /\ Owned /\ Once /\ Kept
  BY <1>2 DEF PoolInv, Owned
<1>5. ~torn => Tail(m_queue) \in Seq(Clients \cup {Junk})
  BY <1>1, <1>4, TailFacts DEF Types
<1>6. /\ torn' \in BOOLEAN /\ (torn => torn') /\ m_queue' \in Seq(Clients \cup {Junk})
      /\ ~torn' => ~torn /\ m_queue' = Tail(m_queue)
  BY <1>1, <1>2, <1>5, TouchFacts DEF Types
<1>7. \A u \in Threads : /\ thread'[u] = IF u = t THEN "run" ELSE thread[u]
                         /\ op'[u] = IF u = t THEN f ELSE op[u]
  BY <1>1, <1>2, <1>3 DEF Types
<1>8. f \in Clients \cup {Junk, NoOp}
  BY <1>1, <1>3, <1>4, <1>6, TailFacts DEF Types
<1>9. Types'
  BY <1>1, <1>2, <1>3, <1>6, <1>8 DEF Types
<1>10. Mutexed'
  BY <1>1, <1>2, <1>7 DEF Mutexed
<1> SUFFICES ASSUME ~torn' PROVE Owned' /\ Once' /\ Kept' /\ Awake'
  BY <1>9, <1>10 DEF PoolInv
<1>11. /\ m_queue' = Tail(m_queue) /\ f = Head(m_queue)
       /\ m_queue # <<>> /\ Owned /\ Once /\ Kept
  BY <1>3, <1>4, <1>6
<1>12. /\ 1 \in DOMAIN m_queue /\ f = m_queue[1]
       /\ \A i \in DOMAIN m_queue' : m_queue'[i] = m_queue[i + 1] /\ i + 1 \in DOMAIN m_queue
                                     /\ i + 1 # 1
       /\ \A j \in DOMAIN m_queue :
            j = 1 \/ (j - 1 \in DOMAIN m_queue' /\ m_queue'[j - 1] = m_queue[j])
       /\ \A i, j \in DOMAIN m_queue' : i + 1 = j + 1 => i = j
  BY <1>1, <1>11, TailFacts DEF Types
<1>13. Waiting' = Waiting /\ Emplacing' = Emplacing /\ f \in Waiting
  BY <1>2, <1>11, <1>12 DEF Waiting, Emplacing, Owned
<1>14. Owned'
  <2>1. \A i \in DOMAIN m_queue' : m_queue'[i] \in Waiting'
    BY <1>11, <1>12, <1>13 DEF Owned
  <2>2. \A u \in Threads : op'[u] \in Waiting' \cup {NoOp}
    BY <1>7, <1>11, <1>13 DEF Owned
  <2>3. \A u \in Threads : thread'[u] # "run" => op'[u] = NoOp
    BY <1>7, <1>11 DEF Owned
  <2>4. \A u \in Threads : thread'[u] # "pop"
    BY <1>1, <1>2, <1>7 DEF Mutexed
  <2> QED
    BY <1>2, <1>11, <1>13, <2>1, <2>2, <2>3, <2>4 DEF Owned
<1>15. Once'
  <2>1. \A u \in Threads : op[u] # f
    BY <1>11, <1>12 DEF Once
  <2>2. \A u, v \in Threads : op'[u] = op'[v] /\ op'[u] \in Clients => u = v
    BY <1>7, <1>11, <2>1 DEF Once
  <2>3. \A i, j \in DOMAIN m_queue' : m_queue'[i] = m_queue'[j] => i = j
    BY <1>11, <1>12 DEF Once
  <2>4. ASSUME NEW i \in DOMAIN m_queue', NEW u \in Threads PROVE m_queue'[i] # op'[u]
    <3>1. m_queue'[i] # f
      BY <1>11, <1>12 DEF Once
    <3>2. m_queue'[i] # op[u]
      BY <1>11, <1>12 DEF Once
    <3> QED
      BY <1>7, <3>1, <3>2
  <2> QED
    BY <2>2, <2>3, <2>4 DEF Once
<1>16. Kept'
  <2> SUFFICES ASSUME NEW c \in Waiting, ~m_stop PROVE Queued(c)' \/ Taken(c)'
    BY <1>2, <1>13 DEF Kept
  <2>1. CASE \E i \in DOMAIN m_queue : m_queue[i] = c
    BY <1>7, <1>12, <2>1 DEF Queued, Taken
  <2>2. CASE \E u \in Threads : op[u] = c
    <3>1. \A u \in Threads : op[u] = c => u # t
      BY <1>2, <1>11, PoolAssumption DEF Owned, Waiting
    <3> QED
      BY <1>7, <2>2, <3>1 DEF Taken
  <2> QED
    BY <1>11, <2>1, <2>2 DEF Kept, Queued, Taken
<1>17. Awake'
  BY <1>7 DEF Awake
<1> QED
  BY <1>14, <1>15, <1>16, <1>17

(* An operation answers its caller, which waits no longer. *)
LEMMA RunPool == ASSUME PoolInv, NEW t \in Threads, Run(t) PROVE PoolInv'
<1>1. Types /\ Mutexed
  BY DEF PoolInv
<1>2. /\ thread[t] = "run" /\ answered' = answered \cup ({op[t]} \cap Clients)
      /\ op' = [op EXCEPT ![t] = NoOp] /\ thread' = [thread EXCEPT ![t] = "check"]
      /\ UNCHANGED <<m_stop, m_queue, torn, pc>>
  BY DEF Run, dequeVars
<1>3. \A u \in Threads : /\ thread'[u] = IF u = t THEN "check" ELSE thread[u]
                         /\ op'[u] = IF u = t THEN NoOp ELSE op[u]
  BY <1>1, <1>2 DEF Types
<1>4. Types'
  BY <1>1, <1>2 DEF Types
<1>5. Mutexed'
  BY <1>1, <1>2, <1>3 DEF Mutexed
<1> SUFFICES ASSUME ~torn' PROVE Owned' /\ Once' /\ Kept' /\ Awake'
  BY <1>4, <1>5 DEF PoolInv
<1>6. Owned /\ Once /\ Kept
  BY <1>2 DEF PoolInv
<1>7. Waiting' = Waiting \ {op[t]} /\ Emplacing' = Emplacing
  BY <1>2 DEF Waiting, Emplacing
<1>8. Owned'
  <2>1. \A i \in DOMAIN m_queue' : m_queue'[i] \in Waiting'
    BY <1>2, <1>6, <1>7 DEF Owned, Once
  <2>2. \A u \in Threads : op'[u] \in Waiting' \cup {NoOp}
    <3> SUFFICES ASSUME NEW u \in Threads, u # t, op[u] # NoOp PROVE op[u] \in Waiting'
      BY <1>3
    <3>1. op[u] \in Waiting /\ op[u] \in Clients
      BY <1>6 DEF Owned, Waiting
    <3>2. op[u] # op[t]
      BY <1>6, <3>1 DEF Once
    <3> QED
      BY <1>7, <3>1, <3>2
  <2>3. \A u \in Threads : thread'[u] # "run" => op'[u] = NoOp
    BY <1>3, <1>6 DEF Owned
  <2>4. \A u \in Threads : thread'[u] = "pop" => m_queue' # <<>>
    BY <1>2, <1>3, <1>6 DEF Owned
  <2>5. \A c \in Clients : pc'[c] = "emplace" => c \notin answered'
    BY <1>2, <1>6, PoolAssumption DEF Owned, Waiting
  <2> QED
    BY <1>6, <1>7, <2>1, <2>2, <2>3, <2>4, <2>5 DEF Owned
<1>9. Once'
  <2>1. \A u, v \in Threads : op'[u] = op'[v] /\ op'[u] \in Clients => u = v
    BY <1>3, <1>6, PoolAssumption DEF Once
  <2>2. \A i \in DOMAIN m_queue', u \in Threads : m_queue'[i] # op'[u]
    BY <1>2, <1>3, <1>6, PoolAssumption DEF Once, Owned, Waiting
  <2> QED
    BY <1>2, <1>6, <2>1, <2>2 DEF Once
<1>10. Kept'
  <2> SUFFICES ASSUME NEW c \in Waiting, c # op[t], ~m_stop PROVE Queued(c)' \/ Taken(c)'
    BY <1>2, <1>7 DEF Kept
  <2>1. Queued(c) \/ Taken(c)
    BY <1>6 DEF Kept
  <2>2. Queued(c) => Queued(c)'
    BY <1>2 DEF Queued
  <2>3. Taken(c) => Taken(c)'
    BY <1>3 DEF Taken
  <2> QED
    BY <2>1, <2>2, <2>3
<1>11. Awake'
  BY <1>3 DEF Awake
<1> QED
  BY <1>8, <1>9, <1>10, <1>11

LEMMA StopPool == ASSUME PoolInv, Stop \/ NotifyAll \/ Join PROVE PoolInv'
<1>1. Types /\ Mutexed
  BY DEF PoolInv
<1>2. UNCHANGED <<m_queue, torn, pc, answered, op>> /\ (m_stop => m_stop') /\ m_stop' \in BOOLEAN
  BY <1>1 DEF Stop, NotifyAll, Join, dequeVars, clientVars, poolVars, Types
<1>3. /\ \A t \in Threads : thread'[t] = thread[t]
                            \/ (thread[t] = "waiting" /\ thread'[t] = "check")
      /\ thread' \in [Threads -> {"check", "toblock", "waiting", "pop", "run", "exit"}]
  BY <1>1 DEF Stop, NotifyAll, Join, poolVars, Wake, Blocked, Types
<1>4. Types' /\ Mutexed'
  BY <1>1, <1>2, <1>3 DEF Types, Mutexed
<1>5. Waiting' = Waiting /\ Emplacing' = Emplacing
  BY <1>2 DEF Waiting, Emplacing
<1>6. ASSUME ~torn' PROVE Owned /\ Awake'
  <2>1. Owned /\ ~torn
    BY <1>2, <1>6 DEF PoolInv
  <2> QED
    BY <1>2, <1>3, <2>1, StillAwake
<1>7. \A u \in Threads : /\ thread[u] = "run" => thread'[u] = "run"
                         /\ thread'[u] = "pop" => thread[u] = "pop"
  BY <1>3
<1> QED
  BY <1>2, <1>4, <1>5, <1>6, <1>7, QuietPool DEF Owned

-----------------------------------------------------------------------------
(* PoolInv is inductive. *)
THEOREM PoolInductive == PoolInv /\ [Next]_vars => PoolInv'
<1> SUFFICES ASSUME PoolInv, [Next]_vars PROVE PoolInv'
  OBVIOUS
<1>1. CASE UNCHANGED vars
  <2>1. UNCHANGED <<m_stop, m_queue, torn, pc, answered, thread, op>>
    BY <1>1 DEF vars
  <2> QED
    BY <2>1 DEF PoolInv, Types, Mutexed, Owned, Once, Kept, Queued, Taken, Awake, Waiting, Emplacing
<1>2. CASE Next
  BY <1>2, CallPool, EmplacePool, NotifyPool, GetPool, CheckPool, SleepPool, PopPool, RunPool,
     StopPool DEF Next, ClientStep, ThreadStep
<1> QED
  BY <1>1, <1>2

(* While no emplace_back has met another access of the deque, no closure
   outlives the frame it points into or sets a promise twice (ThreadPool.h:64-77). *)
THEOREM FramesAlive == Spec => []FrameAlive
<1>1. PoolInv => FrameAlive
  BY PoolAssumption DEF PoolInv, Owned, FrameAlive
<1> QED
  BY <1>1, InitPool, PoolInductive, PTL DEF Spec

(* While none has, operations are neither lost nor held twice. *)
THEOREM OperationsHeldOnce == Spec => []HeldOnce
<1>1. PoolInv => HeldOnce
  BY DEF PoolInv, Once, Kept, HeldOnce, Queued, Taken
<1> QED
  BY <1>1, InitPool, PoolInductive, PTL DEF Spec

(* While none has, a pool of two threads or more is not asleep on its queue,
   although notifications are not ordered with its tests (ThreadPool.h:37).   *)
THEOREM QueueNotStranded == Spec => []NoneStranded
<1>1. PoolInv => NoneStranded
  BY DEF PoolInv, Awake, NoneStranded
<1> QED
  BY <1>1, InitPool, PoolInductive, PTL DEF Spec
=============================================================================
