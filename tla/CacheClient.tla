---------------------------- MODULE CacheClient ----------------------------
(***************************************************************************)
(* CacheClient (src/core/cache.py): one client per process, shared by the  *)
(* coroutines of its event loop, over one Redis server, with the           *)
(* in-memory store each process falls back to.                             *)
(*                                                                         *)
(* A coroutine runs without interruption from one network operation to the *)
(* next, so an action is what happens between two of them: aclose and ping *)
(* in _init_redis, and the command itself.  aclose disconnects the         *)
(* commands other coroutines have in flight on the same client object,     *)
(* which may then fail although Redis answers.                             *)
(*                                                                         *)
(* Time is abstract here: a key may lapse at any moment.  The change of    *)
(* event loop, which happens between tests only, is left out.              *)
(***************************************************************************)
EXTENDS Integers

CONSTANTS
    Procs,          \* worker processes
    Coros, ProcOf,  \* coroutines that use the cache, and where they run
    Keys, Values,
    MaxConn,        \* bound: client objects in use at once
    CacheFaults,    \* which of "outage" and "restart" happen in an instance
    Nil             \* no value / no client object / no operation

ASSUME CorosAssumption == ProcOf \in [Coros -> Procs] /\ MaxConn \in Nat
ASSUME FaultAssumption == CacheFaults \subseteq {"outage", "restart"}
ASSUME NilAssumption == Nil \notin Int \cup Values \cup {"get", "set", "delete"}

VARIABLES
    client,     \* the CacheClient of each process
    memory,     \* _fallback_store
    redis,      \* what the Redis server stores
    up,         \* Redis can be reached
    call,       \* the cache operation each coroutine is in
    clean       \* history: the process never initialised its client twice at
                \* a time and never restarted out of its in-memory store

vars == <<client, memory, redis, up, call, clean>>

Conns == 1 .. MaxConn
Client == [redis : Conns \cup {Nil}, fallback : BOOLEAN, initialized : BOOLEAN]
NewClient == [redis |-> Nil, fallback |-> FALSE, initialized |-> FALSE]

Ops == {"get", "set", "delete"}
Call == [op  : Ops \cup {Nil}, key : Keys \cup {Nil}, val : Values \cup {Nil},
         pc  : {"idle", "enter", "closing", "ping", "command"},
         conn : Conns \cup {Nil},       \* the client object it waits for
         cut  : BOOLEAN]                \* that object was closed meanwhile
NoCall == [op |-> Nil, key |-> Nil, val |-> Nil, pc |-> "idle", conn |-> Nil, cut |-> FALSE]

CacheTypeOK ==
    /\ client \in [Procs -> Client]
    /\ memory \in [Procs -> [Keys -> Values \cup {Nil}]]
    /\ redis \in [Keys -> Values \cup {Nil}]
    /\ up \in BOOLEAN
    /\ call \in [Coros -> Call]
    /\ clean \in [Procs -> BOOLEAN]

Empty == [k \in Keys |-> Nil]

CacheInit ==
    /\ client = [p \in Procs |-> NewClient]
    /\ memory = [p \in Procs |-> Empty]
    /\ redis = Empty
    /\ up = TRUE
    /\ call = [c \in Coros |-> NoCall]
    /\ clean = [p \in Procs |-> TRUE]

At(c, pc) == call[c].pc = pc
Mine(c) == client[ProcOf[c]]
InMemory(cl) == cl.fallback \/ cl.redis = Nil

\* What a store holds after the operation of q.
After(q, store) ==
    [store EXCEPT ![q.key] = CASE q.op = "set" -> q.val [] q.op = "delete" -> Nil
                               [] OTHER -> @]

-----------------------------------------------------------------------------
(* The synchronous stretches of code; cl is the client as the coroutine has *)
(* left it at their beginning.                                              *)

\* get, set, delete after _init_redis: the in-memory store answers at once.
Access(c, cl) ==
    LET p == ProcOf[c]
    IN /\ client' = [client EXCEPT ![p] = cl]
       /\ IF InMemory(cl)
          THEN /\ memory' = [memory EXCEPT ![p] = After(call[c], @)]
               /\ call' = [call EXCEPT ![c] = NoCall]
          ELSE /\ call' = [call EXCEPT ![c].pc = "command", ![c].conn = cl.redis, ![c].cut = FALSE]
               /\ UNCHANGED memory
       /\ UNCHANGED clean

\* A new client object is made and pinged.
Fresh == Conns \ ({client[p].redis : p \in Procs} \cup {call[c].conn : c \in Coros})

Connect(c) ==
    /\ \E n \in Fresh :
          /\ \A m \in Fresh : n <= m
          /\ client' = [client EXCEPT ![ProcOf[c]] =
                           [redis |-> n, fallback |-> FALSE, initialized |-> FALSE]]
          /\ call' = [call EXCEPT ![c].pc = "ping", ![c].conn = n, ![c].cut = FALSE]
    /\ UNCHANGED <<memory, clean>>

\* The object found is closed first, under whoever is using it.
BeginClose(c, cl) ==
    /\ client' = [client EXCEPT ![ProcOf[c]] = cl]
    /\ call' = [d \in Coros |->
                   IF d = c THEN [call[c] EXCEPT !.pc = "closing", !.conn = Nil]
                   ELSE IF call[d].conn = cl.redis THEN [call[d] EXCEPT !.cut = TRUE]
                   ELSE call[d]]
    /\ clean' = [clean EXCEPT ![ProcOf[c]] = FALSE]
    /\ UNCHANGED memory

\* Faulty variant: a client that fell back tries Redis again.
InitializedAndConnected(cl) == cl.initialized /\ ~cl.fallback

Initialized(cl) == cl.initialized

Run(c, cl) ==
    IF Initialized(cl) THEN Access(c, cl)
    ELSE IF cl.redis # Nil THEN BeginClose(c, cl) ELSE Connect(c)

-----------------------------------------------------------------------------
(* The actions *)

Start(c, op, k, v) ==
    /\ At(c, "idle")
    /\ call' = [call EXCEPT ![c] = [op |-> op, key |-> k, val |-> v, pc |-> "enter",
                                    conn |-> Nil, cut |-> FALSE]]
    /\ UNCHANGED <<client, memory, redis, up, clean>>

Enter(c) == At(c, "enter") /\ Run(c, Mine(c)) /\ UNCHANGED <<redis, up>>

Closed(c) == At(c, "closing") /\ Connect(c) /\ UNCHANGED <<redis, up>>

PingAnswered(c) ==
    /\ At(c, "ping") /\ up
    /\ Access(c, [Mine(c) EXCEPT !.fallback = FALSE, !.initialized = TRUE])
    /\ UNCHANGED <<redis, up>>

\* Faulty variant: the client counts as initialised only once it is connected.
PingFailedUninitialized(c) ==
    /\ At(c, "ping") /\ (~up \/ call[c].cut)
    /\ Access(c, [redis |-> Nil, fallback |-> TRUE, initialized |-> FALSE])
    /\ UNCHANGED <<redis, up>>

PingFailed(c) ==
    /\ At(c, "ping") /\ (~up \/ call[c].cut)
    /\ Access(c, [redis |-> Nil, fallback |-> TRUE, initialized |-> TRUE])
    /\ UNCHANGED <<redis, up>>

CommandAnswered(c) ==
    /\ At(c, "command") /\ up
    /\ redis' = After(call[c], redis)
    /\ call' = [call EXCEPT ![c] = NoCall]
    /\ UNCHANGED <<client, memory, up, clean>>

\* Faulty variant: the call is repeated but the client stays on Redis.
FallBackForgotten(cl) == cl

FallBack(cl) == [cl EXCEPT !.fallback = TRUE]

\* A failed command may have reached the server; the call starts over.
CommandFailed(c) ==
    /\ At(c, "command") /\ (~up \/ call[c].cut)
    /\ redis' \in {redis, After(call[c], redis)}
    /\ Run(c, FallBack(Mine(c)))
    /\ UNCHANGED up

Step(c) ==
    \/ Enter(c) \/ Closed(c)
    \/ PingAnswered(c) \/ PingFailed(c) \/ CommandAnswered(c) \/ CommandFailed(c)

Outage == "outage" \in CacheFaults /\ up' = ~up /\ UNCHANGED <<client, memory, redis, call, clean>>

\* A process ends, by a crash or after close(), and another takes its place.
Restart(p) ==
    /\ "restart" \in CacheFaults
    /\ client' = [client EXCEPT ![p] = NewClient]
    /\ memory' = [memory EXCEPT ![p] = Empty]
    /\ call' = [c \in Coros |-> IF ProcOf[c] = p THEN NoCall ELSE call[c]]
    /\ clean' = [clean EXCEPT ![p] = @ /\ ~(client[p].initialized /\ InMemory(client[p]))]
    /\ UNCHANGED <<redis, up>>

\* A key's time to live is over.
Lapse(k) ==
    /\ \/ redis' = [redis EXCEPT ![k] = Nil] /\ UNCHANGED memory
       \/ \E p \in Procs : memory' = [memory EXCEPT ![p][k] = Nil] /\ UNCHANGED redis
    /\ UNCHANGED <<client, up, call, clean>>

Arrival(c) ==
    \E k \in Keys : \/ Start(c, "get", k, Nil) \/ Start(c, "delete", k, Nil)
                    \/ \E v \in Values : Start(c, "set", k, v)

CacheNext ==
    \/ \E c \in Coros : Arrival(c) \/ Step(c)
    \/ \E p \in Procs : Restart(p)
    \/ \E k \in Keys : Lapse(k)
    \/ Outage

CacheSpec == CacheInit /\ [][CacheNext]_vars

\* The event loop runs every coroutine that can run; socket_timeout ends the
\* wait for a server that does not answer.
FairCacheSpec == CacheSpec /\ \A c \in Coros : WF_vars(Step(c))

-----------------------------------------------------------------------------
Pinging(p) == {c \in Coros : ProcOf[c] = p /\ At(c, "ping")}

\* A client that is not initialised is new, or its object is being pinged: each
\* way through _init_redis ends with a usable client, whatever calls overlap
\* with it (cache.py:55-90).
BeingInitialized ==
    \A p \in Procs : ~client[p].initialized =>
        \/ client[p] = NewClient
        \/ \E c \in Pinging(p) : call[c].conn = client[p].redis

\* Unless initialisations overlapped, one coroutine pings the client at a time
\* and nobody uses it meanwhile; and the in-memory store of a process that uses
\* Redis is empty, so that it has nothing to bring back when it falls back.
CleanSound ==
    \A p \in Procs : clean[p] =>
        /\ \A c \in Coros : ProcOf[c] = p =>
              /\ ~At(c, "closing")
              /\ At(c, "command") => client[p].initialized
        /\ \A c \in Pinging(p) :
              /\ Pinging(p) = {c}
              /\ ~client[p].initialized /\ ~client[p].fallback
              /\ client[p].redis # Nil /\ call[c].conn = client[p].redis
        /\ ~(client[p].initialized /\ InMemory(client[p])) => memory[p] = Empty

CacheInv == CacheTypeOK /\ BeingInitialized /\ CleanSound

\* What a get in process p would find: an uninitialised client tries Redis.
View(p, k) ==
    IF client[p].initialized /\ InMemory(client[p]) THEN memory[p][k] ELSE redis[k]

BeingSet(k) == {call[c].val : c \in {d \in Coros : call[d].op = "set" /\ call[d].key = k}}

\* Whatever outages, fallbacks and restarts happen, the content of a key only
\* changes to a value that is being set, or vanishes: no value that was
\* overwritten or deleted comes back.  Two things break this and are excepted
\* by `clean`: overlapping initialisations of one client, and a restart of a
\* process that had fallen back (cache.py:105-141).
NoResurrection ==
    [][\A p \in Procs, k \in Keys :
          clean'[p] => View(p, k)' \in {View(p, k), Nil} \cup BeingSet(k)]_vars

\* Every call is answered, once Redis stays reachable or stays away: the
\* recursion of get, set and delete after an error ends, whatever other
\* coroutines do to the client meanwhile (cache.py:107-110).
Answered ==
    (<>[]up \/ <>[](~up)) => \A c \in Coros : ~At(c, "idle") ~> At(c, "idle")
=============================================================================
