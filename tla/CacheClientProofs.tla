-------------------------- MODULE CacheClientProofs --------------------------
(***************************************************************************)
(* For any number of processes, coroutines, keys and values: CacheInv is   *)
(* an invariant of the client, and no value comes back from a store that   *)
(* was given up.                                                           *)
(*                                                                         *)
(* An action runs one synchronous stretch of code, so what the stretches   *)
(* Access, Connect and BeginClose keep is proved once, and each action     *)
(* says why its stretch may run.                                           *)
(***************************************************************************)
EXTENDS CacheClient, TLAPS

\* What the stretches change, without the server.
LocalType ==
    /\ client \in [Procs -> Client]
    /\ memory \in [Procs -> [Keys -> Values \cup {Nil}]]
    /\ call \in [Coros -> Call]
    /\ clean \in [Procs -> BOOLEAN]

LocalInv == LocalType /\ BeingInitialized /\ CleanSound

-----------------------------------------------------------------------------
\* A store keeps its type, and a key its value unless it is set or removed.
LEMMA AfterFacts ==
    ASSUME NEW q \in Call, NEW store \in [Keys -> Values \cup {Nil}]
    PROVE  /\ After(q, store) \in [Keys -> Values \cup {Nil}]
           /\ \A k \in Keys : \/ After(q, store)[k] \in {store[k], Nil}
                              \/ q.op = "set" /\ q.key = k /\ After(q, store)[k] = q.val
  <1>1. CASE q.op = "set"
    <2>1. q.val \in Values \cup {Nil}
      BY DEF Call
    <2>2. After(q, store) = [store EXCEPT ![q.key] = q.val]
      BY <1>1 DEF After
    <2> QED
      BY <1>1, <2>1, <2>2
  <1>2. CASE q.op = "delete"
    <2>1. After(q, store) = [store EXCEPT ![q.key] = Nil]
      BY <1>2 DEF After
    <2> QED
      BY <2>1
  <1>3. CASE q.op \notin {"set", "delete"}
    <2>1. After(q, store) = store
      BY <1>3 DEF After
    <2> QED
      BY <2>1
  <1> QED
    BY <1>1, <1>2, <1>3

\* The client a coroutine hands to a stretch is one.
LEMMA ClientFacts ==
    ASSUME LocalType, NEW c \in Coros
    PROVE  /\ ProcOf[c] \in Procs /\ Mine(c) \in Client
           /\ FallBack(Mine(c)) \in Client
           /\ FallBack(Mine(c)).redis = Mine(c).redis
           /\ FallBack(Mine(c)).fallback
           /\ FallBack(Mine(c)).initialized = Mine(c).initialized
           /\ LET cl == [Mine(c) EXCEPT !.fallback = FALSE, !.initialized = TRUE]
              IN cl \in Client /\ cl.redis = Mine(c).redis /\ ~cl.fallback /\ cl.initialized
  <1>1. ProcOf[c] \in Procs /\ Mine(c) \in Client
    BY CorosAssumption DEF LocalType, Mine
  <1> QED
    BY <1>1 DEF Client, FallBack

-----------------------------------------------------------------------------
(* The stretches *)

\* The operation goes to the store the client has settled on: a client that
\* was using its memory goes on doing so.
LEMMA AccessKeeps ==
    ASSUME LocalInv, NEW c \in Coros, NEW cl \in Client, Access(c, cl),
           cl.initialized,
           clean[ProcOf[c]] =>
              /\ Mine(c).initialized \/ At(c, "ping")
              /\ Mine(c).initialized /\ InMemory(Mine(c)) => InMemory(cl)
    PROVE  LocalInv'
  <1> DEFINE p == ProcOf[c]
  <1>1. LocalType
    BY DEF LocalInv
  <1>2. p \in Procs /\ Mine(c) = client[p]
    BY <1>1, ClientFacts DEF Mine
  <1> HIDE DEF p
  <1>3. /\ client' = [client EXCEPT ![p] = cl] /\ clean' = clean
        /\ \/ memory' = memory /\ ~InMemory(cl)
           \/ memory' = [memory EXCEPT ![p] = After(call[c], @)] /\ InMemory(cl)
    BY <1>2 DEF Access, p
  <1>4. /\ call' \in [Coros -> Call]
        /\ call'[c].pc \in {"idle", "command"}
        /\ \A d \in Coros \ {c} : call'[d] = call[d]
    <2>1. call[c] \in Call /\ cl.redis \in Conns \cup {Nil}
      BY <1>1 DEF LocalType, Client
    <2>2. CASE call' = [call EXCEPT ![c] = NoCall]
      BY <1>1, <2>2 DEF LocalType, NoCall, Call
    <2>3. CASE call' = [call EXCEPT ![c].pc = "command", ![c].conn = cl.redis, ![c].cut = FALSE]
      BY <1>1, <2>1, <2>3 DEF LocalType, Call
    <2> QED
      BY <2>2, <2>3 DEF Access
  <1>5. LocalType'
    <2>1. memory' \in [Procs -> [Keys -> Values \cup {Nil}]]
      <3>1. call[c] \in Call /\ memory[p] \in [Keys -> Values \cup {Nil}]
        BY <1>1, <1>2 DEF LocalType
      <3>2. After(call[c], memory[p]) \in [Keys -> Values \cup {Nil}]
        BY <3>1, AfterFacts
      <3> QED
        BY <1>1, <1>3, <3>2 DEF LocalType
    <2> QED
      BY <1>1, <1>3, <1>4, <2>1 DEF LocalType
  <1>6. BeingInitialized'
    <2> SUFFICES ASSUME NEW q \in Procs, ~client'[q].initialized, client'[q] # NewClient
                 PROVE  \E d \in Pinging(q)' : call'[d].conn = client'[q].redis
      BY DEF BeingInitialized, NewClient
    <2>1. q # p /\ client'[q] = client[q]
      BY <1>1, <1>2, <1>3 DEF LocalType
    <2>2. PICK d \in Pinging(q) : call[d].conn = client[q].redis
      BY <2>1 DEF LocalInv, BeingInitialized
    <2>3. d # c /\ call'[d] = call[d]
      BY <2>1, <2>2, <1>4 DEF Pinging, p
    <2> QED
      BY <2>1, <2>2, <2>3 DEF Pinging, At
  <1>7. CleanSound'
    <2> SUFFICES ASSUME NEW q \in Procs, clean[q]
                 PROVE  /\ \A d \in Coros : ProcOf[d] = q =>
                              /\ ~At(d, "closing")'
                              /\ At(d, "command")' => client'[q].initialized
                        /\ \A d \in Pinging(q)' :
                              /\ Pinging(q)' = {d}
                              /\ ~client'[q].initialized /\ ~client'[q].fallback
                              /\ client'[q].redis # Nil /\ call'[d].conn = client'[q].redis
                        /\ ~(client'[q].initialized /\ InMemory(client[q])') => memory'[q] = Empty
      BY <1>3 DEF CleanSound, Empty
    <2>1. CASE q # p
      <3>1. client'[q] = client[q] /\ memory'[q] = memory[q]
        BY <2>1, <1>1, <1>3 DEF LocalType
      <3>2. \A d \in Coros : ProcOf[d] = q => call'[d] = call[d]
        BY <2>1, <1>4 DEF p
      <3>3. Pinging(q)' = Pinging(q)
        BY <3>2 DEF Pinging, At
      <3> QED
        BY <3>1, <3>2, <3>3 DEF LocalInv, CleanSound, Pinging, At, InMemory
    <2>2. CASE q = p
      <3>1. client'[q] = cl
        BY <2>2, <1>1, <1>2, <1>3 DEF LocalType
      <3>2. Pinging(q)' = {}
        <4>1. Pinging(q) \subseteq {c}
          BY <2>2, <1>2 DEF LocalInv, CleanSound, Pinging, At, Mine, p
        <4> QED
          BY <4>1, <1>4 DEF Pinging, At
      <3>3. \A d \in Coros : ProcOf[d] = q => ~At(d, "closing")'
        BY <1>4 DEF LocalInv, CleanSound, At
      <3>4. ~InMemory(cl) => memory'[q] = Empty
        BY <2>2, <1>2, <1>3 DEF LocalInv, CleanSound, p
      <3> QED
        BY <3>1, <3>2, <3>3, <3>4 DEF InMemory
    <2> QED
      BY <2>1, <2>2
  <1> QED
    BY <1>5, <1>6, <1>7 DEF LocalInv

\* A new object is pinged by the coroutine that made it; nobody was using the
\* client, unless initialisations overlap.
LEMMA ConnectKeeps ==
    ASSUME LocalInv, NEW c \in Coros, Connect(c),
           clean[ProcOf[c]] => ~Mine(c).initialized /\ Mine(c).redis = Nil
    PROVE  LocalInv'
  <1> DEFINE p == ProcOf[c]
  <1>1. LocalType
    BY DEF LocalInv
  <1>2. p \in Procs /\ Mine(c) = client[p]
    BY <1>1, ClientFacts DEF Mine
  <1> HIDE DEF p
  <1>3. PICK n \in Conns :
           /\ client' = [client EXCEPT ![p] =
                            [redis |-> n, fallback |-> FALSE, initialized |-> FALSE]]
           /\ call' = [call EXCEPT ![c].pc = "ping", ![c].conn = n, ![c].cut = FALSE]
    BY DEF Connect, Fresh, p
  <1>4. n # Nil /\ n \in Conns \cup {Nil} /\ memory' = memory /\ clean' = clean
    BY NilAssumption DEF Connect, Conns
  <1>5. /\ call' \in [Coros -> Call]
        /\ call'[c].pc = "ping" /\ call'[c].conn = n
        /\ \A d \in Coros \ {c} : call'[d] = call[d]
    <2> DEFINE new == [call[c] EXCEPT !.pc = "ping", !.conn = n, !.cut = FALSE]
    <2>1. call[c] \in Call
      BY <1>1 DEF LocalType
    <2>2. new \in Call /\ new.pc = "ping" /\ new.conn = n
      BY <1>4, <2>1 DEF Call
    <2>3. call' = [call EXCEPT ![c] = new]
      BY <1>3
    <2> HIDE DEF new
    <2> QED
      BY <1>1, <2>2, <2>3 DEF LocalType
  <1>6. /\ client' \in [Procs -> Client]
        /\ client'[p] = [redis |-> n, fallback |-> FALSE, initialized |-> FALSE]
        /\ \A q \in Procs \ {p} : client'[q] = client[q]
    BY <1>1, <1>2, <1>3 DEF LocalType, Client
  <1>7. LocalType'
    BY <1>1, <1>4, <1>5, <1>6 DEF LocalType
  <1>8. BeingInitialized'
    <2> SUFFICES ASSUME NEW q \in Procs, ~client'[q].initialized, client'[q] # NewClient
                 PROVE  \E d \in Pinging(q)' : call'[d].conn = client'[q].redis
      BY DEF BeingInitialized, NewClient
    <2>1. CASE q = p
      <3>1. c \in Pinging(q)'
        BY <2>1, <1>5 DEF Pinging, At, p
      <3> QED
        BY <2>1, <3>1, <1>5, <1>6
    <2>2. CASE q # p
      <3>1. PICK d \in Pinging(q) : call[d].conn = client[q].redis
        BY <2>2, <1>6 DEF LocalInv, BeingInitialized
      <3>2. d # c
        BY <2>2 DEF Pinging, p
      <3> QED
        BY <2>2, <3>1, <3>2, <1>5, <1>6 DEF Pinging, At
    <2> QED
      BY <2>1, <2>2
  <1>9. CleanSound'
    <2> SUFFICES ASSUME NEW q \in Procs, clean[q]
                 PROVE  /\ \A d \in Coros : ProcOf[d] = q =>
                              /\ ~At(d, "closing")'
                              /\ At(d, "command")' => client'[q].initialized
                        /\ \A d \in Pinging(q)' :
                              /\ Pinging(q)' = {d}
                              /\ ~client'[q].initialized /\ ~client'[q].fallback
                              /\ client'[q].redis # Nil /\ call'[d].conn = client'[q].redis
                        /\ ~(client'[q].initialized /\ InMemory(client[q])') => memory'[q] = Empty
      BY <1>4 DEF CleanSound, Empty
    <2>1. CASE q # p
      <3>1. \A d \in Coros : ProcOf[d] = q => call'[d] = call[d]
        BY <2>1, <1>5 DEF p
      <3>2. Pinging(q)' = Pinging(q)
        BY <3>1 DEF Pinging, At
      <3> QED
        BY <2>1, <3>1, <3>2, <1>4, <1>6 DEF LocalInv, CleanSound, Pinging, At, InMemory
    <2>2. CASE q = p
      <3>1. Pinging(q) = {} /\ ~client[q].initialized
        BY <2>2, <1>2 DEF LocalInv, CleanSound, p
      <3>2. Pinging(q)' = {c}
        BY <3>1, <2>2, <1>5 DEF Pinging, At, p
      <3>3. \A d \in Coros : ProcOf[d] = q => ~At(d, "closing")' /\ ~At(d, "command")'
        BY <3>1, <1>5 DEF LocalInv, CleanSound, At
      <3>4. memory'[q] = Empty
        BY <3>1, <1>4 DEF LocalInv, CleanSound
      <3> QED
        BY <2>2, <3>2, <3>3, <3>4, <1>4, <1>5, <1>6
    <2> QED
      BY <2>1, <2>2
  <1> QED
    BY <1>7, <1>8, <1>9 DEF LocalInv

\* An object found half-way is closed under the coroutine that pings it.
LEMMA BeginCloseKeeps ==
    ASSUME LocalInv, NEW c \in Coros, NEW cl \in Client, BeginClose(c, cl),
           ~At(c, "ping"), ~Mine(c).initialized, ~cl.initialized,
           cl.redis # Nil, cl.redis = Mine(c).redis
    PROVE  LocalInv'
  <1> DEFINE p == ProcOf[c]
  <1>1. LocalType
    BY DEF LocalInv
  <1>2. p \in Procs /\ Mine(c) = client[p]
    BY <1>1, ClientFacts DEF Mine
  <1> HIDE DEF p
  <1>3. /\ client' = [client EXCEPT ![p] = cl] /\ memory' = memory
        /\ clean' = [clean EXCEPT ![p] = FALSE]
    BY DEF BeginClose, p
  <1>4. /\ call' \in [Coros -> Call]
        /\ call'[c].pc = "closing"
        /\ \A d \in Coros \ {c} : call'[d].pc = call[d].pc /\ call'[d].conn = call[d].conn
    <2>1. \A d \in Coros : call[d] \in Call
      BY <1>1 DEF LocalType
    <2>2. /\ [call[c] EXCEPT !.pc = "closing", !.conn = Nil] \in Call
          /\ [call[c] EXCEPT !.pc = "closing", !.conn = Nil].pc = "closing"
      BY <2>1 DEF Call
    <2>3. \A d \in Coros : /\ [call[d] EXCEPT !.cut = TRUE] \in Call
                           /\ [call[d] EXCEPT !.cut = TRUE].pc = call[d].pc
                           /\ [call[d] EXCEPT !.cut = TRUE].conn = call[d].conn
      BY <2>1 DEF Call
    <2> QED
      BY <2>1, <2>2, <2>3 DEF BeginClose
  <1>5. LocalType'
    BY <1>1, <1>3, <1>4 DEF LocalType
  <1>6. BeingInitialized'
    <2> SUFFICES ASSUME NEW q \in Procs, ~client'[q].initialized, client'[q] # NewClient
                 PROVE  \E d \in Pinging(q)' : call'[d].conn = client'[q].redis
      BY DEF BeingInitialized, NewClient
    <2>1. client'[q].redis = client[q].redis /\ ~client[q].initialized /\ client[q] # NewClient
      <3>1. client[p].redis = cl.redis /\ ~client[p].initialized /\ client'[p] = cl
        BY <1>1, <1>2, <1>3 DEF LocalType
      <3>2. client[p] # NewClient
        BY <3>1 DEF NewClient
      <3>3. q # p => client'[q] = client[q]
        BY <1>1, <1>3 DEF LocalType
      <3> QED
        BY <3>1, <3>2, <3>3
    <2>2. PICK d \in Pinging(q) : call[d].conn = client[q].redis
      BY <2>1 DEF LocalInv, BeingInitialized
    <2>3. d # c
      BY <2>2 DEF Pinging, At
    <2> QED
      BY <2>1, <2>2, <2>3, <1>4 DEF Pinging, At
  <1>7. CleanSound'
    <2> SUFFICES ASSUME NEW q \in Procs, clean'[q]
                 PROVE  /\ \A d \in Coros : ProcOf[d] = q =>
                              /\ ~At(d, "closing")'
                              /\ At(d, "command")' => client'[q].initialized
                        /\ \A d \in Pinging(q)' :
                              /\ Pinging(q)' = {d}
                              /\ ~client'[q].initialized /\ ~client'[q].fallback
                              /\ client'[q].redis # Nil /\ call'[d].conn = client'[q].redis
                        /\ ~(client'[q].initialized /\ InMemory(client[q])') => memory'[q] = Empty
      BY DEF CleanSound, Empty
    <2>1. q # p /\ clean[q] /\ client'[q] = client[q]
      BY <1>1, <1>2, <1>3 DEF LocalType
    <2>2. \A d \in Coros : ProcOf[d] = q =>
             call'[d].pc = call[d].pc /\ call'[d].conn = call[d].conn
      BY <2>1, <1>4 DEF p
    <2>3. Pinging(q)' = Pinging(q)
      BY <2>2 DEF Pinging, At
    <2> QED
      BY <2>1, <2>2, <2>3, <1>3 DEF LocalInv, CleanSound, Pinging, At, InMemory
  <1> QED
    BY <1>5, <1>6, <1>7 DEF LocalInv

\* Calls that do not ping begin or end, and nothing else happens.
CallsBeginOrEnd ==
    /\ client' = client /\ memory' = memory /\ clean' = clean
    /\ call' \in [Coros -> Call]
    /\ \A d \in Coros : \/ call'[d] = call[d]
                        \/ ~At(d, "ping") /\ call'[d].pc \in {"idle", "enter"}

\* Nothing depends on a call that has not begun to use the client.
LEMMA FewerCalls ==
    ASSUME LocalInv, CallsBeginOrEnd
    PROVE  LocalInv'
  <1> USE DEF CallsBeginOrEnd
  <1>1. LocalType'
    BY DEF LocalInv, LocalType
  <1>2. \A q \in Procs : /\ Pinging(q)' = Pinging(q)
                         /\ \A d \in Pinging(q) : call'[d] = call[d]
    BY DEF Pinging, At
  <1>3. BeingInitialized'
    BY <1>2 DEF LocalInv, BeingInitialized, NewClient
  <1>4. CleanSound'
    BY <1>2 DEF LocalInv, CleanSound, At, InMemory, Empty
  <1> QED
    BY <1>1, <1>3, <1>4 DEF LocalInv

-----------------------------------------------------------------------------
\* From one network operation to the next.
LEMMA RunKeeps ==
    ASSUME LocalInv, NEW c \in Coros, At(c, "enter") \/ At(c, "command"),
           NEW cl \in Client, cl \in {Mine(c), FallBack(Mine(c))}, Run(c, cl)
    PROVE  LocalInv'
  <1>1. /\ cl.redis = Mine(c).redis /\ cl.initialized = Mine(c).initialized
        /\ InMemory(Mine(c)) => InMemory(cl)
        /\ ProcOf[c] \in Procs /\ Mine(c) = client[ProcOf[c]]
    BY ClientFacts DEF LocalInv, InMemory, Mine
  <1>2. CASE cl.initialized
    BY <1>1, <1>2, AccessKeeps DEF Run, Initialized
  <1>3. CASE ~cl.initialized /\ cl.redis = Nil
    BY <1>1, <1>3, ConnectKeeps DEF Run, Initialized
  <1>4. CASE ~cl.initialized /\ cl.redis # Nil
    BY <1>1, <1>4, BeginCloseKeeps DEF Run, Initialized, At
  <1> QED
    BY <1>2, <1>3, <1>4

\* A coroutine's steps: each stretch runs in a state that allows it.
LEMMA StepKeeps ==
    ASSUME LocalInv, NEW c \in Coros, Step(c)
    PROVE  LocalInv'
  <1>1. LocalType /\ ProcOf[c] \in Procs /\ Mine(c) = client[ProcOf[c]] /\ Mine(c) \in Client
    BY ClientFacts DEF LocalInv, Mine
  <1>2. CASE Enter(c)
    BY <1>1, <1>2, RunKeeps DEF Enter
  <1>3. CASE Closed(c)
    <2>1. ~clean[ProcOf[c]]
      BY <1>1, <1>3 DEF Closed, LocalInv, CleanSound
    <2> QED
      BY <2>1, <1>3, ConnectKeeps DEF Closed
  <1>4. CASE PingAnswered(c)
    <2> DEFINE cl == [Mine(c) EXCEPT !.fallback = FALSE, !.initialized = TRUE]
    <2>1. cl \in Client /\ cl.initialized /\ cl.redis = Mine(c).redis
      BY <1>1, ClientFacts
    <2>2. Access(c, cl) /\ At(c, "ping")
      BY <1>4 DEF PingAnswered
    <2> HIDE DEF cl
    <2>3. clean[ProcOf[c]] => ~Mine(c).initialized
      BY <1>1, <2>2 DEF LocalInv, CleanSound, Pinging
    <2> QED
      BY <2>1, <2>2, <2>3, AccessKeeps
  <1>5. CASE PingFailed(c)
    <2> DEFINE cl == [redis |-> Nil, fallback |-> TRUE, initialized |-> TRUE]
    <2>1. cl \in Client /\ cl.initialized /\ InMemory(cl)
      BY DEF Client, InMemory
    <2>2. Access(c, cl) /\ At(c, "ping")
      BY <1>5 DEF PingFailed
    <2> HIDE DEF cl
    <2> QED
      BY <2>1, <2>2, AccessKeeps
  <1>6. CASE CommandAnswered(c)
    <2>1. /\ call' = [call EXCEPT ![c] = NoCall] /\ At(c, "command")
          /\ client' = client /\ memory' = memory /\ clean' = clean
      BY <1>6 DEF CommandAnswered
    <2>2. call' \in [Coros -> Call] /\ call'[c].pc = "idle" /\ ~At(c, "ping")
      BY <1>1, <2>1 DEF LocalType, Call, NoCall, At
    <2>3. \A d \in Coros : \/ call'[d] = call[d]
                           \/ ~At(d, "ping") /\ call'[d].pc \in {"idle", "enter"}
      <3>1. \A d \in Coros \ {c} : call'[d] = call[d]
        BY <1>1, <2>1 DEF LocalType
      <3>2. ~At(c, "ping") /\ call'[c].pc \in {"idle", "enter"}
        BY <2>2
      <3> QED
        BY <3>1, <3>2
    <2> QED
      BY <2>1, <2>2, <2>3, FewerCalls DEF CallsBeginOrEnd
  <1>7. CASE CommandFailed(c)
    BY <1>1, <1>7, ClientFacts, RunKeeps DEF CommandFailed
  <1> QED
    BY <1>2, <1>3, <1>4, <1>5, <1>6, <1>7 DEF Step

\* What a step of a coroutine does to the server, and to other processes.
LEMMA StepLeaves ==
    ASSUME CacheInv, NEW c \in Coros, Step(c)
    PROVE  /\ up' = up
           /\ redis' \in [Keys -> Values \cup {Nil}]
           /\ \A k \in Keys : redis'[k] \in {redis[k], Nil} \cup BeingSet(k)
           /\ \A q \in Procs \ {ProcOf[c]} :
                 client'[q] = client[q] /\ memory'[q] = memory[q] /\ clean'[q] = clean[q]
  <1>1. /\ call[c] \in Call /\ redis \in [Keys -> Values \cup {Nil}]
        /\ client \in [Procs -> Client] /\ clean \in [Procs -> BOOLEAN]
        /\ memory \in [Procs -> [Keys -> Values \cup {Nil}]]
    BY DEF CacheInv, CacheTypeOK
  <1>2. up' = up /\ redis' \in {redis, After(call[c], redis)}
    BY DEF Step, Enter, Closed, PingAnswered, PingFailed, CommandAnswered, CommandFailed
  <1>3. redis' \in [Keys -> Values \cup {Nil}]
    BY <1>1, <1>2, AfterFacts
  <1>4. ASSUME NEW k \in Keys PROVE redis'[k] \in {redis[k], Nil} \cup BeingSet(k)
    <2>1. \/ redis'[k] \in {redis[k], Nil}
          \/ call[c].op = "set" /\ call[c].key = k /\ redis'[k] = call[c].val
      BY <1>1, <1>2, AfterFacts
    <2> QED
      BY <2>1 DEF BeingSet
  <1>5. ASSUME NEW q \in Procs \ {ProcOf[c]}
        PROVE  client'[q] = client[q] /\ memory'[q] = memory[q] /\ clean'[q] = clean[q]
    <2>1. ASSUME NEW cl, Run(c, cl)
          PROVE  client'[q] = client[q] /\ memory'[q] = memory[q] /\ clean'[q] = clean[q]
      BY <1>1, <2>1 DEF Run, Access, Connect, BeginClose
    <2>2. ASSUME NEW cl, Access(c, cl)
          PROVE  client'[q] = client[q] /\ memory'[q] = memory[q] /\ clean'[q] = clean[q]
      BY <1>1, <2>2 DEF Access
    <2>3. ASSUME Connect(c)
          PROVE  client'[q] = client[q] /\ memory'[q] = memory[q] /\ clean'[q] = clean[q]
      BY <1>1, <2>3 DEF Connect
    <2> QED
      BY <2>1, <2>2, <2>3
         DEF Step, Enter, Closed, PingAnswered, PingFailed, CommandAnswered, CommandFailed
  <1> QED
    BY <1>2, <1>3, <1>4, <1>5

\* CacheInv in the two halves the lemmas use.
LEMMA CacheInvParts ==
    CacheInv <=> LocalInv /\ redis \in [Keys -> Values \cup {Nil}] /\ up \in BOOLEAN
  BY DEF CacheInv, CacheTypeOK, LocalInv, LocalType

\* The same of the next state.
LEMMA PrimedParts ==
    ASSUME LocalInv', redis' \in [Keys -> Values \cup {Nil}], up' \in BOOLEAN
    PROVE  CacheInv'
  BY DEF CacheInv, CacheTypeOK, LocalInv, LocalType

\* A process is replaced: its coroutines are gone, others do not notice.
LEMMA RestartKeeps ==
    ASSUME LocalInv, NEW p \in Procs, Restart(p)
    PROVE  LocalInv'
  <1>1. LocalType
    BY DEF LocalInv
  <1>2. /\ client' \in [Procs -> Client] /\ client'[p] = NewClient
        /\ \A q \in Procs \ {p} : client'[q] = client[q]
    <2>1. NewClient \in Client
      BY DEF NewClient, Client
    <2> QED
      BY <1>1, <2>1 DEF Restart, LocalType
  <1>3. /\ memory' \in [Procs -> [Keys -> Values \cup {Nil}]] /\ memory'[p] = Empty
        /\ \A q \in Procs \ {p} : memory'[q] = memory[q]
    BY <1>1 DEF Restart, LocalType, Empty
  <1>4. clean' \in [Procs -> BOOLEAN] /\ \A q \in Procs : clean'[q] => clean[q]
    <2>1. clean' = [clean EXCEPT ![p] = clean[p] /\ ~(client[p].initialized /\ InMemory(client[p]))]
      BY DEF Restart
    <2> QED
      BY <1>1, <2>1 DEF LocalType
  <1>5. /\ call' \in [Coros -> Call]
        /\ \A d \in Coros : call'[d] = IF ProcOf[d] = p THEN NoCall ELSE call[d]
    <2>1. NoCall \in Call
      BY DEF NoCall, Call
    <2> QED
      BY <1>1, <2>1 DEF Restart, LocalType
  <1>6. \A q \in Procs \ {p} : Pinging(q)' = Pinging(q)
    BY <1>5 DEF Pinging, At
  <1>7. Pinging(p)' = {}
    BY <1>5 DEF Pinging, At, NoCall
  <1>8. LocalType'
    BY <1>2, <1>3, <1>4, <1>5 DEF LocalType
  <1>9. BeingInitialized'
    BY <1>2, <1>5, <1>6 DEF LocalInv, BeingInitialized, NewClient, Pinging
  <1>10. CleanSound'
    <2> SUFFICES ASSUME NEW q \in Procs, clean'[q]
                 PROVE  /\ \A d \in Coros : ProcOf[d] = q =>
                              /\ ~At(d, "closing")'
                              /\ At(d, "command")' => client'[q].initialized
                        /\ \A d \in Pinging(q)' :
                              /\ Pinging(q)' = {d}
                              /\ ~client'[q].initialized /\ ~client'[q].fallback
                              /\ client'[q].redis # Nil /\ call'[d].conn = client'[q].redis
                        /\ ~(client'[q].initialized /\ InMemory(client[q])') => memory'[q] = Empty
      BY DEF CleanSound, Empty
    <2>1. CASE q = p
      BY <2>1, <1>3, <1>5, <1>7 DEF At, NoCall
    <2>2. CASE q # p
      <3>1. \A d \in Coros : ProcOf[d] = q => call'[d] = call[d]
        BY <2>2, <1>5
      <3> QED
        BY <2>2, <3>1, <1>2, <1>3, <1>4, <1>6 DEF LocalInv, CleanSound, At, InMemory, Pinging
    <2> QED
      BY <2>1, <2>2
  <1> QED
    BY <1>8, <1>9, <1>10 DEF LocalInv

\* A key runs out, which leaves an empty store empty.
LEMMA LapseKeeps ==
    ASSUME CacheInv, NEW k \in Keys, Lapse(k)
    PROVE  /\ CacheInv'
           /\ client' = client
           /\ \A j \in Keys : redis'[j] \in {redis[j], Nil}
           /\ \A p \in Procs, j \in Keys : memory'[p][j] \in {memory[p][j], Nil}
  <1>1. /\ client' = client /\ up' = up /\ call' = call /\ clean' = clean
    BY DEF Lapse
  <1>2. CacheTypeOK
    BY DEF CacheInv
  <1>3. \/ redis' = [redis EXCEPT ![k] = Nil] /\ memory' = memory
        \/ redis' = redis /\ \E p \in Procs : memory' = [memory EXCEPT ![p][k] = Nil]
    BY DEF Lapse
  <1>4. /\ redis' \in [Keys -> Values \cup {Nil}]
        /\ \A j \in Keys : redis'[j] \in {redis[j], Nil}
    BY <1>2, <1>3 DEF CacheTypeOK
  <1>5. /\ memory' \in [Procs -> [Keys -> Values \cup {Nil}]]
        /\ \A p \in Procs, j \in Keys : memory'[p][j] \in {memory[p][j], Nil}
    <2>1. ASSUME NEW p \in Procs, memory' = [memory EXCEPT ![p][k] = Nil]
          PROVE  /\ memory' \in [Procs -> [Keys -> Values \cup {Nil}]]
                 /\ \A q \in Procs, j \in Keys : memory'[q][j] \in {memory[q][j], Nil}
      <3>1. [memory[p] EXCEPT ![k] = Nil] \in [Keys -> Values \cup {Nil}]
        BY <1>2 DEF CacheTypeOK
      <3>2. memory' = [memory EXCEPT ![p] = [memory[p] EXCEPT ![k] = Nil]]
        BY <2>1
      <3> QED
        BY <1>2, <3>1, <3>2 DEF CacheTypeOK
    <2> QED
      BY <1>2, <1>3, <2>1 DEF CacheTypeOK
  <1>6. \A p \in Procs : memory[p] = Empty => memory'[p] = Empty
    <2> SUFFICES ASSUME NEW p \in Procs, memory[p] = Empty
                 PROVE  memory'[p] = Empty
      OBVIOUS
    <2>1. memory'[p] \in [Keys -> Values \cup {Nil}] /\ \A j \in Keys : memory'[p][j] = Nil
      BY <1>5 DEF Empty
    <2> QED
      BY <2>1 DEF Empty
  <1>7. CacheTypeOK'
    BY <1>1, <1>2, <1>4, <1>5 DEF CacheTypeOK
  <1>8. BeingInitialized'
    BY <1>1 DEF CacheInv, BeingInitialized, Pinging, At, NewClient
  <1>9. CleanSound'
    BY <1>1, <1>6 DEF CacheInv, CleanSound, Pinging, At, InMemory, Empty
  <1> QED
    BY <1>1, <1>4, <1>5, <1>7, <1>8, <1>9 DEF CacheInv

\* Every step keeps the invariant.
LEMMA CacheStep ==
    ASSUME CacheInv, [CacheNext]_vars
    PROVE  CacheInv'
  <1>1. LocalInv /\ CacheTypeOK
    BY CacheInvParts DEF CacheInv
  <1>2. ASSUME NEW c \in Coros, Arrival(c) PROVE CacheInv'
    <2>1. PICK op \in Ops, k \in Keys, v \in Values \cup {Nil} : Start(c, op, k, v)
      BY <1>2 DEF Arrival, Ops
    <2> DEFINE new == [op |-> op, key |-> k, val |-> v, pc |-> "enter",
                       conn |-> Nil, cut |-> FALSE]
    <2>3. new \in Call /\ new.pc = "enter"
      BY DEF Call
    <2>4. /\ At(c, "idle") /\ call' = [call EXCEPT ![c] = new]
          /\ UNCHANGED <<client, memory, redis, up, clean>>
      BY <2>1 DEF Start
    <2> HIDE DEF new
    <2>5. /\ call' \in [Coros -> Call] /\ call'[c].pc = "enter"
          /\ \A d \in Coros \ {c} : call'[d] = call[d]
      BY <1>1, <2>3, <2>4 DEF CacheTypeOK
    <2>6. CallsBeginOrEnd
      BY <2>4, <2>5 DEF CallsBeginOrEnd, At
    <2> QED
      BY <1>1, <2>4, <2>6, FewerCalls, PrimedParts DEF CacheTypeOK
  <1>3. ASSUME NEW c \in Coros, Step(c) PROVE CacheInv'
    BY <1>1, <1>3, StepKeeps, StepLeaves, PrimedParts DEF CacheTypeOK
  <1>4. ASSUME NEW p \in Procs, Restart(p) PROVE CacheInv'
    BY <1>1, <1>4, RestartKeeps, PrimedParts DEF Restart, CacheTypeOK
  <1>5. ASSUME NEW k \in Keys, Lapse(k) PROVE CacheInv'
    BY <1>5, LapseKeeps
  <1>6. CASE Outage
    <2>1. up' \in BOOLEAN /\ redis' = redis /\ UNCHANGED <<client, memory, call, clean>>
      BY <1>1, <1>6 DEF Outage, CacheTypeOK
    <2>2. LocalInv'
      BY <1>1, <2>1 DEF LocalInv, LocalType, BeingInitialized, CleanSound, Pinging, At,
                        InMemory, NewClient, Empty
    <2> QED
      BY <1>1, <2>1, <2>2, PrimedParts DEF CacheTypeOK
  <1>7. CASE UNCHANGED vars
    <2>1. redis' = redis /\ up' = up /\ UNCHANGED <<client, memory, call, clean>>
      BY <1>7 DEF vars
    <2>2. LocalInv'
      BY <1>1, <2>1 DEF LocalInv, LocalType, BeingInitialized, CleanSound, Pinging, At,
                        InMemory, NewClient, Empty
    <2> QED
      BY <1>1, <2>1, <2>2, PrimedParts DEF CacheTypeOK
  <1> QED
    BY <1>2, <1>3, <1>4, <1>5, <1>6, <1>7 DEF CacheNext

\* The invariant holds when the processes start.
LEMMA CacheInitial == CacheInit => CacheInv
  <1> SUFFICES ASSUME CacheInit PROVE CacheInv
    OBVIOUS
  <1>1. NewClient \in Client /\ NoCall \in Call /\ Empty \in [Keys -> Values \cup {Nil}]
    BY DEF NewClient, Client, NoCall, Call, Empty
  <1>2. CacheTypeOK
    BY <1>1 DEF CacheInit, CacheTypeOK
  <1>3. \A c \in Coros : call[c].pc = "idle"
    BY DEF CacheInit, NoCall
  <1>4. BeingInitialized
    BY DEF CacheInit, BeingInitialized
  <1>5. CleanSound
    BY <1>3 DEF CacheInit, CleanSound, Pinging, At
  <1> QED
    BY <1>2, <1>4, <1>5 DEF CacheInv

\* However the coroutines of a process overlap with the first use of the cache,
\* with outages and with each other, the client is new, being pinged or ready
\* (_init_redis, cache.py:52-90).
THEOREM CacheInvariant == CacheSpec => []CacheInv
  <1>1. CacheInv /\ [CacheNext]_vars => CacheInv'
    BY CacheStep
  <1> QED
    BY CacheInitial, <1>1, PTL DEF CacheSpec

-----------------------------------------------------------------------------
(* No resurrection *)

\* What a process finds under a key only changes as NoResurrection allows.
Kept(p, k) == View(p, k)' \in {View(p, k), Nil} \cup BeingSet(k)

\* The operation's own store changes by the operation.
LEMMA AccessShows ==
    ASSUME CacheInv, NEW c \in Coros, NEW cl \in Client, Access(c, cl),
           cl.initialized, clean[ProcOf[c]],
           Mine(c).initialized /\ InMemory(Mine(c)) => InMemory(cl),
           NEW k \in Keys, redis'[k] \in {redis[k], Nil} \cup BeingSet(k)
    PROVE  Kept(ProcOf[c], k)
  <1> DEFINE p == ProcOf[c]
             m == memory[p]
  <1>1. /\ p \in Procs /\ Mine(c) = client[p] /\ client \in [Procs -> Client]
        /\ memory \in [Procs -> [Keys -> Values \cup {Nil}]]
        /\ call[c] \in Call
    BY CacheInvParts, ClientFacts DEF Mine, CacheInv, CacheTypeOK, LocalInv
  <1>2. client'[p] = cl
    BY <1>1 DEF Access
  <1>3. CASE ~InMemory(cl)
    BY <1>1, <1>2, <1>3 DEF Kept, View, InMemory
  <1>4. CASE InMemory(cl)
    <2>1. memory'[p] = After(call[c], m)
      BY <1>1, <1>4 DEF Access
    <2>2. memory'[p][k] \in {m[k], Nil} \cup BeingSet(k)
      <3>1. \/ After(call[c], m)[k] \in {m[k], Nil}
            \/ call[c].op = "set" /\ call[c].key = k /\ After(call[c], m)[k] = call[c].val
        BY <1>1, AfterFacts
      <3> QED
        BY <2>1, <3>1 DEF BeingSet
    <2>3. ~(client[p].initialized /\ InMemory(client[p])) => m[k] = Nil
      BY <1>1 DEF CacheInv, CleanSound, Empty
    <2>4. View(p, k)' = memory'[p][k]
      BY <1>2, <1>4 DEF View, InMemory
    <2> QED
      BY <2>2, <2>3, <2>4 DEF Kept, View
  <1> QED
    BY <1>3, <1>4

\* Connecting leaves the process to what Redis holds.
LEMMA ConnectShows ==
    ASSUME CacheInv, NEW c \in Coros, Connect(c), ~Mine(c).initialized,
           NEW k \in Keys, redis'[k] \in {redis[k], Nil} \cup BeingSet(k)
    PROVE  Kept(ProcOf[c], k)
  <1>1. /\ ProcOf[c] \in Procs /\ Mine(c) = client[ProcOf[c]]
        /\ client \in [Procs -> Client]
    BY CacheInvParts, ClientFacts DEF Mine, CacheInv, CacheTypeOK, LocalInv
  <1>2. ~client'[ProcOf[c]].initialized
    BY <1>1 DEF Connect
  <1> QED
    BY <1>1, <1>2 DEF Kept, View

\* A coroutine's step, for the process it runs in.
LEMMA StepShows ==
    ASSUME CacheInv, NEW c \in Coros, Step(c), clean'[ProcOf[c]], NEW k \in Keys
    PROVE  Kept(ProcOf[c], k)
  <1> DEFINE p == ProcOf[c]
  <1>1. redis'[k] \in {redis[k], Nil} \cup BeingSet(k)
    BY StepLeaves
  <1>2. /\ LocalInv /\ p \in Procs /\ Mine(c) = client[p] /\ Mine(c) \in Client
        /\ clean \in [Procs -> BOOLEAN]
    BY CacheInvParts, ClientFacts DEF LocalInv, LocalType, Mine
  <1>3. ASSUME NEW cl \in {Mine(c), FallBack(Mine(c))}, Run(c, cl) PROVE Kept(p, k)
    <2>1. /\ cl \in Client /\ cl.initialized = Mine(c).initialized
          /\ InMemory(Mine(c)) => InMemory(cl)
      BY <1>2, ClientFacts DEF LocalInv, InMemory
    <2>2. CASE cl.initialized
      <3>1. Access(c, cl) /\ clean[p]
        BY <1>2, <1>3, <2>2 DEF Run, Initialized, Access
      <3> QED
        BY <1>1, <2>1, <2>2, <3>1, AccessShows
    <2>3. CASE ~cl.initialized /\ cl.redis = Nil
      BY <1>1, <1>3, <2>1, <2>3, ConnectShows DEF Run, Initialized
    <2>4. CASE ~cl.initialized /\ cl.redis # Nil
      <3>1. BeginClose(c, cl)
        BY <1>3, <2>4 DEF Run, Initialized
      <3>2. ~clean'[p]
        BY <1>2, <3>1 DEF BeginClose
      <3> QED
        BY <3>2
    <2> QED
      BY <2>2, <2>3, <2>4
  <1>4. CASE Enter(c)
    BY <1>3, <1>4 DEF Enter
  <1>5. CASE Closed(c)
    <2>1. clean[p] /\ At(c, "closing")
      BY <1>5 DEF Closed, Connect
    <2> QED
      BY <1>2, <2>1 DEF LocalInv, CleanSound
  <1>6. CASE PingAnswered(c)
    <2> DEFINE cl == [Mine(c) EXCEPT !.fallback = FALSE, !.initialized = TRUE]
    <2>1. cl \in Client /\ cl.initialized
      BY <1>2, ClientFacts DEF LocalInv
    <2>2. Access(c, cl) /\ At(c, "ping")
      BY <1>6 DEF PingAnswered
    <2> HIDE DEF cl
    <2>3. clean[p]
      BY <2>2 DEF Access
    <2>4. ~Mine(c).initialized
      BY <1>2, <2>2, <2>3 DEF LocalInv, CleanSound, Pinging
    <2> QED
      BY <1>1, <2>1, <2>2, <2>3, <2>4, AccessShows
  <1>7. CASE PingFailed(c)
    <2> DEFINE cl == [redis |-> Nil, fallback |-> TRUE, initialized |-> TRUE]
    <2>1. cl \in Client /\ cl.initialized /\ InMemory(cl)
      BY DEF Client, InMemory
    <2>2. Access(c, cl)
      BY <1>7 DEF PingFailed
    <2> HIDE DEF cl
    <2>3. clean[p]
      BY <2>2 DEF Access
    <2> QED
      BY <1>1, <2>1, <2>2, <2>3, AccessShows
  <1>8. CASE CommandAnswered(c)
    BY <1>1, <1>8 DEF CommandAnswered, Kept, View, InMemory
  <1>9. CASE CommandFailed(c)
    BY <1>3, <1>9 DEF CommandFailed
  <1> QED
    BY <1>4, <1>5, <1>6, <1>7, <1>8, <1>9 DEF Step

\* A restart of a process that used Redis loses nothing it could bring back.
LEMMA RestartShows ==
    ASSUME CacheInv, NEW q \in Procs, Restart(q), NEW p \in Procs, clean'[p], NEW k \in Keys
    PROVE  Kept(p, k)
  <1>1. /\ client \in [Procs -> Client] /\ clean \in [Procs -> BOOLEAN]
        /\ memory \in [Procs -> [Keys -> Values \cup {Nil}]]
    BY DEF CacheInv, CacheTypeOK
  <1>2. CASE p = q
    <2>1. ~client'[p].initialized /\ redis' = redis
      BY <1>1, <1>2 DEF Restart, NewClient
    <2>2. ~(client[p].initialized /\ InMemory(client[p]))
      <3>1. clean' = [clean EXCEPT ![q] = clean[q] /\ ~(client[q].initialized /\ InMemory(client[q]))]
        BY DEF Restart
      <3> QED
        BY <1>1, <1>2, <3>1
    <2> QED
      BY <2>1, <2>2 DEF Kept, View
  <1>3. CASE p # q
    <2>1. client'[p] = client[p] /\ memory'[p] = memory[p] /\ redis' = redis
      BY <1>1, <1>3 DEF Restart
    <2> QED
      BY <2>1 DEF Kept, View, InMemory
  <1> QED
    BY <1>2, <1>3

\* No store brings back a value that was overwritten or deleted, whatever
\* outages, fallbacks and restarts happen (cache.py:105-141).
THEOREM NothingComesBack == CacheSpec => NoResurrection
  <1>1. ASSUME CacheInv, [CacheNext]_vars, NEW p \in Procs, NEW k \in Keys, clean'[p]
        PROVE  Kept(p, k)
    <2>1. ASSUME NEW c \in Coros, Arrival(c) PROVE Kept(p, k)
      <3>1. UNCHANGED <<client, memory, redis>>
        BY <2>1 DEF Arrival, Start
      <3> QED
        BY <3>1 DEF Kept, View, InMemory
    <2>2. ASSUME NEW c \in Coros, Step(c) PROVE Kept(p, k)
      <3>1. CASE p = ProcOf[c]
        BY <1>1, <2>2, <3>1, StepShows
      <3>2. CASE p # ProcOf[c]
        BY <1>1, <2>2, <3>2, StepLeaves DEF Kept, View, InMemory
      <3> QED
        BY <3>1, <3>2
    <2>3. ASSUME NEW q \in Procs, Restart(q) PROVE Kept(p, k)
      BY <1>1, <2>3, RestartShows
    <2>4. ASSUME NEW j \in Keys, Lapse(j) PROVE Kept(p, k)
      BY <1>1, <2>4, LapseKeeps DEF Kept, View, InMemory
    <2>5. CASE Outage
      BY <2>5 DEF Outage, Kept, View, InMemory
    <2>6. CASE UNCHANGED vars
      BY <2>6 DEF vars, Kept, View, InMemory
    <2> QED
      BY <1>1, <2>1, <2>2, <2>3, <2>4, <2>5, <2>6 DEF CacheNext
  <1>2. CacheInv /\ [CacheNext]_vars
           => [\A p \in Procs, k \in Keys :
                 clean'[p] => View(p, k)' \in {View(p, k), Nil} \cup BeingSet(k)]_vars
    BY <1>1 DEF Kept
  <1> QED
    BY CacheInvariant, <1>2, PTL DEF CacheSpec, NoResurrection
=============================================================================
