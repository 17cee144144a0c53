----------------------------- MODULE WsLimiter -----------------------------
(***************************************************************************)
(* The per-IP limit on WebSocket connections (core/ws_connection_limiter   *)
(* .py) and the life of the connections it admits (analysis_websocket),    *)
(* for one client address: entries of different addresses never meet.      *)
(*                                                                         *)
(* Time is kept as what is left: an entry that would expire at `expiry`    *)
(* has expiry - now seconds left and counts as expired below zero.         *)
(***************************************************************************)
EXTENDS Integers, FiniteSets

CONSTANTS
    Conns,      \* conn_ids, a fresh uuid4 for every connection
    Workers,    \* server processes: one Redis, one in-memory store each
    MaxConns,   \* WS_MAX_CONNECTIONS_PER_IP
    Ttl,        \* WS_CONNECTION_TTL_SECONDS
    Buffer,     \* _KEY_EXPIRE_BUFFER_SECONDS
    MaxAge      \* seconds from acquire to release: the duration limit of the
                \* handler and the time its sends may block

ASSUME LimiterAssumption ==
    /\ MaxConns \in Nat \ {0}
    /\ Ttl \in Nat \ {0}
    /\ Buffer \in Nat \ {0}
    /\ MaxAge \in Nat \ {0}
    /\ MaxAge <= Ttl    \* 60 s against 300 s

VARIABLES
    server,     \* the worker a connection arrives at
    pc,         \* where the handler of a connection is
    inRedis,    \* fields of the Redis hash
    redisLeft,  \* time left of a Redis entry
    keyLeft,    \* TTL of the hash itself; 0 when there is no hash
    inMem,      \* keys of _memory[client_ip], all workers together
    memLeft,    \* time left of an in-memory entry
    memIds,     \* _memory_conn_ids, all workers together
    leftRedis,  \* history: the Redis entries that a fault left behind
    leftMem     \* history: the in-memory entries that a fault left behind

redisVars == <<inRedis, redisLeft, keyLeft>>
memVars == <<inMem, memLeft, memIds>>
vars == <<server, pc, inRedis, redisLeft, keyLeft, inMem, memLeft, memIds,
          leftRedis, leftMem>>

PCs == {"new", "fallback", "granted", "open", "rejected", "ended"}

\* Connections that hold a slot, and in which store.
Holding == {c \in Conns : pc[c] \in {"granted", "open"}}
HeldInRedis == Holding \ memIds
HeldInMemory(w) == {c \in Holding \cap memIds : server[c] = w}

\* History: the entries of R and M lose their owner, and an entry that is gone
\* is forgotten.
Leaves(R, M) ==
    /\ leftRedis' = (leftRedis \cup R) \cap inRedis'
    /\ leftMem' = (leftMem \cup M) \cap inMem'

At(w, S) == {c \in S : server[c] = w}
Goto(c, label) == pc' = [pc EXCEPT ![c] = label]

Init ==
    /\ server \in [Conns -> Workers]
    /\ pc = [c \in Conns |-> "new"]
    /\ inRedis = {} /\ redisLeft = [c \in Conns |-> -1] /\ keyLeft = 0
    /\ inMem = {} /\ memLeft = [c \in Conns |-> -1]
    /\ memIds = {}
    /\ leftRedis = {} /\ leftMem = {}

(***************************************************************************)
(* acquire                                                                 *)
(***************************************************************************)
\* Mutant: entries never expire.
UnexpiredAll(S, left) == S

Unexpired(S, left) == {c \in S : left[c] >= 0}

\* Mutant: an off-by-one in the comparison.
FullOffByOne(kept) == Cardinality(kept) > MaxConns

Full(kept) == Cardinality(kept) >= MaxConns

\* Mutant: the TTL of the hash is set once, by the first connection.
LuaRegisterOnce(c, kept) ==
    /\ inRedis' = kept \cup {c}
    /\ redisLeft' = [redisLeft EXCEPT ![c] = Ttl]
    /\ keyLeft' = IF keyLeft = 0 THEN Ttl + Buffer ELSE keyLeft

\* Mutant: every connection adds to the TTL of the hash.
LuaRegisterAdds(c, kept) ==
    /\ inRedis' = kept \cup {c}
    /\ redisLeft' = [redisLeft EXCEPT ![c] = Ttl]
    /\ keyLeft' = keyLeft + Ttl + Buffer

LuaRegister(c, kept) ==
    /\ inRedis' = kept \cup {c}
    /\ redisLeft' = [redisLeft EXCEPT ![c] = Ttl]
    /\ keyLeft' = Ttl + Buffer

\* _ACQUIRE_LUA, atomic in Redis: prune, then count, then register.
LuaAcquire(c, granted) ==
    LET kept == Unexpired(inRedis, redisLeft) IN
    IF Full(kept)
    THEN /\ granted = FALSE
         /\ inRedis' = kept
         /\ UNCHANGED <<redisLeft, keyLeft>>
    ELSE /\ granted = TRUE
         /\ LuaRegister(c, kept)

AcquireRedis(c) ==
    /\ pc[c] = "new"
    /\ \E granted \in BOOLEAN :
        /\ LuaAcquire(c, granted)
        /\ Goto(c, IF granted THEN "granted" ELSE "rejected")
    /\ UNCHANGED <<server, memVars>>
    /\ Leaves({}, {})

\* Redis is unreachable, or ran the script and its reply was lost.
AcquireRedisFails(c) ==
    /\ pc[c] = "new"
    /\ UNCHANGED redisVars \/ \E granted \in BOOLEAN : LuaAcquire(c, granted)
    /\ Goto(c, "fallback")
    /\ UNCHANGED <<server, memVars>>
    /\ Leaves({c}, {})

\* Mutant: the in-memory store is not pruned before it is counted.
PruneNothing(w) == At(w, inMem)

Prune(w) == Unexpired(At(w, inMem), memLeft)

\* _acquire_memory, in the worker of c.
AcquireMemory(c) ==
    LET mine == At(server[c], inMem)
        kept == Prune(server[c]) IN
    /\ pc[c] = "fallback"
    /\ IF Full(kept)
       THEN /\ Goto(c, "rejected")
            /\ inMem' = (inMem \ mine) \cup kept
            /\ UNCHANGED <<memLeft, memIds>>
       ELSE /\ Goto(c, "granted")
            /\ inMem' = (inMem \ mine) \cup kept \cup {c}
            /\ memLeft' = [memLeft EXCEPT ![c] = Ttl]
            /\ memIds' = memIds \cup {c}
    /\ UNCHANGED <<server, redisVars>>
    /\ Leaves({}, {})

(***************************************************************************)
(* The connection                                                          *)
(***************************************************************************)
Accept(c) ==
    /\ pc[c] = "granted"
    /\ Goto(c, "open")
    /\ UNCHANGED <<server, redisVars, memVars>>
    /\ Leaves({}, {})

\* accept() raises: it stands before the try whose finally releases the slot.
AcceptFails(c) ==
    /\ pc[c] = "granted"
    /\ Goto(c, "ended")
    /\ UNCHANGED <<server, redisVars, memVars>>
    /\ IF c \in memIds THEN Leaves({}, {c}) ELSE Leaves({c}, {})

(***************************************************************************)
(* release                                                                 *)
(***************************************************************************)
\* Mutant: the field is never deleted.
LuaReleaseNothing(c) == UNCHANGED redisVars

LuaRelease(c) ==
    /\ inRedis' = inRedis \ {c}
    /\ keyLeft' = IF inRedis' = {} THEN 0 ELSE keyLeft
    /\ UNCHANGED redisLeft

\* A Redis error is logged and the entry left to its TTL.
ReleaseRedis(c) ==
    /\ pc[c] = "open" /\ c \notin memIds
    /\ Goto(c, "ended")
    /\ UNCHANGED <<server, memVars>>
    /\ \/ LuaRelease(c) /\ Leaves({}, {})
       \/ UNCHANGED redisVars /\ Leaves({c}, {})

\* _release_memory: without an entry for the address it returns early.
ReleaseMemory(c) ==
    /\ pc[c] = "open" /\ c \in memIds
    /\ IF At(server[c], inMem) = {}
       THEN UNCHANGED <<inMem, memIds>>
       ELSE /\ inMem' = inMem \ {c}
            /\ memIds' = memIds \ {c}
    /\ Goto(c, "ended")
    /\ UNCHANGED <<server, redisVars, memLeft>>
    /\ Leaves({}, {})

(***************************************************************************)
(* Time and crashes                                                        *)
(***************************************************************************)
Elapse(left) == [c \in Conns |-> IF left[c] < 0 THEN left[c] ELSE left[c] - 1]

Age(c) == Ttl - (IF c \in memIds THEN memLeft[c] ELSE redisLeft[c])

\* A second passes; Redis drops a hash whose TTL is over.  No connection holds
\* its slot longer than MaxAge.
Tick ==
    /\ \A c \in Holding : Age(c) < MaxAge
    /\ redisLeft' = Elapse(redisLeft)
    /\ memLeft' = Elapse(memLeft)
    /\ keyLeft' = IF keyLeft = 0 THEN 0 ELSE keyLeft - 1
    /\ inRedis' = IF keyLeft' = 0 THEN {} ELSE inRedis
    /\ UNCHANGED <<server, pc, inMem, memIds>>
    /\ Leaves({}, {})

\* A worker dies with its connections and its memory; nobody calls release.
CrashWorker(w) ==
    /\ \E c \in Conns : server[c] = w /\ pc[c] # "new"
    /\ pc' = [c \in Conns |->
                IF server[c] = w /\ pc[c] # "new" THEN "ended" ELSE pc[c]]
    /\ inMem' = inMem \ At(w, Conns)
    /\ memIds' = memIds \ At(w, Conns)
    /\ UNCHANGED <<server, redisVars, memLeft>>
    /\ Leaves(At(w, HeldInRedis), {})

Handle(c) ==
    \/ AcquireRedis(c) \/ AcquireRedisFails(c) \/ AcquireMemory(c)
    \/ Accept(c) \/ AcceptFails(c)
    \/ ReleaseRedis(c) \/ ReleaseMemory(c)

Next ==
    \/ \E c \in Conns : Handle(c)
    \/ Tick
    \/ \E w \in Workers : CrashWorker(w)

Spec == Init /\ [][Next]_vars

\* Time passes, and a handler that holds or asks for a slot gets on: the loop
\* closes at its duration limit, and Redis calls end.
FairSpec ==
    Spec /\ WF_vars(Tick) /\ \A c \in Conns : WF_vars(pc[c] # "new" /\ Handle(c))

(***************************************************************************)
(* What must hold                                                          *)
(***************************************************************************)
\* Types of the variables.
TypeOK ==
    /\ server \in [Conns -> Workers]
    /\ pc \in [Conns -> PCs]
    /\ inRedis \subseteq Conns
    /\ redisLeft \in [Conns -> -1..Ttl]
    /\ keyLeft \in 0..(Ttl + Buffer)
    /\ inMem \subseteq Conns
    /\ memLeft \in [Conns -> -1..Ttl]
    /\ memIds \subseteq Conns
    /\ leftRedis \subseteq Conns /\ leftMem \subseteq Conns

\* A connection is counted as long as it lives: neither pruning, the TTL of the
\* hash, a lost reply nor the end of another connection removes its entry from
\* the store that granted it.
LiveIsCounted ==
    /\ HeldInRedis \subseteq Unexpired(inRedis, redisLeft)
    /\ Holding \cap memIds \subseteq Unexpired(inMem, memLeft)

\* The limit, as far as it goes: all workers together hold at most MaxConns
\* connections granted by Redis, and each worker at most MaxConns more that it
\* granted from memory while Redis was away.
StoreCap ==
    /\ Cardinality(HeldInRedis) <= MaxConns
    /\ \A w \in Workers : Cardinality(HeldInMemory(w)) <= MaxConns

\* What stands against a client in a store: the connections that hold a slot
\* there, and until they expire the entries a fault left behind (a lost reply, a
\* failed accept, a failed release, a crash).
AgainstInRedis == HeldInRedis \cup (leftRedis \cap Unexpired(inRedis, redisLeft))
AgainstInMemory(w) ==
    HeldInMemory(w) \cup (leftMem \cap Unexpired(At(w, inMem), memLeft))

\* A client is turned away only when MaxConns connections stand against it in the
\* store that was asked: a connection that ended in good order costs no slot, nor
\* does an expired leftover, whichever of the two stores granted it, whatever
\* became of Redis in between and whoever else asked.
RejectsOnlyWhenFull ==
    [][\A c \in Conns :
        /\ pc[c] = "new" /\ pc'[c] = "rejected" =>
              Cardinality(AgainstInRedis) >= MaxConns
        /\ pc[c] = "fallback" /\ pc'[c] = "rejected" =>
              Cardinality(AgainstInMemory(server[c])) >= MaxConns]_vars

\* "Stale entries are reclaimed even if a worker crashes or a client disconnects
\* without triggering the cleanup path": what an ended connection left in a store
\* stops counting.
StaleReclaimed ==
    \A c \in Conns : pc[c] = "ended" ~>
        c \notin Unexpired(inRedis, redisLeft) \cup Unexpired(inMem, memLeft)
=============================================================================
