-------------------------- MODULE WsLimiterProofs --------------------------
(***************************************************************************)
(* Proofs about WsLimiter, for any number of connections and workers, any  *)
(* limit and any TTL not shorter than a connection lives.                  *)
(***************************************************************************)
EXTENDS WsLimiter, FiniteSetTheorems, TLAPS

(***************************************************************************)
(* The inductive invariant.  That a live connection is counted needs more  *)
(* than itself: its entry must have been young enough to last until the    *)
(* connection's age stops time, the hash that carries it must outlive it,  *)
(* and a connection that is still asking must not pass for one granted     *)
(* from memory.  That a rejection is justified needs the other direction:  *)
(* an entry that nobody holds is one that a fault left behind.             *)
(***************************************************************************)
Lease(c) ==
    IF c \in memIds
    THEN c \in inMem /\ memLeft[c] >= Ttl - MaxAge
    ELSE c \in inRedis /\ redisLeft[c] >= Ttl - MaxAge

Leases == \A c \in Holding : Lease(c)

HashOutlivesEntries == \A c \in inRedis : keyLeft > redisLeft[c]

AskingIsFresh ==
    \A c \in Conns : pc[c] \in {"new", "fallback"} => c \notin memIds

RedisBound == IsFiniteSet(inRedis) /\ Cardinality(inRedis) <= MaxConns

MemoryBound ==
    \A w \in Workers :
        /\ IsFiniteSet(At(w, inMem))
        /\ Cardinality(At(w, inMem)) <= MaxConns

OnlyFaultsLeaveEntries ==
    /\ inRedis \subseteq HeldInRedis \cup leftRedis
    /\ inMem \subseteq (Holding \cap memIds) \cup leftMem

IInv ==
    /\ TypeOK
    /\ Leases
    /\ HashOutlivesEntries
    /\ AskingIsFresh
    /\ RedisBound
    /\ MemoryBound
    /\ OnlyFaultsLeaveEntries

(***************************************************************************)
(* Lemmas about the stores                                                 *)
(***************************************************************************)
\* Pruning and, below the limit, registering keep a store within the limit.
LEMMA AdmitKeepsBound ==
    ASSUME NEW S, NEW K \in SUBSET S, NEW c,
           IsFiniteSet(S), Cardinality(S) <= MaxConns
    PROVE  /\ IsFiniteSet(K) /\ Cardinality(K) <= MaxConns
           /\ IsFiniteSet(K \cup {c})
           /\ Cardinality(K) < MaxConns => Cardinality(K \cup {c}) <= MaxConns
<1>1. /\ IsFiniteSet(K) /\ Cardinality(K) <= Cardinality(S)
      /\ Cardinality(K) \in Nat /\ Cardinality(S) \in Nat
  BY FS_Subset, FS_CardinalityType
<1>2. /\ IsFiniteSet(K \cup {c})
      /\ Cardinality(K \cup {c}) \in {Cardinality(K), Cardinality(K) + 1}
  BY <1>1, FS_AddElement
<1> QED
  BY <1>1, <1>2, LimiterAssumption

\* What the acquire script does to the Redis side of the invariant.
LEMMA LuaAcquireKeeps ==
    ASSUME IInv, NEW c \in Conns, NEW granted \in BOOLEAN,
           LuaAcquire(c, granted)
    PROVE  /\ inRedis' \subseteq Conns
           /\ inRedis' \subseteq inRedis \cup (IF granted THEN {c} ELSE {})
           /\ redisLeft' \in [Conns -> -1..Ttl]
           /\ keyLeft' \in 0..(Ttl + Buffer)
           /\ HashOutlivesEntries'
           /\ RedisBound'
           /\ \A d \in Conns : (d \in inRedis /\ redisLeft[d] >= Ttl - MaxAge) =>
                 d \in inRedis' /\ redisLeft'[d] >= Ttl - MaxAge
           /\ granted => c \in inRedis' /\ redisLeft'[c] >= Ttl - MaxAge
<1> DEFINE kept == Unexpired(inRedis, redisLeft)
<1>0. /\ inRedis \subseteq Conns /\ redisLeft \in [Conns -> -1..Ttl]
      /\ keyLeft \in 0..(Ttl + Buffer) /\ kept \subseteq inRedis
      /\ \A d \in inRedis : redisLeft[d] >= Ttl - MaxAge => d \in kept
  BY LimiterAssumption DEF IInv, TypeOK, Unexpired
<1>1. /\ IsFiniteSet(kept) /\ Cardinality(kept) <= MaxConns
      /\ IsFiniteSet(kept \cup {c})
      /\ Cardinality(kept) < MaxConns => Cardinality(kept \cup {c}) <= MaxConns
      /\ Cardinality(kept) \in Nat
  BY <1>0, AdmitKeepsBound, FS_CardinalityType DEF IInv, RedisBound
<1>2. CASE Cardinality(kept) >= MaxConns
  <2>1. granted = FALSE /\ inRedis' = kept /\ UNCHANGED <<redisLeft, keyLeft>>
    BY <1>2 DEF LuaAcquire, LuaRegister, Full
  <2> QED
    BY <1>0, <1>1, <2>1 DEF IInv, HashOutlivesEntries, RedisBound
<1>3. CASE ~(Cardinality(kept) >= MaxConns)
  <2>1. /\ inRedis' = kept \cup {c}
        /\ redisLeft' = [redisLeft EXCEPT ![c] = Ttl]
        /\ keyLeft' = Ttl + Buffer
    BY <1>3 DEF LuaAcquire, LuaRegister, Full
  <2>2. /\ redisLeft' \in [Conns -> -1..Ttl]
        /\ \A d \in Conns : redisLeft'[d] = IF d = c THEN Ttl ELSE redisLeft[d]
    BY <1>0, <2>1, LimiterAssumption
  <2>3. HashOutlivesEntries'
    BY <1>0, <2>1, <2>2, LimiterAssumption DEF HashOutlivesEntries
  <2>4. RedisBound'
    BY <1>1, <1>3, <2>1, LimiterAssumption DEF RedisBound
  <2>5. inRedis' \subseteq inRedis \cup (IF granted THEN {c} ELSE {})
    <3>1. granted = TRUE
      BY <1>3 DEF LuaAcquire, Full
    <3> QED
      BY <1>0, <2>1, <3>1
  <2> QED
    BY <1>0, <2>1, <2>2, <2>3, <2>4, <2>5, LimiterAssumption
<1> QED
  BY <1>2, <1>3

(***************************************************************************)
(* The invariant holds                                                     *)
(***************************************************************************)
LEMMA InitIInv == Init => IInv
<1> SUFFICES ASSUME Init PROVE IInv
  OBVIOUS
<1>1. TypeOK
  BY LimiterAssumption DEF Init, TypeOK, PCs
<1>2. Leases /\ HashOutlivesEntries /\ AskingIsFresh
  BY DEF Init, Leases, Holding, HashOutlivesEntries, AskingIsFresh
<1>5. OnlyFaultsLeaveEntries
  BY DEF Init, OnlyFaultsLeaveEntries
<1>3. \A w \in Workers : At(w, inMem) = {}
  BY DEF Init, At
<1>4. RedisBound /\ MemoryBound
  BY <1>3, FS_EmptySet, LimiterAssumption DEF Init, RedisBound, MemoryBound
<1> QED
  BY <1>1, <1>2, <1>4, <1>5 DEF IInv

LEMMA AcquireRedisKeeps ==
    ASSUME IInv, NEW c \in Conns, AcquireRedis(c)
    PROVE  IInv'
<1>1. PICK granted \in BOOLEAN :
        /\ LuaAcquire(c, granted)
        /\ Goto(c, IF granted THEN "granted" ELSE "rejected")
  BY DEF AcquireRedis
<1>2. pc[c] = "new" /\ c \notin memIds
  BY DEF AcquireRedis, IInv, AskingIsFresh
<1>3. UNCHANGED <<server, inMem, memLeft, memIds>>
  BY DEF AcquireRedis, memVars
<1>4. /\ pc' \in [Conns -> PCs]
      /\ \A d \in Conns : pc'[d] = IF d # c THEN pc[d]
                                   ELSE IF granted THEN "granted" ELSE "rejected"
  BY <1>1 DEF Goto, IInv, TypeOK, PCs
<1>5. TypeOK'
  BY <1>1, <1>3, <1>4, LuaAcquireKeeps DEF AcquireRedis, Leaves, IInv, TypeOK
<1>6. Leases'
  <2> SUFFICES ASSUME NEW d \in Conns, d \in Holding' PROVE Lease(d)'
    BY DEF Leases, Holding
  <2>1. CASE d = c
    BY <1>1, <1>2, <1>3, <1>4, <2>1, LuaAcquireKeeps DEF Lease, Holding
  <2>2. CASE d # c
    <3>1. Lease(d)
      BY <1>4, <2>2 DEF Holding, IInv, Leases
    <3> QED
      BY <1>1, <1>3, <3>1, LuaAcquireKeeps DEF Lease
  <2> QED
    BY <2>1, <2>2
<1>7. AskingIsFresh'
  BY <1>3, <1>4 DEF IInv, AskingIsFresh
<1>8. HashOutlivesEntries' /\ RedisBound'
  BY <1>1, LuaAcquireKeeps
<1>9. MemoryBound'
  BY <1>3 DEF IInv, MemoryBound, At
<1>10. OnlyFaultsLeaveEntries'
  <2>1. inRedis' \subseteq inRedis \cup (IF granted THEN {c} ELSE {})
    BY <1>1, LuaAcquireKeeps
  <2> QED
    BY <1>2, <1>3, <1>4, <2>1
    DEF AcquireRedis, Leaves, IInv, TypeOK, OnlyFaultsLeaveEntries, HeldInRedis, Holding
<1> QED
  BY <1>5, <1>6, <1>7, <1>8, <1>9, <1>10 DEF IInv

LEMMA AcquireRedisFailsKeeps ==
    ASSUME IInv, NEW c \in Conns, AcquireRedisFails(c)
    PROVE  IInv'
<1>1. /\ inRedis' \subseteq Conns
      /\ inRedis' \subseteq inRedis \cup {c}
      /\ redisLeft' \in [Conns -> -1..Ttl]
      /\ keyLeft' \in 0..(Ttl + Buffer)
      /\ HashOutlivesEntries'
      /\ RedisBound'
      /\ \A d \in Conns : (d \in inRedis /\ redisLeft[d] >= Ttl - MaxAge) =>
            d \in inRedis' /\ redisLeft'[d] >= Ttl - MaxAge
  <2>1. CASE UNCHANGED redisVars
    BY <2>1 DEF redisVars, IInv, TypeOK, HashOutlivesEntries, RedisBound
  <2>2. CASE \E granted \in BOOLEAN : LuaAcquire(c, granted)
    BY <2>2, LuaAcquireKeeps
  <2> QED
    BY <2>1, <2>2 DEF AcquireRedisFails
<1>2. UNCHANGED <<server, inMem, memLeft, memIds>> /\ pc[c] = "new"
  BY DEF AcquireRedisFails, memVars
<1>3. /\ pc' \in [Conns -> PCs]
      /\ \A d \in Conns : pc'[d] = IF d = c THEN "fallback" ELSE pc[d]
  BY DEF AcquireRedisFails, Goto, IInv, TypeOK, PCs
<1>4. TypeOK'
  BY <1>1, <1>2, <1>3 DEF AcquireRedisFails, Leaves, IInv, TypeOK
<1>5. Leases'
  BY <1>1, <1>2, <1>3 DEF IInv, Leases, Lease, Holding
<1>6. AskingIsFresh'
  BY <1>2, <1>3 DEF IInv, AskingIsFresh
<1>7. MemoryBound'
  BY <1>2 DEF IInv, MemoryBound, At
<1>8. OnlyFaultsLeaveEntries'
  BY <1>1, <1>2, <1>3
  DEF AcquireRedisFails, Leaves, IInv, TypeOK, OnlyFaultsLeaveEntries, HeldInRedis, Holding
<1> QED
  BY <1>1, <1>4, <1>5, <1>6, <1>7, <1>8 DEF IInv

LEMMA AcquireMemoryKeeps ==
    ASSUME IInv, NEW c \in Conns, AcquireMemory(c)
    PROVE  IInv'
<1> DEFINE mine == At(server[c], inMem)
           kept == Unexpired(mine, memLeft)
<1>0. /\ pc[c] = "fallback" /\ c \notin memIds /\ server[c] \in Workers
      /\ UNCHANGED <<server, inRedis, redisLeft, keyLeft>>
      /\ Leaves({}, {})
      /\ inMem \subseteq Conns /\ memLeft \in [Conns -> -1..Ttl]
      /\ kept \subseteq mine /\ mine \subseteq inMem
  BY DEF AcquireMemory, Prune, Full, redisVars, IInv, TypeOK, AskingIsFresh, At, Unexpired
<1>1. /\ IsFiniteSet(kept) /\ Cardinality(kept) <= MaxConns
      /\ IsFiniteSet(kept \cup {c})
      /\ Cardinality(kept) < MaxConns => Cardinality(kept \cup {c}) <= MaxConns
      /\ Cardinality(kept) \in Nat
  <2>1. IsFiniteSet(mine) /\ Cardinality(mine) <= MaxConns
    BY <1>0 DEF IInv, MemoryBound
  <2>2. kept \in SUBSET mine
    BY <1>0
  <2> QED
    BY <2>1, <2>2, AdmitKeepsBound, FS_CardinalityType
<1>2. HashOutlivesEntries' /\ RedisBound'
  BY <1>0 DEF IInv, HashOutlivesEntries, RedisBound
\* Pruning spares every entry that is still leased.
<1>3. \A d \in inMem : memLeft[d] >= Ttl - MaxAge => d \in (inMem \ mine) \cup kept
  BY <1>0, LimiterAssumption DEF Unexpired
<1>4. CASE Cardinality(kept) >= MaxConns
  <2>1. /\ Goto(c, "rejected")
        /\ inMem' = (inMem \ mine) \cup kept
        /\ UNCHANGED <<memLeft, memIds>>
    BY <1>4 DEF AcquireMemory, Prune, Full
  <2>2. /\ pc' \in [Conns -> PCs]
        /\ \A d \in Conns : pc'[d] = IF d = c THEN "rejected" ELSE pc[d]
    BY <2>1 DEF Goto, IInv, TypeOK, PCs
  <2>3. TypeOK'
    BY <1>0, <2>1, <2>2 DEF Leaves, IInv, TypeOK
  <2>4. Leases'
    BY <1>0, <1>3, <2>1, <2>2 DEF IInv, Leases, Lease, Holding
  <2>5. AskingIsFresh'
    BY <2>1, <2>2 DEF IInv, AskingIsFresh
  <2>6. MemoryBound'
    <3> SUFFICES ASSUME NEW w \in Workers
                 PROVE  /\ IsFiniteSet(At(w, inMem'))
                        /\ Cardinality(At(w, inMem')) <= MaxConns
      BY <1>0 DEF MemoryBound, At
    <3>1. CASE w = server[c]
      <4>1. At(w, inMem') = kept
        BY <1>0, <2>1, <3>1 DEF At, Unexpired
      <4> QED
        BY <1>1, <4>1
    <3>2. CASE w # server[c]
      <4>1. At(w, inMem') = At(w, inMem)
        BY <1>0, <2>1, <3>2 DEF At, Unexpired
      <4> QED
        BY <4>1 DEF IInv, MemoryBound
    <3> QED
      BY <3>1, <3>2
  <2>7. OnlyFaultsLeaveEntries'
    BY <1>0, <2>1, <2>2
    DEF Leaves, IInv, TypeOK, OnlyFaultsLeaveEntries, HeldInRedis, Holding
  <2> QED
    BY <1>2, <2>3, <2>4, <2>5, <2>6, <2>7 DEF IInv
<1>5. CASE ~(Cardinality(kept) >= MaxConns)
  <2>1. /\ Goto(c, "granted")
        /\ inMem' = (inMem \ mine) \cup kept \cup {c}
        /\ memLeft' = [memLeft EXCEPT ![c] = Ttl]
        /\ memIds' = memIds \cup {c}
    BY <1>5 DEF AcquireMemory, Prune, Full
  <2>2. /\ pc' \in [Conns -> PCs]
        /\ \A d \in Conns : pc'[d] = IF d = c THEN "granted" ELSE pc[d]
        /\ memLeft' \in [Conns -> -1..Ttl]
        /\ \A d \in Conns : memLeft'[d] = IF d = c THEN Ttl ELSE memLeft[d]
    BY <1>0, <2>1, LimiterAssumption DEF Goto, IInv, TypeOK, PCs
  <2>3. TypeOK'
    BY <1>0, <2>1, <2>2 DEF Leaves, IInv, TypeOK
  <2>4. Leases'
    <3> SUFFICES ASSUME NEW d \in Conns, d \in Holding' PROVE Lease(d)'
      BY DEF Leases, Holding
    <3>1. CASE d = c
      BY <2>1, <2>2, <3>1, LimiterAssumption DEF Lease
    <3>2. CASE d # c
      <4>1. Lease(d)
        BY <2>2, <3>2 DEF Holding, IInv, Leases
      <4> QED
        BY <1>0, <1>3, <2>1, <2>2, <3>2, <4>1 DEF Lease
    <3> QED
      BY <3>1, <3>2
  <2>5. AskingIsFresh'
    BY <2>1, <2>2 DEF IInv, AskingIsFresh
  <2>6. MemoryBound'
    <3> SUFFICES ASSUME NEW w \in Workers
                 PROVE  /\ IsFiniteSet(At(w, inMem'))
                        /\ Cardinality(At(w, inMem')) <= MaxConns
      BY <1>0 DEF MemoryBound, At
    <3>1. CASE w = server[c]
      <4>1. At(w, inMem') = kept \cup {c}
        BY <1>0, <2>1, <3>1 DEF At, Unexpired
      <4> QED
        BY <1>1, <1>5, <4>1, LimiterAssumption
    <3>2. CASE w # server[c]
      <4>1. At(w, inMem') = At(w, inMem)
        BY <1>0, <2>1, <3>2 DEF At, Unexpired
      <4> QED
        BY <4>1 DEF IInv, MemoryBound
    <3> QED
      BY <3>1, <3>2
  <2>7. OnlyFaultsLeaveEntries'
    BY <1>0, <2>1, <2>2
    DEF Leaves, IInv, TypeOK, OnlyFaultsLeaveEntries, HeldInRedis, Holding
  <2> QED
    BY <1>2, <2>3, <2>4, <2>5, <2>6, <2>7 DEF IInv
<1> QED
  BY <1>4, <1>5

\* A connection that opens, ends or gives up moves no entry but its own.
LEMMA LifeKeeps ==
    ASSUME IInv, NEW c \in Conns,
           Accept(c) \/ AcceptFails(c) \/ ReleaseRedis(c) \/ ReleaseMemory(c)
    PROVE  IInv'
<1>1. /\ UNCHANGED <<server, redisLeft, memLeft>>
      /\ pc[c] \in {"granted", "open"}
      /\ pc' \in [Conns -> PCs]
      /\ \E label \in {"open", "ended"} :
            \A d \in Conns : pc'[d] = IF d = c THEN label ELSE pc[d]
  BY DEF Accept, AcceptFails, ReleaseRedis, ReleaseMemory, LuaRelease, Goto,
         redisVars, memVars, IInv, TypeOK, PCs
<1>2. CASE Accept(c) \/ AcceptFails(c)
  <2>1. UNCHANGED <<inRedis, keyLeft, inMem, memIds>>
    BY <1>2 DEF Accept, AcceptFails, redisVars, memVars
  <2> QED
    <3>1. TypeOK'
      BY <1>1, <1>2, <2>1 DEF Accept, AcceptFails, Leaves, IInv, TypeOK
    <3>2. Leases'
      BY <1>1, <2>1 DEF IInv, Leases, Lease, Holding
    <3>3. OnlyFaultsLeaveEntries'
      <4>1. CASE Accept(c)
        BY <1>1, <2>1, <4>1
        DEF Accept, Leaves, Goto, IInv, TypeOK, OnlyFaultsLeaveEntries, HeldInRedis, Holding
      <4>2. CASE AcceptFails(c)
        BY <1>1, <2>1, <4>2
        DEF AcceptFails, Leaves, IInv, TypeOK, OnlyFaultsLeaveEntries, HeldInRedis, Holding
      <4> QED
        BY <1>2, <4>1, <4>2
    <3> QED
      BY <1>1, <2>1, <3>1, <3>2, <3>3
      DEF IInv, HashOutlivesEntries, AskingIsFresh, RedisBound, MemoryBound, At
<1>3. CASE ReleaseRedis(c)
  <2>1. /\ UNCHANGED <<inMem, memIds>> /\ pc'[c] = "ended"
        /\ \/ /\ inRedis' = inRedis \ {c}
              /\ keyLeft' = IF inRedis' = {} THEN 0 ELSE keyLeft
              /\ Leaves({}, {})
           \/ UNCHANGED <<inRedis, keyLeft>> /\ Leaves({c}, {})
    BY <1>3 DEF ReleaseRedis, LuaRelease, redisVars, memVars, Goto, IInv, TypeOK
  <2>2. TypeOK' /\ HashOutlivesEntries' /\ AskingIsFresh'
    BY <1>1, <2>1, LimiterAssumption
    DEF Leaves, IInv, TypeOK, HashOutlivesEntries, AskingIsFresh
  <2>3. Leases'
    BY <1>1, <2>1 DEF IInv, Leases, Lease, Holding
  <2>4. RedisBound'
    <3>1. inRedis' \in SUBSET inRedis
      BY <2>1
    <3>2. IsFiniteSet(inRedis') /\ Cardinality(inRedis') <= Cardinality(inRedis)
      BY <3>1, FS_Subset DEF IInv, RedisBound
    <3> QED
      BY <3>2, FS_CardinalityType, LimiterAssumption DEF IInv, RedisBound
  <2>5. MemoryBound'
    BY <1>1, <2>1 DEF IInv, MemoryBound, At
  <2>6. OnlyFaultsLeaveEntries'
    <3>1. Holding \ {c} \subseteq Holding'
      BY <1>1 DEF Holding
    <3>2. OnlyFaultsLeaveEntries /\ leftRedis \subseteq Conns /\ leftMem \subseteq Conns
      BY DEF IInv, TypeOK
    <3>3. c \notin memIds
      BY <1>3 DEF ReleaseRedis
    <3> QED
      BY <2>1, <3>1, <3>2, <3>3 DEF Leaves, OnlyFaultsLeaveEntries, HeldInRedis
  <2> QED
    BY <2>2, <2>3, <2>4, <2>5, <2>6 DEF IInv
<1>4. CASE ReleaseMemory(c)
  <2>1. /\ UNCHANGED <<inRedis, keyLeft>> /\ pc'[c] = "ended"
        /\ Leaves({}, {})
        /\ inMem' = inMem \ {c}
        /\ UNCHANGED memIds \/ memIds' = memIds \ {c}
    BY <1>4 DEF ReleaseMemory, redisVars, Goto, At, IInv, TypeOK
  <2>2. TypeOK' /\ HashOutlivesEntries' /\ AskingIsFresh' /\ RedisBound'
    BY <1>1, <2>1
    DEF Leaves, IInv, TypeOK, HashOutlivesEntries, AskingIsFresh, RedisBound
  <2>3. Leases'
    BY <1>1, <2>1 DEF IInv, Leases, Lease, Holding
  <2>4. MemoryBound'
    <3> SUFFICES ASSUME NEW w \in Workers
                 PROVE  /\ IsFiniteSet(At(w, inMem'))
                        /\ Cardinality(At(w, inMem')) <= MaxConns
      BY <1>1 DEF MemoryBound, At
    <3>1. At(w, inMem') \in SUBSET At(w, inMem)
      BY <2>1 DEF At
    <3>2. IsFiniteSet(At(w, inMem)) /\ Cardinality(At(w, inMem)) <= MaxConns
      BY DEF IInv, MemoryBound
    <3> QED
      BY <3>1, <3>2, AdmitKeepsBound
  <2>5. OnlyFaultsLeaveEntries'
    <3>1. Holding \ {c} \subseteq Holding'
      BY <1>1 DEF Holding
    <3>2. OnlyFaultsLeaveEntries /\ c \in memIds
      BY <1>4 DEF IInv, ReleaseMemory
    <3> QED
      BY <2>1, <3>1, <3>2 DEF Leaves, OnlyFaultsLeaveEntries, HeldInRedis
  <2> QED
    BY <2>2, <2>3, <2>4, <2>5 DEF IInv
<1> QED
  BY <1>2, <1>3, <1>4

LEMMA TickKeeps ==
    ASSUME IInv, Tick
    PROVE  IInv'
<1>1. /\ UNCHANGED <<server, pc, inMem, memIds>>
      /\ redisLeft' \in [Conns -> -1..Ttl] /\ memLeft' \in [Conns -> -1..Ttl]
      /\ \A c \in Conns :
            /\ redisLeft[c] >= 0 => redisLeft'[c] = redisLeft[c] - 1
            /\ redisLeft[c] < 0 => redisLeft'[c] = redisLeft[c]
            /\ memLeft[c] >= 0 => memLeft'[c] = memLeft[c] - 1
      /\ keyLeft' = IF keyLeft = 0 THEN 0 ELSE keyLeft - 1
      /\ inRedis' = IF keyLeft' = 0 THEN {} ELSE inRedis
      /\ Leaves({}, {})
  BY LimiterAssumption DEF Tick, Elapse, IInv, TypeOK
<1>2. TypeOK'
  BY <1>1, LimiterAssumption DEF Leaves, IInv, TypeOK
<1>3. Leases'
  <2> SUFFICES ASSUME NEW c \in Conns, c \in Holding PROVE Lease(c)'
    BY <1>1 DEF Leases, Holding
  <2>1. Lease(c) /\ Age(c) < MaxAge
    BY DEF IInv, Leases, Tick
  <2>2. CASE c \in memIds
    BY <1>1, <2>1, <2>2, LimiterAssumption DEF Lease, Age, IInv, TypeOK
  <2>3. CASE c \notin memIds
    <3>1. c \in inRedis /\ redisLeft[c] > Ttl - MaxAge /\ keyLeft > redisLeft[c]
      BY <2>1, <2>3, LimiterAssumption
      DEF Lease, Age, IInv, TypeOK, HashOutlivesEntries
    <3> QED
      BY <1>1, <2>3, <3>1, LimiterAssumption DEF Lease, IInv, TypeOK
  <2> QED
    BY <2>2, <2>3
<1>4. HashOutlivesEntries'
  BY <1>1, LimiterAssumption DEF IInv, TypeOK, HashOutlivesEntries
<1>5. AskingIsFresh' /\ MemoryBound'
  BY <1>1 DEF IInv, AskingIsFresh, MemoryBound, At
<1>6. RedisBound'
  BY <1>1, FS_EmptySet, LimiterAssumption DEF IInv, RedisBound
<1>7. OnlyFaultsLeaveEntries'
  BY <1>1 DEF Leaves, IInv, TypeOK, OnlyFaultsLeaveEntries, HeldInRedis, Holding
<1> QED
  BY <1>2, <1>3, <1>4, <1>5, <1>6, <1>7 DEF IInv

LEMMA CrashWorkerKeeps ==
    ASSUME IInv, NEW w \in Workers, CrashWorker(w)
    PROVE  IInv'
<1>1. /\ UNCHANGED <<server, inRedis, redisLeft, keyLeft, memLeft>>
      /\ pc' \in [Conns -> PCs]
      /\ \A c \in Conns : pc'[c] # pc[c] => server[c] = w /\ pc'[c] = "ended"
      /\ \A c \in Conns : server[c] = w => pc'[c] \in {"new", "ended"}
      /\ inMem' = inMem \ At(w, Conns) /\ memIds' = memIds \ At(w, Conns)
      /\ Leaves(At(w, HeldInRedis), {})
  BY DEF CrashWorker, redisVars, IInv, TypeOK, PCs
<1>2. TypeOK' /\ HashOutlivesEntries' /\ AskingIsFresh' /\ RedisBound'
  BY <1>1 DEF Leaves, IInv, TypeOK, HashOutlivesEntries, AskingIsFresh, RedisBound
<1>3. Leases'
  BY <1>1 DEF IInv, Leases, Lease, Holding, At
<1>4. MemoryBound'
  <2> SUFFICES ASSUME NEW v \in Workers
               PROVE  /\ IsFiniteSet(At(v, inMem'))
                      /\ Cardinality(At(v, inMem')) <= MaxConns
    BY <1>1 DEF MemoryBound, At
  <2>1. At(v, inMem') \in SUBSET At(v, inMem)
    BY <1>1 DEF At
  <2>2. IsFiniteSet(At(v, inMem)) /\ Cardinality(At(v, inMem)) <= MaxConns
    BY DEF IInv, MemoryBound
  <2> QED
    BY <2>1, <2>2, AdmitKeepsBound
<1>5. OnlyFaultsLeaveEntries'
  BY <1>1
  DEF Leaves, At, IInv, TypeOK, OnlyFaultsLeaveEntries, HeldInRedis, Holding
<1> QED
  BY <1>2, <1>3, <1>4, <1>5 DEF IInv

LEMMA StepKeepsIInv == IInv /\ [Next]_vars => IInv'
<1> SUFFICES ASSUME IInv, [Next]_vars PROVE IInv'
  OBVIOUS
<1>1. CASE \E c \in Conns : Handle(c)
  BY <1>1, AcquireRedisKeeps, AcquireRedisFailsKeeps, AcquireMemoryKeeps, LifeKeeps
  DEF Handle
<1>2. CASE Tick
  BY <1>2, TickKeeps
<1>3. CASE \E w \in Workers : CrashWorker(w)
  BY <1>3, CrashWorkerKeeps
<1>4. CASE UNCHANGED vars
  BY <1>4 DEF vars, IInv, TypeOK, Leases, Lease, Holding, HashOutlivesEntries,
              AskingIsFresh, RedisBound, MemoryBound, At,
              OnlyFaultsLeaveEntries, HeldInRedis
<1> QED
  BY <1>1, <1>2, <1>3, <1>4 DEF Next

LEMMA Invariance == Spec => []IInv
<1> QED
  BY InitIInv, StepKeepsIInv, PTL DEF Spec

(***************************************************************************)
(* The theorems                                                            *)
(***************************************************************************)
\* The variables keep their types: no time left leaves its range, however acquire,
\* release, expiry and crashes interleave.
THEOREM TypeCorrect == Spec => []TypeOK
<1>1. IInv => TypeOK
  BY DEF IInv
<1> QED
  BY <1>1, Invariance, PTL

\* A connection that lives is counted by the store that granted it, for every
\* limit and TTL, as long as no connection outlives its entry's TTL.
THEOREM LiveCounted == Spec => []LiveIsCounted
<1>1. IInv => LiveIsCounted
  BY LimiterAssumption
  DEF IInv, TypeOK, Leases, Lease, LiveIsCounted, HeldInRedis, Holding, Unexpired
<1> QED
  BY <1>1, Invariance, PTL

\* No store ever admits more than MaxConns connections that are open at the same
\* time: Redis for all workers, its memory for each worker.
THEOREM StoresCapped == Spec => []StoreCap
<1>1. IInv => StoreCap
  <2> SUFFICES ASSUME IInv PROVE StoreCap
    OBVIOUS
  <2>1. Cardinality(HeldInRedis) <= MaxConns
    <3>1. HeldInRedis \in SUBSET inRedis
      BY DEF IInv, Leases, Lease, HeldInRedis
    <3>2. IsFiniteSet(inRedis) /\ Cardinality(inRedis) <= MaxConns
      BY DEF IInv, RedisBound
    <3> QED
      BY <3>1, <3>2, AdmitKeepsBound
  <2>2. ASSUME NEW w \in Workers
        PROVE  Cardinality(HeldInMemory(w)) <= MaxConns
    <3>1. HeldInMemory(w) \in SUBSET At(w, inMem)
      BY DEF IInv, Leases, Lease, HeldInMemory, At
    <3>2. IsFiniteSet(At(w, inMem)) /\ Cardinality(At(w, inMem)) <= MaxConns
      BY DEF IInv, MemoryBound
    <3> QED
      BY <3>1, <3>2, AdmitKeepsBound
  <2> QED
    BY <2>1, <2>2 DEF StoreCap
<1> QED
  BY <1>1, Invariance, PTL

\* Whatever fills a store, as far as it has not expired, stands against the
\* client: a connection that holds its slot, or an entry that a fault left.
LEMMA FullIsJustified ==
    ASSUME IInv
    PROVE  /\ Full(Unexpired(inRedis, redisLeft)) =>
                Cardinality(AgainstInRedis) >= MaxConns
           /\ \A w \in Workers : Full(Prune(w)) =>
                Cardinality(AgainstInMemory(w)) >= MaxConns
<1>1. ASSUME Full(Unexpired(inRedis, redisLeft))
      PROVE  Cardinality(AgainstInRedis) >= MaxConns
  <2>1. /\ Unexpired(inRedis, redisLeft) \subseteq AgainstInRedis
        /\ AgainstInRedis \subseteq inRedis
    BY DEF IInv, OnlyFaultsLeaveEntries, Leases, Lease, HeldInRedis,
           AgainstInRedis, Unexpired
  <2>2. IsFiniteSet(AgainstInRedis)
    BY <2>1, FS_Subset DEF IInv, RedisBound
  <2>3. Cardinality(Unexpired(inRedis, redisLeft)) <= Cardinality(AgainstInRedis)
    BY <2>1, <2>2, FS_Subset
  <2>4. /\ Cardinality(Unexpired(inRedis, redisLeft)) \in Nat
        /\ Cardinality(AgainstInRedis) \in Nat
    BY <2>1, <2>2, FS_Subset, FS_CardinalityType
  <2> QED
    BY <1>1, <2>3, <2>4, LimiterAssumption DEF Full
<1>2. ASSUME NEW w \in Workers, Full(Prune(w))
      PROVE  Cardinality(AgainstInMemory(w)) >= MaxConns
  <2>1. /\ Prune(w) \subseteq AgainstInMemory(w)
        /\ AgainstInMemory(w) \subseteq At(w, inMem)
    BY DEF IInv, OnlyFaultsLeaveEntries, Leases, Lease, HeldInMemory, At,
           AgainstInMemory, Prune, Unexpired
  <2>2. IsFiniteSet(AgainstInMemory(w))
    BY <2>1, FS_Subset DEF IInv, MemoryBound
  <2>3. Cardinality(Prune(w)) <= Cardinality(AgainstInMemory(w))
    BY <2>1, <2>2, FS_Subset
  <2>4. /\ Cardinality(Prune(w)) \in Nat
        /\ Cardinality(AgainstInMemory(w)) \in Nat
    BY <2>1, <2>2, FS_Subset, FS_CardinalityType
  <2> QED
    BY <1>2, <2>3, <2>4, LimiterAssumption DEF Full
<1> QED
  BY <1>1, <1>2

\* A client is turned away only when MaxConns of its connections hold a slot of
\* the store that was asked or left an unexpired entry there through a fault:
\* no connection that ended in good order is ever counted again.
THEOREM RejectionsJustified == Spec => RejectsOnlyWhenFull
<1> DEFINE
      Justified(c) ==
        /\ pc[c] = "new" /\ pc'[c] = "rejected" =>
              Cardinality(AgainstInRedis) >= MaxConns
        /\ pc[c] = "fallback" /\ pc'[c] = "rejected" =>
              Cardinality(AgainstInMemory(server[c])) >= MaxConns
<1>1. ASSUME IInv, [Next]_vars, NEW c \in Conns
      PROVE  Justified(c)
  <2>0. pc \in [Conns -> PCs] /\ server[c] \in Workers
    BY <1>1 DEF IInv, TypeOK
  <2>1. ASSUME NEW d \in Conns, AcquireRedis(d) PROVE Justified(c)
    <3>1. /\ pc[c] # "fallback" \/ pc'[c] # "rejected"
          /\ pc[c] = "new" /\ pc'[c] = "rejected" => Full(Unexpired(inRedis, redisLeft))
      BY <2>0, <2>1 DEF AcquireRedis, LuaAcquire, LuaRegister, Goto
    <3> QED
      BY <1>1, <3>1, FullIsJustified
  <2>2. ASSUME NEW d \in Conns, AcquireMemory(d) PROVE Justified(c)
    <3>1. /\ pc[c] # "new" \/ pc'[c] # "rejected"
          /\ pc[c] = "fallback" /\ pc'[c] = "rejected" => Full(Prune(server[c]))
      BY <2>0, <2>2 DEF AcquireMemory, Goto
    <3> QED
      BY <1>1, <2>0, <3>1, FullIsJustified
  <2>3. ASSUME NEW d \in Conns,
               \/ AcquireRedisFails(d) \/ Accept(d) \/ AcceptFails(d)
               \/ ReleaseRedis(d) \/ ReleaseMemory(d)
        PROVE  Justified(c)
    BY <2>0, <2>3
    DEF AcquireRedisFails, Accept, AcceptFails, ReleaseRedis, ReleaseMemory, Goto
  <2>4. CASE Tick
    BY <2>4 DEF Tick
  <2>5. ASSUME NEW w \in Workers, CrashWorker(w) PROVE Justified(c)
    BY <2>5 DEF CrashWorker
  <2>6. CASE UNCHANGED vars
    BY <2>6 DEF vars
  <2> QED
    BY <1>1, <2>1, <2>2, <2>3, <2>4, <2>5, <2>6 DEF Next, Handle
<1>2. IInv /\ [Next]_vars => \A c \in Conns : Justified(c)
  BY <1>1
<1>3. []IInv /\ [][Next]_vars => [][\A c \in Conns : Justified(c)]_vars
  BY <1>2, PTL
<1> QED
  BY <1>3, Invariance, PTL DEF Spec, RejectsOnlyWhenFull
=============================================================================
