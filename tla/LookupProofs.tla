----------------------------- MODULE LookupProofs -----------------------------
(***************************************************************************)
(* Proofs about the lookups on the way of a connection.  FakeDns hands out  *)
(* addresses for names and recovers the names from them, for every pool     *)
(* size, set of domains and set of clients.  The direct connector's permits *)
(* bound its native lookups, and a late answer reaches no task but the one  *)
(* that asked for it, with addresses of its host.  The rules' trie and      *)
(* patterns choose the route that the rules as given prescribe.             *)
(***************************************************************************)
EXTENDS FakeDns, Direct, Routing, FiniteSetTheorems, WellFoundedInduction, TLAPS

(***************************************************************************)
(* Every set of numbers that is not empty has a least one, and a greatest   *)
(* one if it is bounded: match_domain takes the first pattern that matches, *)
(* PrefixTrie::get the deepest action, and loops over lists start with the  *)
(* first entry.                                                             *)
(***************************************************************************)
LEMMA LeastNumber ==
    ASSUME NEW T \in SUBSET Nat, T # {}
    PROVE  \E x \in T : \A y \in T : x <= y
<1> DEFINE R == {ss \in Nat \X Nat : ss[1] < ss[2]}
<1>1. OpToRel(<, Nat) = R
  BY Zenon DEF OpToRel
<1>2. IsWellFoundedOn(R, Nat)
  BY <1>1, NatLessThanWellFounded, Zenon
<1>3. PICK x \in T : \A y \in T : ~(<<y, x>> \in R)
  BY <1>2, WFMin, Zenon
<1>4. \A a, b \in Nat : <<a, b>> \in R <=> a < b
  BY Zenon
<1> HIDE DEF R
<1>5. \A y \in T : ~(y < x) /\ y \in Nat
  BY <1>3, <1>4, Zenon
<1>6. x \in Nat
  BY Zenon
<1> QED BY <1>5, <1>6

(***************************************************************************)
(* The same from above.                                                     *)
(***************************************************************************)
LEMMA GreatestNumber ==
    ASSUME NEW N \in Nat, NEW T \in SUBSET (0..N), T # {}
    PROVE  \E x \in T : \A y \in T : y <= x
<1> DEFINE U == {N - x : x \in T}
<1>1. U \in SUBSET Nat /\ U # {}
  <2>1. PICK x \in T : TRUE
    BY Zenon
  <2>2. N - x \in U
    BY Zenon
  <2>3. \A y \in T : N - y \in Nat
    OBVIOUS
  <2> QED BY <2>2, <2>3, Zenon
<1>2. PICK u \in U : \A v \in U : u <= v
  <2> HIDE DEF U
  <2> QED BY <1>1, LeastNumber, Zenon
<1>3. PICK x \in T : u = N - x
  BY Zenon
<1>4. ASSUME NEW y \in T PROVE y <= x
  <2>1. x \in 0..N /\ y \in 0..N /\ N - y \in U
    BY Zenon
  <2> QED BY <1>2, <1>3, <2>1
<1> QED BY <1>4, Zenon

(***************************************************************************)
(* What holds at zero and is passed on by every step up to N holds up to N: *)
(* the induction for loops over a list.                                     *)
(***************************************************************************)
LEMMA UpTo ==
    ASSUME NEW N \in Nat, NEW S \in SUBSET (0..N), 0 \in S,
           \A n \in 1..N : n - 1 \in S => n \in S
    PROVE  S = 0..N
<1> SUFFICES ASSUME (0..N) \ S # {} PROVE FALSE
    BY Zenon
<1>1. (0..N) \ S \in SUBSET Nat
    OBVIOUS
<1>2. PICK x \in (0..N) \ S : \A y \in (0..N) \ S : x <= y
    BY <1>1, LeastNumber, Zenon
<1>3. x \in 1..N /\ x - 1 \in 0..N /\ ~(x <= x - 1)
    BY <1>2
<1> QED BY <1>2, <1>3, Zenon

-------------------------------------------------------------------------------
(***************************************************************************)
(* The next allocation index (fake_dns.rs:59) stays inside the pool.        *)
(***************************************************************************)
LEMMA AdvanceType ==
    ASSUME NEW n \in 0..(PoolSize - 1)
    PROVE  Advance(n) \in 0..(PoolSize - 1)
BY PoolAssumption DEF Advance

(***************************************************************************)
(* Every step of FakeDns keeps its variables in their types.                *)
(***************************************************************************)
THEOREM TypeCorrect == Spec => []TypeOK
<1>1. Init => TypeOK
  BY PoolAssumption DEF Init, TypeOK
<1>2. TypeOK /\ [Next]_vars => TypeOK'
  <2> SUFFICES ASSUME TypeOK, [Next]_vars PROVE TypeOK'
    BY Zenon
  <2>1. ASSUME NEW c \in Client, NEW d \in Domain, Allocate(c, d) PROVE TypeOK'
    <3>1. POOL_START + next_offset \in Pool
      BY PoolAssumption DEF TypeOK, Pool, POOL_END
    <3>2. next_offset' \in 0..(PoolSize - 1)
      BY <2>1, AdvanceType, Zenon DEF Allocate, TypeOK
    <3>3. /\ ip_to_domain' \in [Pool -> Domain \cup {None}]
          /\ domain_to_ip' \in [Domain -> Pool \cup {None}]
      BY <2>1, <3>1, Zenon DEF Allocate, TypeOK
    <3>4. ASSUME NEW a \in Answer PROVE OneMore(a) \in Answer
      BY PoolAssumption DEF OneMore, Answer
    <3>5. held' \in [Client -> Answer \cup {None}]
      BY <2>1, <3>1, <3>4, PoolAssumption DEF Allocate, Hold, TypeOK, Answer
    <3> QED BY <3>2, <3>3, <3>5, Zenon DEF TypeOK
  <2>2. ASSUME NEW c \in Client, NEW d \in Domain, Reuse(c, d) PROVE TypeOK'
    BY <2>2, PoolAssumption DEF Reuse, TypeOK, Answer
  <2>3. CASE UNCHANGED vars
    BY <2>3, Zenon DEF vars, TypeOK
  <2> QED BY <2>1, <2>2, <2>3, Zenon DEF Next, answer
<1> QED BY <1>1, <1>2, PTL DEF Spec
-------------------------------------------------------------------------------
(***************************************************************************)
(* Reuse leaves the maps alone; Allocate adds a pair after removing both    *)
(* directions of the one it displaces.                                      *)
(***************************************************************************)
LEMMA InverseStep == TypeOK /\ MapsAgree /\ [Next]_vars => MapsAgree'
<1> SUFFICES ASSUME TypeOK, MapsAgree, [Next]_vars PROVE MapsAgree'
  BY Zenon
<1>1. ASSUME NEW c \in Client, NEW d \in Domain, Allocate(c, d) PROVE MapsAgree'
  <2> DEFINE ip == POOL_START + next_offset
  <2>1. ip \in Pool
    BY PoolAssumption DEF TypeOK, Pool, POOL_END
  <2>2. ASSUME NEW x \in Domain, domain_to_ip'[x] # None
        PROVE  ip_to_domain'[domain_to_ip'[x]] = x
    BY <1>1, <2>1, <2>2, PoolAssumption, ZenonT(60) DEF Allocate, MapsAgree, TypeOK
  <2>3. ASSUME NEW y \in Pool, ip_to_domain'[y] # None
        PROVE  domain_to_ip'[ip_to_domain'[y]] = y
    <3>1. CASE y = ip
      BY <1>1, <2>1, <3>1, Zenon DEF Allocate, TypeOK
    <3>2. CASE y # ip
      <4>1. /\ ip_to_domain'[y] = ip_to_domain[y]
            /\ ip_to_domain[y] \in Domain
            /\ domain_to_ip[ip_to_domain[y]] = y
        BY <1>1, <2>1, <2>3, <3>2, Zenon DEF Allocate, MapsAgree, TypeOK
      <4>2. ip_to_domain[y] # d /\ ip_to_domain[y] # ip_to_domain[ip]
        BY <1>1, <2>1, <3>2, <4>1, PoolAssumption DEF Allocate, MapsAgree, TypeOK, Pool
      <4> QED BY <1>1, <4>1, <4>2, Zenon DEF Allocate
    <3> QED BY <3>1, <3>2, Zenon
  <2> QED BY <2>2, <2>3, Zenon DEF MapsAgree
<1>2. ASSUME NEW c \in Client, NEW d \in Domain, Reuse(c, d) PROVE MapsAgree'
  BY <1>2, Zenon DEF Reuse, MapsAgree
<1>3. CASE UNCHANGED vars
  BY <1>3, Zenon DEF vars, MapsAgree
<1> QED BY <1>1, <1>2, <1>3, Zenon DEF Next, answer

(***************************************************************************)
(* resolve's eviction (fake_dns.rs:61-67) keeps the two maps inverse.       *)
(***************************************************************************)
THEOREM MapsInverse == Spec => []MapsAgree
<1>1. Init => MapsAgree
  BY Zenon DEF Init, MapsAgree
<1> QED BY <1>1, InverseStep, TypeCorrect, PTL DEF Spec

(***************************************************************************)
(* A mapping goes only when next_offset reaches its slot.                   *)
(***************************************************************************)
THEOREM MappingsStable == Spec => StableUntilWrap
<1> DEFINE Step == \A d \in Domain :
          domain_to_ip[d] # None /\ domain_to_ip'[d] # domain_to_ip[d]
              => domain_to_ip[d] = POOL_START + next_offset /\ domain_to_ip'[d] = None
<1>1. TypeOK /\ MapsAgree /\ [Next]_vars => [Step]_vars
  <2> SUFFICES ASSUME TypeOK, MapsAgree, Next PROVE Step
    BY Zenon
  <2>1. ASSUME NEW c \in Client, NEW d \in Domain, Allocate(c, d) PROVE Step
    <3>1. POOL_START + next_offset \in Pool
      BY PoolAssumption DEF TypeOK, Pool, POOL_END
    <3> QED BY <2>1, <3>1, PoolAssumption, Zenon DEF Allocate, MapsAgree, TypeOK
  <2>2. ASSUME NEW c \in Client, NEW d \in Domain, Reuse(c, d) PROVE Step
    BY <2>2, Zenon DEF Reuse
  <2> QED BY <2>1, <2>2, Zenon DEF Next, answer
<1> QED BY <1>1, TypeCorrect, MapsInverse, PTL DEF Spec, StableUntilWrap
-------------------------------------------------------------------------------
(***************************************************************************)
(* The strengthening behind FreshAnswerRecovers: a fresh answer that is     *)
(* still covered sits in the map, and next_offset is exactly since + 1      *)
(* slots past it, around the ring.                                          *)
(***************************************************************************)
Past(offset, n) == offset + 1 + n

Ahead(n, offset, since) ==
    n = Past(offset, since) \/ n = Past(offset, since) - PoolSize

Distance ==
    \A c \in Client :
        held[c] # None /\ held[c].fresh /\ held[c].since < PoolSize
            => /\ ip_to_domain[held[c].ip] = held[c].domain
               /\ Ahead(next_offset, held[c].ip - POOL_START, held[c].since)

(***************************************************************************)
(* One allocation moves next_offset one slot on and cannot land on a slot   *)
(* it passed fewer than PoolSize allocations ago.                           *)
(***************************************************************************)
LEMMA AheadStep ==
    ASSUME NEW n \in 0..(PoolSize - 1), NEW o \in 0..(PoolSize - 1), NEW k \in Nat,
           k + 1 < PoolSize, Ahead(n, o, k)
    PROVE  n # o /\ Ahead(Advance(n), o, k + 1)
BY PoolAssumption DEF Ahead, Past, Advance

(***************************************************************************)
(* Every answer a client keeps stays as many slots behind next_offset as    *)
(* allocations have been made since.                                        *)
(***************************************************************************)
LEMMA DistanceStep == TypeOK /\ Distance /\ [Next]_vars => Distance'
<1> SUFFICES ASSUME TypeOK, Distance, [Next]_vars PROVE Distance'
  BY Zenon
<1> USE PoolAssumption
<1>1. ASSUME NEW c \in Client, NEW d \in Domain, Allocate(c, d) PROVE Distance'
  <2> DEFINE ip == POOL_START + next_offset
  <2>1. /\ ip \in Pool
        /\ next_offset' = Advance(next_offset)
        /\ ip_to_domain' = [ip_to_domain EXCEPT ![ip] = d]
    BY <1>1 DEF Allocate, TypeOK, Pool, POOL_END
  <2>2. SUFFICES ASSUME NEW x \in Client, held'[x] # None, held'[x].fresh,
                        held'[x].since < PoolSize
                 PROVE  /\ ip_to_domain'[held'[x].ip] = held'[x].domain
                        /\ Ahead(next_offset', held'[x].ip - POOL_START, held'[x].since)
    BY Zenon DEF Distance, Ahead, Past
  <2>3. CASE x = c
    <3>1. held'[x] = [domain |-> d, ip |-> ip, fresh |-> TRUE, since |-> 0]
      BY <1>1, <2>3, Zenon DEF Allocate, Hold
    <3>2. held'[x].ip = ip /\ held'[x].domain = d /\ held'[x].since = 0
      BY <3>1
    <3>3. Ahead(Advance(next_offset), next_offset, 0)
      BY DEF Ahead, Past, Advance, TypeOK
    <3>4. held'[x].ip - POOL_START = next_offset
      BY <3>2 DEF TypeOK
    <3> QED BY <2>1, <3>2, <3>3, <3>4, Zenon DEF TypeOK
  <2>4. CASE x # c
    <3>1. held[x] # None /\ held[x] \in Answer /\ held'[x] = OneMore(held[x])
      BY <1>1, <2>2, <2>4, Zenon DEF Allocate, Hold, TypeOK
    <3>2. /\ held[x].ip \in Pool /\ held[x].since \in 0..PoolSize
          /\ held'[x].ip = held[x].ip /\ held'[x].domain = held[x].domain
          /\ held'[x].fresh = held[x].fresh
          /\ held'[x].since = IF held[x].since < PoolSize THEN held[x].since + 1
                                                          ELSE held[x].since
      BY <3>1, Zenon DEF OneMore, Answer
    <3>3. held[x].since + 1 < PoolSize /\ held'[x].since = held[x].since + 1
      BY <2>2, <3>2, Zenon
    <3>4. /\ ip_to_domain[held[x].ip] = held[x].domain
          /\ Ahead(next_offset, held[x].ip - POOL_START, held[x].since)
      BY <2>2, <3>1, <3>2, <3>3, Zenon DEF Distance
    <3>5. held[x].ip - POOL_START \in 0..(PoolSize - 1) /\ held[x].since \in Nat
      BY <3>2 DEF Pool, POOL_END
    <3>6. /\ next_offset # held[x].ip - POOL_START
          /\ Ahead(Advance(next_offset), held[x].ip - POOL_START, held[x].since + 1)
      BY <3>3, <3>4, <3>5, AheadStep, Zenon DEF TypeOK
    <3>7. held[x].ip # ip
      BY <3>2, <3>6 DEF TypeOK, Pool
    <3>8. ip_to_domain'[held[x].ip] = held[x].domain
      BY <2>1, <3>2, <3>4, <3>7, Zenon DEF TypeOK
    <3> QED BY <2>1, <3>2, <3>3, <3>6, <3>8, Zenon
  <2> QED BY <2>3, <2>4, Zenon
<1>2. ASSUME NEW c \in Client, NEW d \in Domain, Reuse(c, d) PROVE Distance'
  BY <1>2, Zenon DEF Reuse, Distance, TypeOK
<1>3. CASE UNCHANGED vars
  BY <1>3, Zenon DEF vars, Distance
<1> QED BY <1>1, <1>2, <1>3, Zenon DEF Next, answer

(***************************************************************************)
(* An allocated address leads back to its domain until PoolSize further     *)
(* allocations, for every pool and any number of clients.                   *)
(***************************************************************************)
THEOREM FreshAnswersRecover == Spec => []FreshAnswerRecovers
<1>1. Init => Distance
  BY Zenon DEF Init, Distance
<1>2. TypeOK /\ Distance => FreshAnswerRecovers
  BY PoolAssumption
  DEF TypeOK, Distance, FreshAnswerRecovers, target, is_fake_ip, lookup, Answer, Pool
<1> QED BY <1>1, <1>2, DistanceStep, TypeCorrect, PTL DEF Spec
-------------------------------------------------------------------------------
Starting == {t \in Task : step[t] = "acquired"}
Threads  == {w \in Worker : Busy(w)}

DirectTypeOK ==
    /\ permits \in Nat
    /\ worker \in [Worker -> {"idle", "native", "sent"}]
    /\ receiver \in [Worker -> Task \cup {Nobody}]
    /\ step \in [Task -> {"idle", "acquired", "lookup", "connect", "ok", "error"}]
    /\ DOMAIN query = Worker /\ DOMAIN host = Task

(***************************************************************************)
(* The oneshot channels of run_lookup: a sender that reaches a task belongs *)
(* to a thread in its native call, the task awaits it and asked for its     *)
(* host, and no task awaits two threads.                                    *)
(***************************************************************************)
AnswersOwnTask ==
    /\ \A w \in Worker : receiver[w] # Nobody =>
          /\ worker[w] = "native" /\ step[receiver[w]] = "lookup"
          /\ query[w] = host[receiver[w]]
    /\ \A v, w \in Worker : receiver[v] = receiver[w] /\ receiver[v] # Nobody => v = w

DirectIInv == DirectTypeOK /\ AnswersOwnTask /\ LookupsBounded

(***************************************************************************)
(* A set that gains, loses or keeps a member: how acquired permits and      *)
(* threads are counted.                                                     *)
(***************************************************************************)
LEMMA Counting ==
    ASSUME NEW S, IsFiniteSet(S), NEW A \in SUBSET S
    PROVE  /\ IsFiniteSet(A) /\ Cardinality(A) \in Nat
           /\ \A x \in S \ A : Cardinality(A \cup {x}) = Cardinality(A) + 1
           /\ \A x \in A : Cardinality(A \ {x}) = Cardinality(A) - 1
<1>1. IsFiniteSet(A)
      BY FS_Subset, Zenon
<1>2. Cardinality(A) \in Nat
      BY <1>1, FS_CardinalityType, Zenon
<1>3. ASSUME NEW x \in S \ A PROVE Cardinality(A \cup {x}) = Cardinality(A) + 1
      BY <1>1, FS_AddElement, Zenon
<1>4. ASSUME NEW x \in A PROVE Cardinality(A \ {x}) = Cardinality(A) - 1
      BY <1>1, FS_RemoveElement, Zenon
<1> QED BY <1>1, <1>2, <1>3, <1>4, Zenon

(***************************************************************************)
(* DirectConnector::new starts with all permits and no thread.              *)
(***************************************************************************)
LEMMA DirectStart == DirectInit => DirectIInv
<1> SUFFICES ASSUME DirectInit PROVE DirectIInv
    BY Zenon
<1>1. Starting = {} /\ Threads = {}
      BY Zenon DEF DirectInit, Starting, Threads, Busy
<1>2. Cardinality({}) = 0
      BY FS_EmptySet, Zenon
<1>3. LookupsBounded
  <2>1. permits + Cardinality(Starting) + Cardinality(Threads) = MaxLookups
        BY <1>1, <1>2, DirectAssumption DEF DirectInit
  <2> QED BY <2>1, Zenon DEF LookupsBounded, Starting, Threads
<1>4. DirectTypeOK /\ AnswersOwnTask
      BY DirectAssumption, Zenon DEF DirectInit, DirectTypeOK, AnswersOwnTask
<1> QED BY <1>3, <1>4, Zenon DEF DirectIInv

(***************************************************************************)
(* Each step of a task, a timer or a thread preserves the typing and the    *)
(* channels.                                                                *)
(***************************************************************************)
LEMMA ChannelsStep == ASSUME DirectIInv, [DirectNext]_directVars
                      PROVE  (DirectTypeOK /\ AnswersOwnTask)'
<1> USE DirectAssumption DEF DirectIInv, DirectTypeOK, AnswersOwnTask, Go
<1>1. ASSUME NEW t \in Task, NEW h \in Host, Acquire(t, h)
      PROVE  (DirectTypeOK /\ AnswersOwnTask)'
      BY <1>1 DEF Acquire
<1>2. ASSUME NEW t \in Task, NEW w \in Worker, Spawn(t, w)
      PROVE  (DirectTypeOK /\ AnswersOwnTask)'
      BY <1>2 DEF Spawn
<1>3. ASSUME NEW t \in Task, SpawnFails(t)
      PROVE  (DirectTypeOK /\ AnswersOwnTask)'
      BY <1>3 DEF SpawnFails
<1>4. ASSUME NEW t \in Task, LookupTimeout(t)
      PROVE  (DirectTypeOK /\ AnswersOwnTask)'
      BY <1>4 DEF LookupTimeout, Abandon
<1>5. ASSUME NEW t \in Task, Attempt(t) \/ ConnectTimeout(t)
      PROVE  (DirectTypeOK /\ AnswersOwnTask)'
  <2>1. /\ step[t] = "connect" /\ UNCHANGED <<permits, worker, receiver, query, host>>
        /\ \E next \in {"ok", "connect", "error"} : step' = [step EXCEPT ![t] = next]
        BY <1>5, Zenon DEF Attempt, ConnectTimeout, lookups
  <2> QED BY <2>1
<1>6. ASSUME NEW t \in Task, Over(t)
      PROVE  (DirectTypeOK /\ AnswersOwnTask)'
      BY <1>6 DEF Over, Reset, Abandon
<1>7. ASSUME NEW w \in Worker, NativeEnds(w)
      PROVE  (DirectTypeOK /\ AnswersOwnTask)'
  <2>1. CASE receiver[w] = Nobody
        BY <1>7, <2>1 DEF NativeEnds
  <2>2. CASE receiver[w] # Nobody
    <3>1. /\ worker' = [worker EXCEPT ![w] = "sent"]
          /\ receiver' = [receiver EXCEPT ![w] = Nobody]
          /\ step' = [step EXCEPT ![receiver[w]] = "connect"]
          /\ UNCHANGED <<permits, query, host>>
          BY <1>7, <2>2, Zenon DEF NativeEnds
    <3> QED BY <2>2, <3>1
  <2> QED BY <2>1, <2>2, Zenon
<1>8. ASSUME NEW w \in Worker, WorkerStops(w) \/ Release(w)
      PROVE  (DirectTypeOK /\ AnswersOwnTask)'
      BY <1>8 DEF WorkerStops, Release
<1>9. CASE UNCHANGED directVars
      BY <1>9, Zenon DEF directVars, lookups
<1> HIDE DEF DirectIInv, DirectTypeOK, AnswersOwnTask, Go
<1> QED BY <1>1, <1>2, <1>3, <1>4, <1>5, <1>6, <1>7, <1>8, <1>9, Zenon DEF DirectNext

(***************************************************************************)
(* Each step moves a permit between the semaphore, a task and a thread, or  *)
(* leaves it where it is.                                                   *)
(***************************************************************************)
LEMMA PermitsStep == ASSUME DirectIInv, [DirectNext]_directVars PROVE LookupsBounded'
<1> DEFINE count == permits + Cardinality(Starting) + Cardinality(Threads)
<1>1. /\ Starting \in SUBSET Task /\ Threads \in SUBSET Worker
      /\ IsFiniteSet(Task) /\ IsFiniteSet(Worker)
      BY DirectAssumption, Zenon DEF Starting, Threads
<1>2. /\ Cardinality(Starting) \in Nat /\ Cardinality(Threads) \in Nat
      /\ permits \in Nat /\ MaxLookups \in Nat /\ count = MaxLookups
      BY <1>1, Counting, DirectAssumption, Zenon DEF DirectIInv, DirectTypeOK, LookupsBounded, Starting, Threads
<1> SUFFICES count' = MaxLookups
    BY Zenon DEF LookupsBounded, Starting, Threads
<1> USE DEF DirectIInv, DirectTypeOK, AnswersOwnTask, Go, Busy
<1>3. ASSUME NEW t \in Task, NEW h \in Host, Acquire(t, h) PROVE count' = MaxLookups
  <2>1. Threads' = Threads
        BY <1>3, Zenon DEF Acquire, Threads
  <2>2. CASE permits = 0
    <3>1. Starting' = Starting /\ permits' = permits
          BY <1>3, <2>2 DEF Acquire, Starting
    <3> QED BY <1>2, <2>1, <3>1, Zenon
  <2>3. CASE permits > 0
    <3>1. t \in Task \ Starting /\ Starting' = Starting \cup {t} /\ permits' = permits - 1
          BY <1>3, <2>3 DEF Acquire, Starting
    <3>2. Cardinality(Starting') = Cardinality(Starting) + 1
          BY <1>1, <3>1, Counting
    <3> QED BY <1>2, <2>1, <3>1, <3>2
  <2> QED BY <1>2, <2>2, <2>3
<1>4. ASSUME NEW t \in Task, NEW w \in Worker, Spawn(t, w) PROVE count' = MaxLookups
  <2>1. /\ t \in Starting /\ Starting' = Starting \ {t} /\ permits' = permits
        /\ w \in Worker \ Threads /\ Threads' = Threads \cup {w}
        BY <1>4 DEF Spawn, Starting, Threads
  <2>2. /\ Cardinality(Starting') = Cardinality(Starting) - 1
        /\ Cardinality(Threads') = Cardinality(Threads) + 1
        BY <1>1, <2>1, Counting
  <2> QED BY <1>2, <2>1, <2>2
<1>5. ASSUME NEW t \in Task, SpawnFails(t) PROVE count' = MaxLookups
  <2>1. /\ t \in Starting /\ Starting' = Starting \ {t} /\ permits' = permits + 1
        /\ Threads' = Threads
        BY <1>5, Zenon DEF SpawnFails, Starting, Threads
  <2>2. Cardinality(Starting') = Cardinality(Starting) - 1
        BY <1>1, <2>1, Counting, ZenonT(60)
  <2> QED BY <1>2, <2>1, <2>2
<1>6. ASSUME NEW t \in Task, LookupTimeout(t) \/ Attempt(t) \/ ConnectTimeout(t) \/ Over(t)
      PROVE  count' = MaxLookups
  <2>1. /\ step[t] # "acquired" /\ UNCHANGED <<permits, worker>>
        /\ \E next \in {"idle", "ok", "connect", "error"} : step' = [step EXCEPT ![t] = next]
        BY <1>6, ZenonT(60) DEF LookupTimeout, Attempt, ConnectTimeout, Over, Reset, lookups
  <2>2. Starting' = Starting /\ Threads' = Threads
        BY <2>1 DEF Starting, Threads
  <2> QED BY <1>2, <2>1, <2>2, Zenon
<1>7. ASSUME NEW w \in Worker, NativeEnds(w) \/ WorkerStops(w) PROVE count' = MaxLookups
  <2>1. /\ worker[w] = "native" /\ worker' = [worker EXCEPT ![w] = "sent"] /\ permits' = permits
        /\ \/ step' = step
           \/ /\ receiver[w] # Nobody
              /\ \E next \in {"connect", "error"} : step' = [step EXCEPT ![receiver[w]] = next]
        BY <1>7, Zenon DEF NativeEnds, WorkerStops
  <2>2. Starting' = Starting /\ Threads' = Threads
        BY <2>1 DEF Starting, Threads
  <2> QED BY <1>2, <2>1, <2>2, Zenon
<1>8. ASSUME NEW w \in Worker, Release(w) PROVE count' = MaxLookups
  <2>1. /\ w \in Threads /\ Threads' = Threads \ {w} /\ permits' = permits + 1
        /\ Starting' = Starting
        BY <1>8, Zenon DEF Release, Starting, Threads
  <2>2. Cardinality(Threads') = Cardinality(Threads) - 1
        BY <1>1, <2>1, Counting, ZenonT(60)
  <2> QED BY <1>2, <2>1, <2>2
<1>9. CASE UNCHANGED directVars
  <2>1. Starting' = Starting /\ Threads' = Threads /\ permits' = permits
        BY <1>9, Zenon DEF directVars, lookups, Starting, Threads
  <2> QED BY <1>2, <2>1, Zenon
<1> HIDE DEF count, DirectIInv, DirectTypeOK, AnswersOwnTask, Go, Busy
<1> QED BY <1>3, <1>4, <1>5, <1>6, <1>7, <1>8, <1>9, Zenon DEF DirectNext

(***************************************************************************)
(* The strengthened invariant of permits, threads and channels.             *)
(***************************************************************************)
THEOREM DirectInvariant == DirectSpec => []DirectIInv
<1>1. DirectIInv /\ [DirectNext]_directVars => DirectIInv'
      BY ChannelsStep, PermitsStep, Zenon DEF DirectIInv
<1> QED BY DirectStart, <1>1, PTL DEF DirectSpec

(***************************************************************************)
(* For any number of tasks, threads and permits, timeouts, aborts and       *)
(* failed spawns neither exceed nor lose a permit (direct.rs:72-74).        *)
(***************************************************************************)
THEOREM PermitsBoundLookups == DirectSpec => []LookupsBounded
BY DirectInvariant, PTL DEF DirectIInv

(***************************************************************************)
(* The result of a native lookup is delivered only to the task that started *)
(* it and still awaits it, and is about that task's host (run_lookup).      *)
(***************************************************************************)
THEOREM LateAnswersDropped == DirectSpec => []AnswersOwnTask
BY DirectInvariant, PTL DEF DirectIInv

(***************************************************************************)
(* The loop of resolve_ipv4 (direct.rs:108-122) pushes one entry after the  *)
(* other.                                                                   *)
(***************************************************************************)
LEMMA CollectedStep ==
    ASSUME NEW A, NEW list \in Seq(A)
    PROVE  /\ Collected(list)[0] = <<>>
           /\ \A n \in 1..Len(list) : Collected(list)[n] = Push(Collected(list)[n - 1], list[n])
<1> DEFINE Loop(f, k) == f = [n \in 0..k |-> IF n = 0 THEN <<>> ELSE Push(f[n - 1], list[n])]
           S == {k \in 0..Len(list) : \E f : Loop(f, k)}
<1>1. 0 \in S
  <2>1. Loop([n \in 0..0 |-> <<>>], 0)
        OBVIOUS
  <2>2. 0 \in 0..Len(list)
        OBVIOUS
  <2> HIDE DEF Loop
  <2> QED BY <2>1, <2>2, Zenon
<1>2. ASSUME NEW k \in 1..Len(list), k - 1 \in S PROVE k \in S
  <2>1. PICK g : Loop(g, k - 1)
        BY <1>2, Zenon
  <2> DEFINE f == [n \in 0..k |-> IF n = k THEN Push(g[k - 1], list[k]) ELSE g[n]]
  <2>2. ASSUME NEW n \in 0..k
        PROVE  f[n] = IF n = 0 THEN <<>> ELSE Push(f[n - 1], list[n])
    <3>1. CASE n = k
          BY <3>1
    <3>2. CASE n # k
          BY <2>1, <3>2
    <3> QED BY <3>1, <3>2, Zenon
  <2>3. f = [n \in 0..k |-> f[n]]
        BY Zenon
  <2>4. Loop(f, k)
    <3> HIDE DEF f
    <3> QED BY <2>2, <2>3, Zenon
  <2> HIDE DEF Loop, f
  <2> QED BY <2>4
<1>3. Len(list) \in Nat /\ Len(list) \in 0..Len(list) /\ S \in SUBSET (0..Len(list))
    OBVIOUS
<1>4. Len(list) \in S
  <2> HIDE DEF S
  <2> QED BY <1>1, <1>2, <1>3, UpTo, Zenon
<1>5. \E f : Loop(f, Len(list))
    BY <1>4, Zenon
<1>6. Loop(Collected(list), Len(list))
    BY <1>5, Zenon DEF Collected
<1> QED BY <1>3, <1>6

(***************************************************************************)
(* contains (direct.rs:117) keeps the addresses distinct.                   *)
(***************************************************************************)
LEMMA PushKeeps ==
    ASSUME NEW A, NEW s \in Seq(A), IsInjective(s), NEW a \in A
    PROVE  Push(s, a) \in Seq(A) /\ IsInjective(Push(s, a))
BY DEF Push, Range, IsInjective

(***************************************************************************)
(* resolve_ipv4 returns addresses of the host, none of them twice.          *)
(***************************************************************************)
LEMMA UniqueAddresses ==
    ASSUME NEW h, NEW list \in Lists(h)
    PROVE  /\ Unique(list) \in Seq(Address) /\ IsInjective(Unique(list))
           /\ \A i \in DOMAIN Unique(list) : HostOf[Unique(list)[i]] = h
<1> DEFINE A == {a \in Address : HostOf[a] = h}
           S == {n \in 0..Len(list) : /\ Collected(list)[n] \in Seq(A)
                                      /\ IsInjective(Collected(list)[n])}
<1>1. list \in Seq(A)
    BY DEF Lists
<1>2. Len(list) \in Nat /\ \A n \in 1..Len(list) : list[n] \in A
  <2> HIDE DEF A
  <2> QED BY <1>1
<1>3. /\ Collected(list)[0] = <<>>
      /\ \A n \in 1..Len(list) : Collected(list)[n] = Push(Collected(list)[n - 1], list[n])
  <2> HIDE DEF A
  <2> QED BY <1>1, CollectedStep, Zenon
<1>4. 0 \in S
  <2>1. <<>> \in Seq(A) /\ IsInjective(<<>>)
      BY DEF IsInjective
  <2>2. 0 \in 0..Len(list)
      BY <1>2
  <2> HIDE DEF A
  <2> QED BY <1>3, <2>1, <2>2, Zenon
<1>5. ASSUME NEW n \in 1..Len(list), n - 1 \in S PROVE n \in S
  <2> HIDE DEF A
  <2>1. Collected(list)[n - 1] \in Seq(A) /\ IsInjective(Collected(list)[n - 1]) /\ list[n] \in A
      BY <1>2, <1>5, Zenon
  <2>2. /\ Push(Collected(list)[n - 1], list[n]) \in Seq(A)
        /\ IsInjective(Push(Collected(list)[n - 1], list[n]))
      BY <2>1, PushKeeps, Zenon
  <2> QED BY <1>2, <1>3, <2>2
<1>6. Len(list) \in S
  <2>1. S \in SUBSET (0..Len(list))
      BY Zenon
  <2> HIDE DEF S
  <2> QED BY <1>2, <1>4, <1>5, <2>1, UpTo
<1> QED BY <1>6 DEF Unique

(***************************************************************************)
(* What TriesOwnHost needs to be inductive: the addresses are sequences,    *)
(* and a task has none before its lookup has answered.                      *)
(***************************************************************************)
AddressesIInv ==
    /\ tried \in [Task -> Seq(Address)] /\ untried \in [Task -> Seq(Address)]
    /\ \A t \in Task : step[t] \in {"idle", "acquired", "lookup"} =>
                          tried[t] = <<>> /\ untried[t] = <<>>
    /\ TriesOwnHost

(***************************************************************************)
(* TriesOwnHost about one task's addresses.                                 *)
(***************************************************************************)
Own(done, rest, h) ==
    IsInjective(done \o rest) /\ \A i \in DOMAIN (done \o rest) : HostOf[(done \o rest)[i]] = h

(***************************************************************************)
(* The next address moves from the ones to try to the ones tried            *)
(* (direct.rs, the loop of connect_with_lookup): the two together stay.     *)
(***************************************************************************)
LEMMA NextAddress ==
    ASSUME NEW done \in Seq(Address), NEW rest \in Seq(Address), rest # <<>>
    PROVE  /\ Append(done, Head(rest)) \in Seq(Address) /\ Tail(rest) \in Seq(Address)
           /\ Append(done, Head(rest)) \o Tail(rest) = done \o rest
<1>1. Append(done, Head(rest)) \in Seq(Address) /\ Tail(rest) \in Seq(Address)
    OBVIOUS
<1>2. Len(Append(done, Head(rest)) \o Tail(rest)) = Len(done \o rest)
    OBVIOUS
<1>3. ASSUME NEW i \in 1..Len(done \o rest)
      PROVE  (Append(done, Head(rest)) \o Tail(rest))[i] = (done \o rest)[i]
    OBVIOUS
<1>4. /\ Append(done, Head(rest)) \o Tail(rest) \in Seq(Address) /\ done \o rest \in Seq(Address)
    OBVIOUS
<1> QED BY <1>1, <1>2, <1>3, <1>4

(***************************************************************************)
(* A step changes the addresses of at most one task, which keep Own.        *)
(***************************************************************************)
LEMMA OneTask ==
    ASSUME AddressesIInv, NEW t \in Task,
           tried' \in [Task -> Seq(Address)], untried' \in [Task -> Seq(Address)],
           \A u \in Task \ {t} : /\ step'[u] = step[u] /\ host'[u] = host[u]
                                 /\ tried'[u] = tried[u] /\ untried'[u] = untried[u],
           step'[t] \in {"idle", "acquired", "lookup"} => tried'[t] = <<>> /\ untried'[t] = <<>>,
           Own(tried'[t], untried'[t], host'[t])
    PROVE  AddressesIInv'
<1>1. \A u \in Task : Own(tried[u], untried[u], host[u])
    BY Zenon DEF AddressesIInv, TriesOwnHost, Own
<1>2. \A u \in Task : Own(tried'[u], untried'[u], host'[u])
    BY <1>1, Zenon
<1>3. TriesOwnHost'
    BY <1>2, Zenon DEF TriesOwnHost, Own
<1>4. \A u \in Task : step'[u] \in {"idle", "acquired", "lookup"} =>
                          tried'[u] = <<>> /\ untried'[u] = <<>>
    BY Zenon DEF AddressesIInv
<1> QED BY <1>3, <1>4, Zenon DEF AddressesIInv

(***************************************************************************)
(* A step that leaves the addresses alone, and at most fails tasks.         *)
(***************************************************************************)
LEMMA AddressesKept ==
    ASSUME AddressesIInv, UNCHANGED <<host, untried, tried>>,
           \A u \in Task : step'[u] = step[u] \/ step'[u] = "error"
    PROVE  AddressesIInv'
<1>1. \A u \in Task : Own(tried[u], untried[u], host[u])
    BY Zenon DEF AddressesIInv, TriesOwnHost, Own
<1>2. \A u \in Task : Own(tried'[u], untried'[u], host'[u])
    BY <1>1, Zenon
<1>3. TriesOwnHost'
    BY <1>2, Zenon DEF TriesOwnHost, Own
<1>4. ASSUME NEW u \in Task, step'[u] \in {"idle", "acquired", "lookup"}
      PROVE  tried'[u] = <<>> /\ untried'[u] = <<>>
  <2>1. step'[u] = step[u]
        BY <1>4, Zenon
  <2> QED BY <1>4, <2>1, Zenon DEF AddressesIInv
<1> QED BY <1>3, <1>4, Zenon DEF AddressesIInv

(***************************************************************************)
(* No address has been tried, and none is to be tried, by a fresh task.     *)
(***************************************************************************)
LEMMA NoAddress == ASSUME NEW h PROVE Own(<<>>, <<>>, h)
<1>1. <<>> \o <<>> = <<>> /\ DOMAIN <<>> = {}
    OBVIOUS
<1> QED BY <1>1, Zenon DEF Own, IsInjective

(***************************************************************************)
(* Each step of a task, a timer or a thread: an answer reaches a task that  *)
(* has no address yet and asked for the host it is about.                   *)
(***************************************************************************)
LEMMA AddressesStep ==
    ASSUME DirectTypeOK, AnswersOwnTask, AddressesIInv, [DirectNext]_directVars
    PROVE  AddressesIInv'
<1> DEFINE Typed == tried' \in [Task -> Seq(Address)] /\ untried' \in [Task -> Seq(Address)]
           Others(t) == \A u \in Task \ {t} : /\ step'[u] = step[u] /\ host'[u] = host[u]
                                             /\ tried'[u] = tried[u] /\ untried'[u] = untried[u]
<1>1. ASSUME NEW t \in Task, NEW h \in Host, Acquire(t, h) PROVE AddressesIInv'
  <2>1. /\ Others(t) /\ Typed /\ tried'[t] = <<>> /\ untried'[t] = <<>>
        BY <1>1, Zenon DEF Acquire, Go, DirectTypeOK, AddressesIInv
  <2> QED BY <2>1, OneTask, NoAddress, ZenonT(60)
<1>2. ASSUME NEW t \in Task, \E w \in Worker : Spawn(t, w) PROVE AddressesIInv'
  <2>1. /\ Others(t) /\ Typed /\ tried'[t] = <<>> /\ untried'[t] = <<>>
        BY <1>2, ZenonT(60) DEF Spawn, Go, DirectTypeOK, AddressesIInv
  <2> QED BY <2>1, OneTask, NoAddress, ZenonT(60)
<1>3. ASSUME NEW t \in Task, SpawnFails(t) \/ LookupTimeout(t) PROVE AddressesIInv'
  <2>1. /\ Others(t) /\ Typed /\ tried'[t] = <<>> /\ untried'[t] = <<>>
        BY <1>3, Zenon DEF SpawnFails, LookupTimeout, Go, DirectTypeOK, AddressesIInv
  <2> QED BY <2>1, OneTask, NoAddress, Zenon
<1>4. ASSUME NEW t \in Task, Over(t) PROVE AddressesIInv'
  <2>1. /\ Others(t) /\ Typed /\ tried'[t] = <<>> /\ untried'[t] = <<>>
        BY <1>4 DEF Over, Reset, Go, DirectTypeOK, AddressesIInv
  <2> QED BY <2>1, OneTask, NoAddress, Zenon
<1>5. ASSUME NEW t \in Task, Attempt(t) \/ ConnectTimeout(t) PROVE AddressesIInv'
  <2>1. /\ Own(tried[t], untried[t], host[t])
        /\ tried[t] \in Seq(Address) /\ untried[t] \in Seq(Address)
        BY Zenon DEF AddressesIInv, TriesOwnHost, Own
  <2>2. /\ Others(t) /\ host' = host /\ DOMAIN tried' = Task /\ DOMAIN untried' = Task
        /\ step'[t] \in {"ok", "connect", "error"}
        BY <1>5, ZenonT(60) DEF Attempt, ConnectTimeout, Go, DirectTypeOK, AddressesIInv
  <2>3. \/ tried' = tried /\ untried' = untried
        \/ /\ untried[t] # <<>>
           /\ tried' = [tried EXCEPT ![t] = Append(tried[t], Head(untried[t]))]
           /\ untried' = [untried EXCEPT ![t] = Tail(untried[t])]
        BY <1>5, Zenon DEF Attempt, ConnectTimeout
  <2>4. CASE tried' = tried /\ untried' = untried
    <3>1. Typed /\ Own(tried'[t], untried'[t], host'[t])
          BY <2>1, <2>2, <2>4, Zenon DEF AddressesIInv
    <3> QED BY <2>2, <3>1, OneTask, Zenon
  <2>5. CASE /\ untried[t] # <<>>
             /\ tried' = [tried EXCEPT ![t] = Append(tried[t], Head(untried[t]))]
             /\ untried' = [untried EXCEPT ![t] = Tail(untried[t])]
    <3>1. /\ Append(tried[t], Head(untried[t])) \in Seq(Address) /\ Tail(untried[t]) \in Seq(Address)
          /\ Append(tried[t], Head(untried[t])) \o Tail(untried[t]) = tried[t] \o untried[t]
          BY <2>1, <2>5, NextAddress, Zenon
    <3>2. Typed /\ tried'[t] \o untried'[t] = tried[t] \o untried[t]
          BY <2>5, <3>1, Zenon DEF AddressesIInv
    <3>3. Own(tried'[t], untried'[t], host'[t])
          BY <2>1, <2>2, <3>2, Zenon DEF Own
    <3> QED BY <2>2, <3>2, <3>3, OneTask, Zenon
  <2> QED BY <2>3, <2>4, <2>5, Zenon
<1>6. ASSUME NEW w \in Worker, WorkerStops(w) \/ Release(w) PROVE AddressesIInv'
  <2>1. /\ UNCHANGED <<host, untried, tried>>
        /\ \A u \in Task : step'[u] = step[u] \/ step'[u] = "error"
        BY <1>6, Zenon DEF WorkerStops, Release, DirectTypeOK
  <2> QED BY <2>1, AddressesKept, Zenon
<1>7. ASSUME NEW w \in Worker, NativeEnds(w) PROVE AddressesIInv'
  <2>1. CASE receiver[w] = Nobody
    <3>1. UNCHANGED <<step, host, untried, tried>>
          BY <1>7, <2>1, Zenon DEF NativeEnds
    <3> QED BY <3>1, AddressesKept, Zenon
  <2>2. CASE receiver[w] # Nobody
    <3> DEFINE t == receiver[w]
    <3>1. t \in Task /\ step[t] = "lookup" /\ query[w] = host[t]
          BY <2>2 DEF AnswersOwnTask, DirectTypeOK
    <3>2. PICK list \in Lists(host[t]) :
             /\ untried' = [untried EXCEPT ![t] = Unique(list)]
             /\ step' = [step EXCEPT ![t] = "connect"]
             /\ tried' = tried /\ host' = host
          BY <1>7, <2>2, <3>1, Zenon DEF NativeEnds, Go
    <3>3. /\ Unique(list) \in Seq(Address) /\ IsInjective(Unique(list))
          /\ \A i \in DOMAIN Unique(list) : HostOf[Unique(list)[i]] = host[t]
          BY UniqueAddresses, Zenon
    <3> HIDE DEF t
    <3>4. /\ Others(t) /\ Typed /\ tried'[t] = <<>> /\ untried'[t] = Unique(list)
          /\ step'[t] = "connect" /\ host'[t] = host[t]
          BY <3>1, <3>2, <3>3, Zenon DEF DirectTypeOK, AddressesIInv
    <3>5. <<>> \o Unique(list) = Unique(list)
          BY <3>3
    <3>6. Own(tried'[t], untried'[t], host'[t])
          BY <3>3, <3>4, <3>5 DEF Own
    <3> QED BY <3>1, <3>4, <3>6, OneTask, Zenon
  <2> QED BY <2>1, <2>2, Zenon
<1>8. CASE UNCHANGED directVars
      BY <1>8 DEF directVars, AddressesIInv, TriesOwnHost
<1> QED BY <1>1, <1>2, <1>3, <1>4, <1>5, <1>6, <1>7, <1>8, Zenon DEF DirectNext

(***************************************************************************)
(* For every host, address and result of getaddrinfo, of any length: a task *)
(* tries only addresses of the host it connects to, none of them twice,     *)
(* whatever lookups time out, are aborted or answer late.                   *)
(***************************************************************************)
THEOREM AlwaysOwnHost == DirectSpec => []TriesOwnHost
<1>1. DirectInit => AddressesIInv
  <2> SUFFICES ASSUME DirectInit PROVE AddressesIInv
      BY Zenon
  <2>1. \A t \in Task : tried[t] = <<>> /\ untried[t] = <<>>
      BY Zenon DEF DirectInit
  <2>2. \A t \in Task : Own(tried[t], untried[t], host[t])
      BY <2>1, NoAddress, Zenon
  <2>3. TriesOwnHost
      BY <2>2, Zenon DEF TriesOwnHost, Own
  <2>4. tried \in [Task -> Seq(Address)] /\ untried \in [Task -> Seq(Address)]
      BY DEF DirectInit
  <2> QED BY <2>1, <2>3, <2>4, Zenon DEF AddressesIInv
<1>2. AddressesIInv => TriesOwnHost
      BY Zenon DEF AddressesIInv
<1>3. DirectIInv => DirectTypeOK /\ AnswersOwnTask
      BY Zenon DEF DirectIInv
<1> QED BY <1>1, <1>2, <1>3, DirectInvariant, AddressesStep, PTL DEF DirectSpec
-------------------------------------------------------------------------------
(***************************************************************************)
(* The path to a node tells its depth, and its parts the nodes above it.    *)
(***************************************************************************)
LEMMA Paths ==
    ASSUME NEW a \in Ipv4, NEW n \in 0..W
    PROVE  /\ Prefix(a, n) \in Path /\ DOMAIN Prefix(a, n) = 1..n
           /\ \A b \in Ipv4, m \in 0..W : Prefix(a, n) = Prefix(b, m) =>
                 n = m /\ \A k \in 1..n : Prefix(a, k) = Prefix(b, k)
<1>1. W \in Nat
  BY RoutingAssumption, Zenon
<1>2. Prefix(a, n) \in [1..n -> Bit] /\ DOMAIN Prefix(a, n) = 1..n
  BY <1>1 DEF Prefix, Ipv4
<1>3. Prefix(a, n) \in Path
  BY <1>2, Zenon DEF Path
<1>4. ASSUME NEW b \in Ipv4, NEW m \in 0..W, Prefix(a, n) = Prefix(b, m)
      PROVE  n = m /\ \A k \in 1..n : Prefix(a, k) = Prefix(b, k)
  <2>1. 1..n = 1..m
    BY <1>4, Zenon DEF Prefix
  <2>2. n = m
    BY <1>1, <2>1
  <2>3. \A i \in 1..n : a[i] = b[i]
    BY <1>4, <2>2, Zenon DEF Prefix
  <2>4. ASSUME NEW k \in 1..n PROVE Prefix(a, k) = Prefix(b, k)
    BY <1>1, <2>3 DEF Prefix
  <2> QED BY <2>2, <2>4, Zenon
<1> QED BY <1>2, <1>3, <1>4, Zenon

(***************************************************************************)
(* A rule is one for addresses or one for domains, told by its fields.      *)
(***************************************************************************)
LEMMA Kinds ==
    ASSUME given \in Seq(IpRule \cup DomainRule), NEW i \in DOMAIN given
    PROVE  /\ IsIp(i) => given[i] \in IpRule
           /\ ~IsIp(i) => given[i] \in DomainRule
           /\ given[i].route \in Route
<1>1. given[i] \in IpRule \/ given[i] \in DomainRule
  OBVIOUS
<1>2. CASE given[i] \in IpRule
  <2>1. "network" \in DOMAIN given[i]
    BY <1>2, Zenon DEF IpRule
  <2> QED BY <1>2, <2>1, Zenon DEF IsIp, IpRule
<1>3. CASE given[i] \in DomainRule
  <2>1. "network" \notin DOMAIN given[i]
    BY <1>3, Zenon DEF DomainRule
  <2> QED BY <1>3, <2>1, Zenon DEF IsIp, DomainRule
<1> QED BY <1>1, <1>2, <1>3, Zenon

(***************************************************************************)
(* Taking in one more rule (rule.rs, from_specs) leaves those before it as  *)
(* they were.                                                               *)
(***************************************************************************)
LEMMA OneMoreRule ==
    ASSUME given \in Seq(IpRule \cup DomainRule), NEW r \in IpRule \cup DomainRule,
           given' = Append(given, r)
    PROVE  /\ Len(given) \in Nat /\ DOMAIN given = 1..Len(given)
           /\ DOMAIN given' = 1..(Len(given) + 1)
           /\ given' \in Seq(IpRule \cup DomainRule)
           /\ given'[Len(given) + 1] = r
           /\ \A i \in DOMAIN given : /\ given'[i] = given[i] /\ IsIp(i)' = IsIp(i)
                                      /\ \A p : EndsAt(i, p)' = EndsAt(i, p)
<1>1. /\ Len(given) \in Nat /\ DOMAIN given = 1..Len(given)
      /\ DOMAIN given' = 1..(Len(given) + 1)
      /\ given' \in Seq(IpRule \cup DomainRule)
      /\ given'[Len(given) + 1] = r
      /\ \A i \in DOMAIN given : given'[i] = given[i]
  OBVIOUS
<1>2. ASSUME NEW i \in DOMAIN given PROVE IsIp(i)' = IsIp(i) /\ \A p : EndsAt(i, p)' = EndsAt(i, p)
  BY <1>1, Zenon DEF IsIp, EndsAt
<1> QED BY <1>1, <1>2, Zenon

(***************************************************************************)
(* Before the first rule the trie has a root without action.                *)
(***************************************************************************)
LEMMA RulesStart == ASSUME RulesInit PROVE RulesIInv
<1>1. given = <<>> /\ domain_actions = <<>> /\ DOMAIN given = {} /\ DOMAIN domain_actions = {}
  BY DEF RulesInit
<1>2. \A p \in Path : action[p] = NoAction
  BY Zenon DEF RulesInit
<1>3. action \in [Path -> Route \cup {NoAction}]
  BY Zenon DEF RulesInit
<1>4. \E e \in [DOMAIN domain_actions -> DOMAIN given] : Places(e)
  <2> DEFINE e == [k \in {} |-> 0]
  <2>1. e \in [DOMAIN domain_actions -> DOMAIN given]
    BY <1>1, Zenon
  <2>2. Places(e)
    BY <1>1, Zenon DEF Places
  <2> QED BY <2>1, <2>2, Zenon
<1>5. given \in Seq(IpRule \cup DomainRule) /\ domain_actions \in Seq(DomainRule)
  BY <1>1
<1> QED BY <1>1, <1>2, <1>3, <1>4, <1>5, Zenon
           DEF RulesIInv, RulesTyped, IpRulesKept, ActionsGiven, DomainsGiven

(***************************************************************************)
(* insert (rule.rs, PrefixTrie) gives the end of the new prefix its action  *)
(* unless an earlier rule that ends there has done so.                      *)
(***************************************************************************)
LEMMA AddIpStep == ASSUME RulesIInv, AddIp PROVE RulesIInv'
<1>1. PICK r \in IpRule : given' = Append(given, r) /\ insert(r)
  BY Zenon DEF AddIp
<1> DEFINE end == Prefix(r.network, r.prefix)
<1>2. PICK last : last = Len(given) + 1
  BY Zenon
<1>3. /\ r.network \in Ipv4 /\ r.prefix \in 0..W /\ r.route \in Route /\ r.route # NoAction
      /\ DOMAIN r = {"network", "prefix", "route"}
  BY RoutingAssumption, Zenon DEF IpRule
<1>4. end \in Path
  BY <1>3, Paths, Zenon
<1>5. /\ Len(given) \in Nat /\ DOMAIN given = 1..Len(given) /\ DOMAIN given' = 1..last
      /\ given' \in Seq(IpRule \cup DomainRule) /\ given'[last] = r
      /\ \A i \in DOMAIN given : /\ given'[i] = given[i] /\ IsIp(i)' = IsIp(i)
                                 /\ \A p : EndsAt(i, p)' = EndsAt(i, p)
  BY <1>1, <1>2, OneMoreRule, Zenon DEF RulesIInv, RulesTyped
<1>6. IsIp(last)' /\ EndsAt(last, end)'
  BY <1>3, <1>5, Zenon DEF IsIp, EndsAt
<1>7. /\ children \subseteq children' /\ domain_actions' = domain_actions
      /\ \A n \in 1..r.prefix : Prefix(r.network, n) \in children'
  BY <1>1, Zenon DEF insert, AddIp
<1>8. /\ action' \in [Path -> Route \cup {NoAction}]
      /\ \A p \in Path : action[p] # NoAction => action'[p] = action[p]
      /\ \A p \in Path \ {end} : action'[p] = action[p]
      /\ action[end] = NoAction => action'[end] = r.route
  BY <1>1, <1>3, <1>4, Zenon DEF insert, RulesIInv, RulesTyped
<1> HIDE DEF end
<1>9. ASSUME NEW i \in DOMAIN given', IsIp(i)'
      PROVE  /\ \A n \in 1..given'[i].prefix : Prefix(given'[i].network, n) \in children'
             /\ action'[Prefix(given'[i].network, given'[i].prefix)] # NoAction
  <2>1. CASE i \in DOMAIN given
    <3>1. /\ IsIp(i) /\ given'[i] = given[i]
          /\ \A n \in 1..given[i].prefix : Prefix(given[i].network, n) \in children
          /\ action[Prefix(given[i].network, given[i].prefix)] # NoAction
      BY <1>5, <1>9, <2>1, Zenon DEF RulesIInv, IpRulesKept
    <3>2. given[i].network \in Ipv4 /\ given[i].prefix \in 0..W
      BY <2>1, <3>1, Kinds, Zenon DEF RulesIInv, RulesTyped, IpRule
    <3>3. Prefix(given[i].network, given[i].prefix) \in Path
      BY <3>2, Paths, Zenon
    <3> QED BY <1>7, <1>8, <3>1, <3>3, Zenon
  <2>2. CASE i = last
    <3>1. action'[end] # NoAction
      BY <1>3, <1>4, <1>8, Zenon
    <3> QED BY <1>5, <1>7, <2>2, <3>1, Zenon DEF end
  <2>3. i \in DOMAIN given \/ i = last
    BY <1>5, <1>2
  <2> QED BY <2>1, <2>2, <2>3, Zenon
<1>10. ASSUME NEW p \in Path, action'[p] # NoAction
      PROVE  \E i \in DOMAIN given' : /\ EndsAt(i, p)' /\ action'[p] = given'[i].route
                                      /\ \A j \in 1..(i - 1) : ~EndsAt(j, p)'
  <2>1. CASE action[p] # NoAction
    <3>1. PICK i \in DOMAIN given : /\ EndsAt(i, p) /\ action[p] = given[i].route
                                    /\ \A j \in 1..(i - 1) : ~EndsAt(j, p)
      BY <2>1, Zenon DEF RulesIInv, ActionsGiven
    <3>2. i \in DOMAIN given' /\ \A j \in 1..(i - 1) : j \in DOMAIN given
      BY <1>5, <1>2
    <3> QED BY <1>5, <1>8, <2>1, <3>1, <3>2, ZenonT(60)
  <2>2. CASE action[p] = NoAction
    <3>1. p = end /\ action'[p] = r.route
      BY <1>8, <1>10, <2>2, Zenon
    <3>2. ASSUME NEW j \in DOMAIN given PROVE ~EndsAt(j, p)
      BY <2>2, Zenon DEF EndsAt, RulesIInv, IpRulesKept
    <3>3. last \in DOMAIN given' /\ 1..(last - 1) = DOMAIN given
      BY <1>5, <1>2
    <3>4. \A j \in 1..(last - 1) : ~EndsAt(j, p)'
      BY <1>5, <3>2, <3>3, Zenon
    <3> QED BY <1>5, <1>6, <3>1, <3>3, <3>4, Zenon
  <2> QED BY <2>1, <2>2, Zenon
<1>11. \E e \in [DOMAIN domain_actions' -> DOMAIN given'] : Places(e)'
  <2>1. PICK e \in [DOMAIN domain_actions -> DOMAIN given] : Places(e)
    BY Zenon DEF RulesIInv, DomainsGiven
  <2>2. DOMAIN given \subseteq DOMAIN given'
    BY <1>5, <1>2
  <2>3. e \in [DOMAIN domain_actions' -> DOMAIN given']
    BY <1>7, <2>2, Zenon
  <2>4. \A k \in DOMAIN domain_actions : e[k] \in DOMAIN given
    BY Zenon
  <2>5. /\ \A k \in DOMAIN domain_actions' : ~IsIp(e[k])' /\ given'[e[k]] = domain_actions'[k]
        /\ \A k, l \in DOMAIN domain_actions' : k < l => e[k] < e[l]
    BY <1>5, <1>7, <2>1, <2>4, Zenon DEF Places
  <2>6. ASSUME NEW i \in DOMAIN given'
        PROVE  IsIp(i)' \/ \E k \in DOMAIN domain_actions' : e[k] = i
    <3>1. i \in DOMAIN given \/ i = last
      BY <1>5, <1>2
    <3> QED BY <1>5, <1>6, <1>7, <2>1, <3>1, Zenon DEF Places
  <2>7. Places(e)'
    BY <2>5, <2>6, Zenon DEF Places
  <2> QED BY <2>3, <2>7, Zenon
<1> QED BY <1>5, <1>7, <1>8, <1>9, <1>10, <1>11, ZenonT(60)
           DEF RulesIInv, RulesTyped, IpRulesKept, ActionsGiven, DomainsGiven

(***************************************************************************)
(* A domain rule takes the next place among the domain actions.             *)
(***************************************************************************)
LEMMA AddDomainStep == ASSUME RulesIInv, AddDomain PROVE RulesIInv'
<1>1. PICK r \in DomainRule : /\ given' = Append(given, r)
                              /\ domain_actions' = Append(domain_actions, r)
  BY Zenon DEF AddDomain
<1>2. PICK last : last = Len(given) + 1
  BY Zenon
<1>3. PICK new : new = Len(domain_actions) + 1
  BY Zenon
<1>4. /\ Len(given) \in Nat /\ DOMAIN given = 1..Len(given) /\ DOMAIN given' = 1..last
      /\ given' \in Seq(IpRule \cup DomainRule) /\ given'[last] = r
      /\ \A i \in DOMAIN given : /\ given'[i] = given[i] /\ IsIp(i)' = IsIp(i)
                                 /\ \A p : EndsAt(i, p)' = EndsAt(i, p)
  BY <1>1, <1>2, OneMoreRule, Zenon DEF RulesIInv, RulesTyped
<1>5. /\ Len(domain_actions) \in Nat /\ DOMAIN domain_actions = 1..Len(domain_actions)
      /\ domain_actions' \in Seq(DomainRule) /\ DOMAIN domain_actions' = 1..new
      /\ domain_actions'[new] = r
      /\ \A k \in DOMAIN domain_actions : domain_actions'[k] = domain_actions[k]
  BY <1>1, <1>3 DEF RulesIInv, RulesTyped
<1>6. children' = children /\ action' = action
  BY Zenon DEF AddDomain
<1>7. ~IsIp(last)'
  BY <1>4 DEF IsIp, DomainRule
<1>8. /\ \A i \in DOMAIN given' : i \in DOMAIN given \/ i = last
      /\ DOMAIN given \subseteq DOMAIN given' /\ last \in DOMAIN given'
      /\ \A i \in DOMAIN given : i < last /\ \A j \in 1..(i - 1) : j \in DOMAIN given
  BY <1>2, <1>4
<1>9. ASSUME NEW i \in DOMAIN given', IsIp(i)'
      PROVE  /\ \A n \in 1..given'[i].prefix : Prefix(given'[i].network, n) \in children'
             /\ action'[Prefix(given'[i].network, given'[i].prefix)] # NoAction
  <2>1. i \in DOMAIN given /\ IsIp(i) /\ given'[i] = given[i]
    BY <1>4, <1>7, <1>8, <1>9, Zenon
  <2> QED BY <1>6, <2>1, Zenon DEF RulesIInv, IpRulesKept
<1>10. ASSUME NEW p \in Path, action'[p] # NoAction
       PROVE  \E i \in DOMAIN given' : /\ EndsAt(i, p)' /\ action'[p] = given'[i].route
                                       /\ \A j \in 1..(i - 1) : ~EndsAt(j, p)'
  <2>1. PICK i \in DOMAIN given : /\ EndsAt(i, p) /\ action[p] = given[i].route
                                  /\ \A j \in 1..(i - 1) : ~EndsAt(j, p)
    BY <1>6, <1>10, Zenon DEF RulesIInv, ActionsGiven
  <2> QED BY <1>4, <1>6, <1>8, <2>1, Zenon
<1>11. \E e \in [DOMAIN domain_actions' -> DOMAIN given'] : Places(e)'
  <2>1. PICK e \in [DOMAIN domain_actions -> DOMAIN given] : Places(e)
    BY Zenon DEF RulesIInv, DomainsGiven
  <2>2. PICK f : f = [k \in 1..new |-> IF k = new THEN last ELSE e[k]]
    BY Zenon
  <2>3. /\ \A k \in DOMAIN domain_actions' : k \in DOMAIN domain_actions \/ k = new
        /\ \A k \in DOMAIN domain_actions : /\ k \in 1..new /\ k < new
                                            /\ f[k] = e[k] /\ e[k] \in DOMAIN given
        /\ new \in DOMAIN domain_actions' /\ f[new] = last
        /\ f = [k \in DOMAIN domain_actions' |-> f[k]]
    BY <1>3, <1>5, <2>2
  <2>4. f \in [DOMAIN domain_actions' -> DOMAIN given']
    BY <1>8, <2>3, Zenon
  <2>5. ASSUME NEW k \in DOMAIN domain_actions'
        PROVE  ~IsIp(f[k])' /\ given'[f[k]] = domain_actions'[k]
    <3>1. CASE k = new
      BY <1>4, <1>5, <1>7, <2>3, <3>1, Zenon
    <3>2. CASE k \in DOMAIN domain_actions
      <4>1. /\ f[k] \in DOMAIN given /\ ~IsIp(f[k])
            /\ given[f[k]] = domain_actions[k]
        BY <2>1, <2>3, <3>2, Zenon DEF Places
      <4>2. given'[f[k]] = given[f[k]]
        BY <1>4, <4>1, Zenon
      <4> QED BY <1>5, <3>2, <4>1, <4>2, Zenon DEF IsIp
    <3> QED BY <2>3, <3>1, <3>2, Zenon
  <2>6. ASSUME NEW k \in DOMAIN domain_actions', NEW l \in DOMAIN domain_actions', k < l
        PROVE  f[k] < f[l]
    <3>1. k \in DOMAIN domain_actions
      BY <1>3, <1>5, <2>6
    <3>2. CASE l = new
      BY <1>8, <2>3, <3>1, <3>2, Zenon
    <3>3. CASE l \in DOMAIN domain_actions
      BY <2>1, <2>3, <2>6, <3>1, <3>3, Zenon DEF Places
    <3> QED BY <2>3, <3>2, <3>3, Zenon
  <2>7. ASSUME NEW i \in DOMAIN given', ~IsIp(i)'
        PROVE  \E k \in DOMAIN domain_actions' : f[k] = i
    <3>1. CASE i = last
      BY <2>3, <3>1, Zenon
    <3>2. CASE i \in DOMAIN given
      <4>1. PICK k \in DOMAIN domain_actions : e[k] = i
        BY <1>4, <2>1, <2>7, <3>2, Zenon DEF Places
      <4> QED BY <1>5, <2>3, <4>1, Zenon
    <3> QED BY <1>8, <3>1, <3>2, Zenon
  <2>8. Places(f)'
    BY <2>5, <2>6, <2>7, Zenon DEF Places
  <2> QED BY <2>4, <2>8, Zenon
<1> QED BY <1>4, <1>5, <1>6, <1>9, <1>10, <1>11, Zenon
           DEF RulesIInv, RulesTyped, IpRulesKept, ActionsGiven, DomainsGiven

(***************************************************************************)
(* The trie and the list of patterns always hold what the rules say.        *)
(***************************************************************************)
LEMMA RulesInvariant == RulesSpec => []RulesIInv
<1>1. ASSUME RulesIInv, UNCHANGED ruleVars PROVE RulesIInv'
  <2>1. /\ given' = given /\ children' = children
        /\ action' = action /\ domain_actions' = domain_actions
    BY <1>1, Zenon DEF ruleVars
  <2>2. /\ \A i : IsIp(i)' = IsIp(i)
        /\ \A i, p : EndsAt(i, p)' = EndsAt(i, p)
    BY <2>1, Zenon DEF IsIp, EndsAt
  <2>3. \A e : Places(e)' = Places(e)
    BY <2>1, Zenon DEF IsIp, Places
  <2> QED BY <1>1, <2>1, <2>2, <2>3, Zenon
             DEF RulesIInv, RulesTyped, IpRulesKept, ActionsGiven, DomainsGiven
<1>2. RulesIInv /\ [RulesNext]_ruleVars => RulesIInv'
  BY <1>1, AddIpStep, AddDomainStep, Zenon DEF RulesNext
<1> QED BY <1>2, RulesStart, PTL DEF RulesSpec

(***************************************************************************)
(* A walk down the trie (rule.rs, PrefixTrie::get) meets an action at depth *)
(* n exactly where a rule of n bits covers the address, and it is that of   *)
(* the first such rule.                                                     *)
(***************************************************************************)
LEMMA WalkMeetsRules ==
    ASSUME RulesIInv, NEW a \in Ipv4
    PROVE  /\ Met(a) \in SUBSET (0..W)
           /\ \A i \in DOMAIN given : Covers(i, a) => given[i].prefix \in Met(a)
           /\ \A n \in Met(a) : \E i \in DOMAIN given :
                 /\ Covers(i, a) /\ given[i].prefix = n
                 /\ action[Prefix(a, n)] = given[i].route
                 /\ \A j \in DOMAIN given : Covers(j, a) /\ given[j].prefix = n => i <= j
<1>1. Met(a) \in SUBSET (0..W)
  BY Zenon DEF Met, Reached
<1>2. ASSUME NEW i \in DOMAIN given, IsIp(i)
      PROVE  given[i].network \in Ipv4 /\ given[i].prefix \in 0..W
  BY <1>2, Kinds, Zenon DEF RulesIInv, RulesTyped, IpRule
<1>3. ASSUME NEW i \in DOMAIN given, Covers(i, a)
      PROVE  given[i].prefix \in Met(a)
  <2> DEFINE b == given[i].network
             n == given[i].prefix
  <2>1. IsIp(i) /\ Prefix(b, n) = Prefix(a, n)
    BY <1>3, Zenon DEF Covers
  <2>2. b \in Ipv4 /\ n \in 0..W
    BY <1>2, <2>1, Zenon
  <2>3. /\ \A k \in 1..n : Prefix(b, k) \in children
        /\ action[Prefix(b, n)] # NoAction
    BY <2>1, Zenon DEF RulesIInv, IpRulesKept
  <2> HIDE DEF b, n
  <2>4. \A k \in 1..n : Prefix(b, k) = Prefix(a, k)
    BY <2>1, <2>2, Paths
  <2>5. n \in Met(a)
    BY <2>1, <2>2, <2>3, <2>4, Zenon DEF Met, Reached
  <2> QED BY <2>5, Zenon DEF n
<1>4. ASSUME NEW n \in Met(a)
      PROVE  \E i \in DOMAIN given :
                /\ Covers(i, a) /\ given[i].prefix = n
                /\ action[Prefix(a, n)] = given[i].route
                /\ \A j \in DOMAIN given : Covers(j, a) /\ given[j].prefix = n => i <= j
  <2>1. n \in 0..W /\ action[Prefix(a, n)] # NoAction /\ Prefix(a, n) \in Path
    BY <1>1, Paths, Zenon DEF Met
  <2>2. PICK i \in DOMAIN given : /\ EndsAt(i, Prefix(a, n))
                                  /\ action[Prefix(a, n)] = given[i].route
                                  /\ \A j \in 1..(i - 1) : ~EndsAt(j, Prefix(a, n))
    BY <2>1, Zenon DEF RulesIInv, ActionsGiven
  <2>3. given[i].prefix = n
    <3>1. IsIp(i) /\ Prefix(given[i].network, given[i].prefix) = Prefix(a, n)
      BY <2>2, Zenon DEF EndsAt
    <3> QED BY <1>2, <2>1, <3>1, Paths
  <2>4. Covers(i, a)
    BY <2>2, <2>3, Zenon DEF Covers, EndsAt
  <2>5. ASSUME NEW j \in DOMAIN given, Covers(j, a), given[j].prefix = n
        PROVE  i <= j
    <3>1. EndsAt(j, Prefix(a, n))
      BY <2>5, Zenon DEF Covers, EndsAt
    <3>2. i \in Nat /\ j \in Nat /\ 1 <= j
      BY DEF RulesIInv, RulesTyped
    <3> QED BY <2>2, <3>1, <3>2
  <2> QED BY <2>2, <2>3, <2>4, <2>5, Zenon
<1> QED BY <1>1, <1>3, <1>4, Zenon

(***************************************************************************)
(* The patterns that match a domain (rule.rs, match_domain) are the domain  *)
(* rules that mention it, and come in the order of the rules.               *)
(***************************************************************************)
LEMMA HitsAreRules ==
    ASSUME RulesIInv, NEW h \in Hostname
    PROVE  \E e \in [DOMAIN domain_actions -> DOMAIN given] :
              /\ \A k \in Hits(h) : Mentions(e[k], h) /\ given[e[k]] = domain_actions[k]
              /\ \A k, l \in Hits(h) : k <= l => e[k] <= e[l]
              /\ \A i \in DOMAIN given : Mentions(i, h) => \E k \in Hits(h) : e[k] = i
<1>1. PICK e \in [DOMAIN domain_actions -> DOMAIN given] : Places(e)
  BY Zenon DEF RulesIInv, DomainsGiven
<1>2. ASSUME NEW k \in Hits(h) PROVE Mentions(e[k], h) /\ given[e[k]] = domain_actions[k]
  BY <1>1, Zenon DEF Places, Hits, Mentions
<1>3. ASSUME NEW k \in Hits(h), NEW l \in Hits(h), k <= l PROVE e[k] <= e[l]
  <2>1. k \in DOMAIN domain_actions /\ l \in DOMAIN domain_actions
    BY Zenon DEF Hits
  <2>2. k \in Nat /\ l \in Nat /\ e[k] \in Nat /\ e[l] \in Nat
    BY <2>1 DEF RulesIInv, RulesTyped
  <2>3. k < l => e[k] < e[l]
    BY <1>1, <2>1, Zenon DEF Places
  <2> QED BY <1>3, <2>2, <2>3
<1>4. ASSUME NEW i \in DOMAIN given, Mentions(i, h) PROVE \E k \in Hits(h) : e[k] = i
  BY <1>1, <1>4, Zenon DEF Places, Hits, Mentions
<1> QED BY <1>2, <1>3, <1>4, Zenon

(***************************************************************************)
(* The trie and the patterns give the answers that the rules prescribe.     *)
(***************************************************************************)
LEMMA RulesPrescribe == ASSUME RulesIInv PROVE RoutesAsWritten
<1>1. ASSUME NEW i \in DOMAIN given PROVE given[i].route \in Route /\ given[i].route # NoAction
  BY Kinds, RoutingAssumption, Zenon DEF RulesIInv, RulesTyped
<1>2. ASSUME NEW x \in Route, NEW a \in Ipv4
      PROVE  \/ \E i \in DOMAIN given : Chosen(i, a) /\ proxy_for_ip(a, x) = given[i].route
             \/ /\ \A i \in DOMAIN given : ~Covers(i, a)
                /\ proxy_for_ip(a, x) = IF a \in LocalAddress THEN Direct ELSE x
  <2>1. CASE Met(a) = {}
    BY <2>1, WalkMeetsRules, Zenon DEF proxy_for_ip, match_ip, get
  <2>2. CASE Met(a) # {}
    <3> DEFINE n == CHOOSE n \in Met(a) : \A m \in Met(a) : m <= n
    <3>1. n \in Met(a) /\ \A m \in Met(a) : m <= n
      <4>1. Met(a) \in SUBSET (0..W) /\ W \in Nat
        BY WalkMeetsRules, RoutingAssumption, Zenon
      <4>2. \E m \in Met(a) : \A k \in Met(a) : k <= m
        BY <2>2, <4>1, GreatestNumber, Zenon
      <4> QED BY <4>2, Zenon
    <3>2. get(a) = action[Prefix(a, n)]
      BY <2>2, Zenon DEF get
    <3> HIDE DEF n
    <3>3. PICK i \in DOMAIN given :
             /\ Covers(i, a) /\ given[i].prefix = n
             /\ action[Prefix(a, n)] = given[i].route
             /\ \A j \in DOMAIN given : Covers(j, a) /\ given[j].prefix = n => i <= j
      BY <3>1, WalkMeetsRules, Zenon
    <3>4. ASSUME NEW j \in DOMAIN given, Covers(j, a) PROVE Better(i, j)
      <4>1. given[j].prefix \in Met(a) /\ Met(a) \in SUBSET (0..W)
        BY <3>4, WalkMeetsRules, Zenon
      <4>2. given[j].prefix <= n /\ given[j].prefix \in Nat /\ n \in Nat
        BY <3>1, <4>1
      <4> QED BY <3>3, <3>4, <4>2 DEF Better
    <3>5. proxy_for_ip(a, x) = given[i].route
      BY <1>1, <3>2, <3>3, Zenon DEF proxy_for_ip, match_ip
    <3> QED BY <3>3, <3>4, <3>5, Zenon DEF Chosen
  <2> QED BY <2>1, <2>2, Zenon
<1>3. ASSUME NEW x \in Route, NEW h \in Hostname
      PROVE  \/ \E i \in DOMAIN given :
                  /\ Mentions(i, h) /\ \A j \in 1..(i - 1) : ~Mentions(j, h)
                  /\ proxy_for_domain(h, x) = given[i].route
             \/ /\ \A i \in DOMAIN given : ~Mentions(i, h)
                /\ proxy_for_domain(h, x) = x
  <2>1. PICK e \in [DOMAIN domain_actions -> DOMAIN given] :
           /\ \A k \in Hits(h) : Mentions(e[k], h) /\ given[e[k]] = domain_actions[k]
           /\ \A k, l \in Hits(h) : k <= l => e[k] <= e[l]
           /\ \A i \in DOMAIN given : Mentions(i, h) => \E k \in Hits(h) : e[k] = i
    BY HitsAreRules, Zenon
  <2>2. CASE Hits(h) = {}
    BY <2>1, <2>2, Zenon DEF proxy_for_domain, match_domain
  <2>3. CASE Hits(h) # {}
    <3> DEFINE k == CHOOSE i \in Hits(h) : \A j \in Hits(h) : i <= j
    <3>1. k \in Hits(h) /\ \A j \in Hits(h) : k <= j
      <4>1. Hits(h) \in SUBSET Nat
        BY DEF Hits, RulesIInv, RulesTyped
      <4>2. \E i \in Hits(h) : \A j \in Hits(h) : i <= j
        BY <2>3, <4>1, LeastNumber, Zenon
      <4> QED BY <4>2, Zenon
    <3>2. match_domain(h) = domain_actions[k].route
      BY <2>3, Zenon DEF match_domain
    <3> HIDE DEF k
    <3>3. e[k] \in DOMAIN given /\ Mentions(e[k], h) /\ given[e[k]] = domain_actions[k]
      BY <2>1, <3>1, Zenon DEF Hits
    <3>4. ASSUME NEW j \in 1..(e[k] - 1) PROVE ~Mentions(j, h)
      <4>1. j \in DOMAIN given /\ e[k] \in Nat /\ j \in Nat /\ j < e[k]
        BY <3>3 DEF RulesIInv, RulesTyped
      <4>2. ASSUME Mentions(j, h) PROVE FALSE
        <5>1. PICK l \in Hits(h) : e[l] = j
          BY <2>1, <4>1, <4>2, Zenon
        <5>2. e[k] <= j
          BY <2>1, <3>1, <5>1, Zenon
        <5> QED BY <4>1, <5>2
      <4> QED BY <4>2, Zenon
    <3>5. proxy_for_domain(h, x) = given[e[k]].route
      BY <1>1, <3>2, <3>3, Zenon DEF proxy_for_domain
    <3> QED BY <3>3, <3>4, <3>5, Zenon
  <2> QED BY <2>2, <2>3, Zenon
<1> QED BY <1>2, <1>3, Zenon DEF RoutesAsWritten

(***************************************************************************)
(* Whatever rules are given, and in whatever order, an address takes the    *)
(* route of the longest prefix that covers it and a domain that of the      *)
(* first rule that matches it (rule.rs, RuleMatcher; config.rs, proxy_for), *)
(* for addresses of any width.                                              *)
(***************************************************************************)
THEOREM RoutedAsWritten == RulesSpec => []RoutesAsWritten
BY RulesInvariant, RulesPrescribe, PTL
===============================================================================
