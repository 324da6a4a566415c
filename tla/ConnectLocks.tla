----------------------------- MODULE ConnectLocks -----------------------------
(***************************************************************************)
(* Broker::locks (src/src/broker/engine.rs): one mutex per socket cookie,   *)
(* created by the first connect that needs it (src/src/broker/tcp.rs:49-60),*)
(* shared by the connects that overlap with it, and forgotten by the        *)
(* cleanup tick once no connect refers to it.  The table keeps Weak         *)
(* references: an entry whose mutex is gone cannot be upgraded.             *)
(***************************************************************************)
EXTENDS Naturals

CONSTANTS Call,      \* running connect_tcp tasks
          Socket,    \* socket cookies
          Lock,      \* identities of allocated mutexes
          None

ASSUME LocksAssumption == None \notin Call \cup Socket \cup Lock

VARIABLES locks,     \* cookie -> mutex the Weak entry refers to, or None
          sk,        \* task -> cookie of the socket it connects, or None
          arc,       \* task -> mutex it holds an Arc of, or None
          owner      \* mutex -> task inside it, or None

lockVars == <<locks, sk, arc, owner>>

LocksTypeOK ==
    /\ locks \in [Socket -> Lock \cup {None}]
    /\ sk \in [Call -> Socket \cup {None}]
    /\ arc \in [Call -> Lock \cup {None}]
    /\ owner \in [Lock -> Call \cup {None}]
    /\ \A c \in Call : sk[c] = None <=> arc[c] = None
    /\ \A l \in Lock : owner[l] # None => arc[owner[l]] = l

LocksInit ==
    /\ locks = [s \in Socket |-> None]
    /\ sk = [c \in Call |-> None]
    /\ arc = [c \in Call |-> None]
    /\ owner = [l \in Lock |-> None]
-------------------------------------------------------------------------------
Strong(l) == \E c \in Call : arc[c] = l             \* strong_count() > 0

Upgradable(s) == locks[s] # None /\ Strong(locks[s])    \* Weak::upgrade

\* A new mutex for s.  The insert that stores it releases what the entry of s referred to.
Unallocated(l, s) == ~Strong(l) /\ \A t \in Socket \ {s} : locks[t] # l

Bug_ShareAnyLock(c, s) ==
    /\ sk[c] = None
    /\ \E l \in Lock : /\ \/ \E t \in Socket : locks[t] = l /\ Upgradable(t)
                          \/ Unallocated(l, s)
                       /\ locks' = [locks EXCEPT ![s] = l]
                       /\ arc' = [arc EXCEPT ![c] = l]
    /\ sk' = [sk EXCEPT ![c] = s]
    /\ UNCHANGED owner

(***************************************************************************)
(* Look the mutex up under the table's own lock; insert a new one unless    *)
(* the entry can be upgraded.                                               *)
(***************************************************************************)
GetLock(c, s) ==
    /\ sk[c] = None
    /\ \/ /\ Upgradable(s)
          /\ arc' = [arc EXCEPT ![c] = locks[s]]
          /\ UNCHANGED locks
       \/ /\ ~Upgradable(s)
          /\ \E l \in Lock : /\ Unallocated(l, s)
                             /\ locks' = [locks EXCEPT ![s] = l]
                             /\ arc' = [arc EXCEPT ![c] = l]
    /\ sk' = [sk EXCEPT ![c] = s]
    /\ UNCHANGED owner

AcquireLock(c) ==      \* lock.lock().await
    /\ arc[c] # None
    /\ owner[arc[c]] = None
    /\ owner' = [owner EXCEPT ![arc[c]] = c]
    /\ UNCHANGED <<locks, arc, sk>>

(***************************************************************************)
(* connect_tcp returns, or its task is aborted while waiting or inside: the *)
(* guard, if any, is dropped, then the Arc.                                 *)
(***************************************************************************)
DropLock(c) ==
    /\ arc[c] # None
    /\ owner' = [l \in Lock |-> IF owner[l] = c THEN None ELSE owner[l]]
    /\ arc' = [arc EXCEPT ![c] = None]
    /\ sk' = [sk EXCEPT ![c] = None]
    /\ UNCHANGED locks

Bug_RetainOwned ==
    /\ locks' = [s \in Socket |-> IF locks[s] # None /\ owner[locks[s]] # None
                                  THEN locks[s] ELSE None]
    /\ UNCHANGED <<arc, owner, sk>>

RetainLocks ==          \* the cleanup tick
    /\ locks' = [s \in Socket |-> IF Upgradable(s) THEN locks[s] ELSE None]
    /\ UNCHANGED <<arc, owner, sk>>

LocksNext ==
    \/ \E c \in Call : (\E s \in Socket : GetLock(c, s)) \/ AcquireLock(c) \/ DropLock(c)
    \/ RetainLocks

LocksSpec == LocksInit /\ [][LocksNext]_lockVars
-------------------------------------------------------------------------------
Inside(c) == arc[c] # None /\ owner[arc[c]] = c

(***************************************************************************)
(* At most one connect_tcp at a time is past line 60 of tcp.rs for a        *)
(* socket, although the mutex it waits for is created on demand and the     *)
(* cleanup tick removes table entries at any moment.                        *)
(***************************************************************************)
OneConnectPerSocket ==
    \A c, d \in Call : Inside(c) /\ Inside(d) /\ sk[c] = sk[d] => c = d

(***************************************************************************)
(* "Dispatch notifications without serializing unrelated sockets"           *)
(* (engine.rs:1): connects of different sockets never share a mutex.        *)
(***************************************************************************)
UnrelatedNotSerialized ==
    \A c, d \in Call : arc[c] # None /\ arc[c] = arc[d] => sk[c] = sk[d]

(***************************************************************************)
(* What makes the two hold: the entry of a socket is the mutex that every   *)
(* connect of that socket refers to, and no other socket's.                 *)
(***************************************************************************)
LocksIInv ==
    /\ LocksTypeOK
    /\ \A c \in Call : arc[c] # None => locks[sk[c]] = arc[c]
    /\ \A s, t \in Socket : locks[s] # None /\ locks[s] = locks[t] => s = t
===============================================================================
