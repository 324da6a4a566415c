--------------------------- MODULE TcpConnectProofs ---------------------------
(***************************************************************************)
(* Proofs that the per-socket connect locks of the broker exclude           *)
(* overlapping connects of one socket, and only of one socket; and that     *)
(* connect_tcp uses them as ConnectLocks says, so that this holds of the    *)
(* whole composition.  Last what a connect past its lock may rely on: its   *)
(* worker and its socket are its own.                                       *)
(***************************************************************************)
EXTENDS TcpConnect, TLAPS

(***************************************************************************)
(* Broker::new starts with an empty table and no connect.                   *)
(***************************************************************************)
LEMMA LocksStart == LocksInit => LocksIInv
BY LocksAssumption, Zenon DEF LocksInit, LocksIInv, LocksTypeOK

(***************************************************************************)
(* No step of a connect or of the cleanup tick breaks the invariant:        *)
(* GetLock replaces an entry only when nobody refers to its mutex, and the  *)
(* tick removes only such entries.                                          *)
(***************************************************************************)
LEMMA LocksStep == LocksIInv /\ [LocksNext]_lockVars => LocksIInv'
<1> SUFFICES ASSUME LocksIInv, [LocksNext]_lockVars
             PROVE  LocksIInv'
    BY Zenon
<1> USE LocksAssumption DEF LocksIInv, LocksTypeOK
<1>1. ASSUME NEW c \in Call, NEW s \in Socket, GetLock(c, s)
      PROVE  LocksIInv'
  <2>1. CASE Upgradable(s) /\ arc' = [arc EXCEPT ![c] = locks[s]] /\ UNCHANGED locks
    <3>1. \A d \in Call : arc'[d] # None => locks'[sk'[d]] = arc'[d]
          BY <1>1, <2>1, Zenon DEF GetLock, Upgradable
    <3>2. LocksTypeOK'
          BY <1>1, <2>1 DEF GetLock, Upgradable
    <3> QED BY <3>1, <3>2, <2>1
  <2>2. ASSUME NEW l \in Lock, ~Upgradable(s), Unallocated(l, s),
               locks' = [locks EXCEPT ![s] = l], arc' = [arc EXCEPT ![c] = l]
        PROVE  LocksIInv'
    <3>1. LocksTypeOK'
          BY <1>1, <2>2 DEF GetLock, Unallocated, Strong
    <3>2. ASSUME NEW d \in Call, arc'[d] # None
          PROVE  locks'[sk'[d]] = arc'[d]
      <4>1. CASE d = c
            BY <1>1, <2>2, <4>1, ZenonT(60) DEF GetLock
      <4>2. CASE d # c
        <5>1. arc[d] # None /\ locks[sk[d]] = arc[d] /\ sk'[d] = sk[d] /\ arc'[d] = arc[d]
              BY <1>1, <2>2, <3>2, <4>2, Zenon DEF GetLock
        <5>2. sk[d] # s
              BY <2>2, <5>1, Zenon DEF Upgradable, Strong
        <5> QED BY <2>2, <5>1, <5>2, Zenon
      <4> QED BY <4>1, <4>2, Zenon
    <3>3. \A a, b \in Socket : locks'[a] # None /\ locks'[a] = locks'[b] => a = b
          BY <2>2, Zenon DEF Unallocated
    <3> QED BY <3>1, <3>2, <3>3, Zenon
  <2> QED BY <1>1, <2>1, <2>2, Zenon DEF GetLock
<1>2. ASSUME NEW c \in Call, AcquireLock(c)
      PROVE  LocksIInv'
      BY <1>2, Zenon DEF AcquireLock
<1>3. ASSUME NEW c \in Call, DropLock(c)
      PROVE  LocksIInv'
      BY <1>3, ZenonT(60) DEF DropLock
<1>4. CASE RetainLocks
      BY <1>4, ZenonT(60) DEF RetainLocks, Upgradable, Strong
<1>5. CASE UNCHANGED lockVars
      BY <1>5, Zenon DEF lockVars
<1> QED BY <1>1, <1>2, <1>3, <1>4, <1>5, Zenon DEF LocksNext

(***************************************************************************)
(* The entry of a socket is the mutex of all its connects, always: no       *)
(* connect_tcp (tcp.rs:49-60) and no tick (engine.rs:153) separates them.   *)
(***************************************************************************)
THEOREM LocksInvariant == LocksSpec => []LocksIInv
BY LocksStart, LocksStep, PTL DEF LocksSpec

(***************************************************************************)
(* At most one connect_tcp per socket is past tcp.rs:60, for any number of  *)
(* tasks, sockets and cleanup ticks.                                        *)
(***************************************************************************)
THEOREM ConnectsExclusive == LocksSpec => []OneConnectPerSocket
<1>1. LocksIInv => OneConnectPerSocket
      BY LocksAssumption DEF LocksIInv, LocksTypeOK, OneConnectPerSocket, Inside
<1> QED BY <1>1, LocksInvariant, PTL

(***************************************************************************)
(* Connects of different sockets never wait for the same mutex.             *)
(***************************************************************************)
THEOREM UnrelatedIndependent == LocksSpec => []UnrelatedNotSerialized
<1>1. LocksIInv => UnrelatedNotSerialized
      BY LocksAssumption DEF LocksIInv, LocksTypeOK, UnrelatedNotSerialized
<1> QED BY <1>1, LocksInvariant, PTL
-------------------------------------------------------------------------------

(***************************************************************************)
(* Every call that is under way has a socket and a target.                  *)
(***************************************************************************)
CallsIInv ==
    /\ pc \in [Call -> {"idle", "dispatch", "lock", "state", "route", "insert", "register",
                        "run", "wait", "cancel", "commit", "native"}]
    /\ call \in [Call -> [sock : Socket \cup {None}, tgt : Target \cup {Unspec, None},
                          reg : Reg \cup {None}]]
    /\ \A c \in Call : pc[c] # "idle" =>
           call[c].sock \in Socket /\ call[c].tgt \in Target \cup {Unspec}

(***************************************************************************)
(* Every way a task of connect_tcp moves on keeps CallsIInv: it returns, or *)
(* stays at its socket.                                                     *)
(***************************************************************************)
LEMMA CallsMove ==
    ASSUME CallsIInv, NEW c \in Call, NEW label \in {"dispatch", "lock", "state", "route",
               "insert", "register", "run", "wait", "cancel", "commit", "native"},
           pc[c] # "idle",
           pc' = [pc EXCEPT ![c] = label],
           \/ call' = call
           \/ \E r \in Reg : call' = [call EXCEPT ![c].reg = r]
    PROVE  CallsIInv'
BY DEF CallsIInv

(***************************************************************************)
(* A call that returns is idle.                                             *)
(***************************************************************************)
LEMMA CallsReturn ==
    ASSUME CallsIInv, NEW c \in Call, pc' = [pc EXCEPT ![c] = "idle"],
           call' = [call EXCEPT ![c] = NoCall]
    PROVE  CallsIInv'
BY Zenon DEF CallsIInv, NoCall

(***************************************************************************)
(* The step of one call, as far as the locks and CallsIInv are concerned:   *)
(* it begins, moves on, or returns.                                         *)
(***************************************************************************)
Moves(c) ==
    /\ pc[c] # "idle"
    /\ \E label \in {"dispatch", "lock", "state", "route", "insert", "register", "run",
                     "wait", "cancel", "commit", "native"} : pc' = [pc EXCEPT ![c] = label]
    /\ call' = call \/ \E r \in Reg : call' = [call EXCEPT ![c].reg = r]

Returns(c) == pc' = [pc EXCEPT ![c] = "idle"] /\ call' = [call EXCEPT ![c] = NoCall]

Stays == UNCHANGED <<pc, call>>

(***************************************************************************)
(* connect_tcp gives the lock up when it fails (tcp.rs:89-121).             *)
(***************************************************************************)
LEMMA Failing == ASSUME NEW c \in Call, Fail(c) PROVE Returns(c) /\ DropLock(c)
BY Zenon DEF Fail, Returns

(***************************************************************************)
(* ... when it returns (tcp.rs:60-93) ...                                   *)
(***************************************************************************)
LEMMA Returning ==
    ASSUME CallsIInv, NEW c \in Call, Return(c, "idle")
    PROVE  Returns(c) /\ DropLock(c)
BY Zenon DEF Return, Returns

(***************************************************************************)
(* ... and when it leaves the call to the kernel (tcp.rs:67, 85).           *)
(***************************************************************************)
LEMMA Continuing ==
    ASSUME CallsIInv, NEW c \in Call, pc[c] # "idle", Return(c, "native")
    PROVE  Moves(c) /\ DropLock(c)
BY Zenon DEF Return, Moves, CallsIInv

(***************************************************************************)
(* What the locks need of a step: the calls keep their sockets, and the     *)
(* lock table changes only as ConnectLocks lets it.                         *)
(***************************************************************************)
Locked == CallsIInv' /\ (LocksNext \/ UNCHANGED lockVars)

(***************************************************************************)
(* Any step that moves a call, and leaves the locks alone or drops one.     *)
(***************************************************************************)
LEMMA LockedMove ==
    ASSUME CallsIInv, NEW c \in Call, Moves(c) \/ Returns(c) \/ Stays,
           UNCHANGED lockVars \/ DropLock(c)
    PROVE  Locked
<1>1. CASE Moves(c)
  <2>1. CallsIInv'
    BY <1>1, CallsMove, Zenon DEF Moves
  <2> QED BY <2>1, Zenon DEF Locked, LocksNext
<1>2. CASE Returns(c)
  <2>1. CallsIInv'
    BY <1>2, CallsReturn, Zenon DEF Returns
  <2> QED BY <2>1, Zenon DEF Locked, LocksNext
<1>3. CASE Stays
  <2>1. CallsIInv'
    BY <1>3, Zenon DEF Stays, CallsIInv
  <2> QED BY <2>1, Zenon DEF Locked, LocksNext
<1> QED BY <1>1, <1>2, <1>3, Zenon

(***************************************************************************)
(* Each step of a call's task (Broker::connect_tcp, connect::run).          *)
(***************************************************************************)
LEMMA LockedTask ==
    ASSUME CallsIInv, NEW c \in Call, Task(c)
    PROVE  Locked
<1>1. CASE Dispatch(c)
  <2>1. CASE call[c].tgt # Unspec /\ pc' = [pc EXCEPT ![c] = "lock"]
             /\ UNCHANGED call /\ GetLock(c, call[c].sock)
    <3>1. Moves(c) /\ call[c].sock \in Socket
      BY <1>1, <2>1, Zenon DEF Dispatch, Moves, CallsIInv
    <3>2. CallsIInv'
      BY <3>1, CallsMove, Zenon DEF Moves
    <3> QED BY <2>1, <3>1, <3>2, Zenon DEF Locked, LocksNext
  <2>2. CASE Goto(c, "native")
    <3>1. Moves(c) /\ UNCHANGED lockVars
      BY <1>1, <2>2, Zenon DEF Dispatch, Goto, Moves
    <3> QED BY <3>1, LockedMove, Zenon
  <2>3. CASE Returns(c) /\ UNCHANGED lockVars
    BY <2>3, LockedMove, Zenon
  <2> QED BY <1>1, <2>1, <2>2, <2>3, Zenon DEF Dispatch, Returns
<1>2. CASE Acquire(c)
  <2>1. Moves(c) /\ AcquireLock(c)
    BY <1>2, Zenon DEF Acquire, Moves
  <2>2. CallsIInv'
    BY <2>1, CallsMove, Zenon DEF Moves
  <2> QED BY <2>1, <2>2, Zenon DEF Locked, LocksNext
<1>3. CASE ReadState(c)
  <2>1. ASSUME NEW l \in {"route", "run"}, Goto(c, l) PROVE Locked
    <3>1. Moves(c) /\ UNCHANGED lockVars
      BY <1>3, <2>1, Zenon DEF ReadState, Goto, Moves
    <3> QED BY <3>1, LockedMove, Zenon
  <2>2. CASE Return(c, "idle")
    BY <2>2, Returning, LockedMove, Zenon
  <2>3. CASE Return(c, "native")
    <3>1. pc[c] # "idle"
      BY <1>3, Zenon DEF ReadState
    <3> QED BY <2>3, <3>1, Continuing, LockedMove, Zenon
  <2> QED BY <1>3, <2>1, <2>2, <2>3, Zenon DEF ReadState
<1>4. CASE Route(c)
  <2>1. CASE Goto(c, "insert")
    <3>1. Moves(c) /\ UNCHANGED lockVars
      BY <1>4, <2>1, Zenon DEF Route, Goto, Moves
    <3> QED BY <3>1, LockedMove, Zenon
  <2>2. CASE Return(c, "idle")
    BY <2>2, Returning, LockedMove, Zenon
  <2>3. CASE Return(c, "native")
    <3>1. pc[c] # "idle"
      BY <1>4, Zenon DEF Route
    <3> QED BY <2>3, <3>1, Continuing, LockedMove, Zenon
  <2> QED BY <1>4, <2>1, <2>2, <2>3, Zenon DEF Route
<1>5. CASE Fail(c)
  BY <1>5, Failing, LockedMove, Zenon
<1>6. CASE InsertPeer(c)
  <2>1. CASE Goto(c, "register")
    <3>1. Moves(c) /\ UNCHANGED lockVars
      BY <1>6, <2>1, Zenon DEF InsertPeer, Goto, Moves
    <3> QED BY <3>1, LockedMove, Zenon
  <2> QED BY <1>5, <1>6, <2>1, Zenon DEF InsertPeer
<1>7. CASE Register(c)
  <2>1. CASE ~Fail(c)
    <3>1. Moves(c) /\ UNCHANGED lockVars
      BY <1>7, <2>1, Zenon DEF Register, Moves
    <3> QED BY <3>1, LockedMove, Zenon
  <2> QED BY <1>5, <2>1, Zenon
<1>8. CASE Run(c)
  <2>1. CASE ~Fail(c)
    <3>1. Moves(c) /\ UNCHANGED lockVars
      BY <1>8, <2>1, Zenon DEF Run, Moves
    <3> QED BY <3>1, LockedMove, Zenon
  <2> QED BY <1>5, <2>1, Zenon
<1>9. CASE WaitDone(c)
  <2>1. CASE Goto(c, "commit")
    <3>1. Moves(c) /\ UNCHANGED lockVars
      BY <1>9, <2>1, Zenon DEF WaitDone, Goto, Moves
    <3> QED BY <3>1, LockedMove, Zenon
  <2>2. CASE Return(c, "idle")
    BY <2>2, Returning, LockedMove, Zenon
  <2> QED BY <1>5, <1>9, <2>1, <2>2, Zenon DEF WaitDone
<1>10. CASE WaitCancel(c)
  <2>1. Moves(c) /\ UNCHANGED lockVars
    BY <1>10, Zenon DEF WaitCancel, Moves
  <2> QED BY <2>1, LockedMove, Zenon
<1>11. CASE CancelShutdown(c)
  <2>1. Stays /\ UNCHANGED lockVars
    BY <1>11, Zenon DEF CancelShutdown, Stays
  <2> QED BY <2>1, LockedMove, Zenon
<1>12. CASE CancelDone(c)
  BY <1>5, <1>12, Zenon DEF CancelDone
<1>13. CASE Commit(c)
  <2>1. Returns(c) /\ DropLock(c)
    BY <1>13, Zenon DEF Commit, Returns
  <2> QED BY <2>1, LockedMove, Zenon
<1> QED BY <1>1, <1>2, <1>3, <1>4, <1>6, <1>7, <1>8, <1>9, <1>10, <1>11, <1>12, <1>13, Zenon DEF Task

(***************************************************************************)
(* Each step of the program and of the kernel: beside the tasks, only the   *)
(* cleanup tick touches the lock table.                                     *)
(***************************************************************************)
LEMMA LockedNext ==
    ASSUME CallsIInv, [Next]_vars
    PROVE  Locked
<1>1. ASSUME NEW c \in Call, NEW s \in Socket, NEW t \in Target \cup {Unspec}, Connect(c, s, t)
      PROVE  Locked
  <2>1. CallsIInv'
    BY <1>1, Zenon DEF Connect, CallsIInv
  <2> QED BY <1>1, <2>1, Zenon DEF Connect, Locked
<1>2. ASSUME NEW c \in Call, NativeCall(c) PROVE Locked
  <2>1. Returns(c) /\ UNCHANGED lockVars
    BY <1>2, Zenon DEF NativeCall, Returns
  <2> QED BY <2>1, LockedMove, Zenon
<1>3. ASSUME Stays, UNCHANGED lockVars PROVE Locked
  <2>1. CallsIInv'
    BY <1>3, Zenon DEF Stays, CallsIInv
  <2> QED BY <1>3, <2>1, Zenon DEF Locked
<1>4. ASSUME NEW c \in Call, WorkerThread(c) PROVE Locked
  <2>1. Stays /\ UNCHANGED lockVars
    BY <1>4, Zenon DEF WorkerThread, WorkerStart, WorkerEnter, WorkerReturn, WorkerFinish, Stays
  <2> QED BY <1>3, <2>1, Zenon
<1>5. ASSUME NEW s \in Socket, Handshake(s) \/ ConnectionLost(s) PROVE Locked
  <2>1. Stays /\ UNCHANGED lockVars
    BY <1>5, Zenon DEF Handshake, ConnectionLost, Stays
  <2> QED BY <1>3, <2>1, Zenon
<1>6. CASE Accept
  <2>1. Stays /\ UNCHANGED lockVars
    BY <1>6, Zenon DEF Accept, Stays
  <2> QED BY <1>3, <2>1, Zenon
<1>7. ASSUME NEW r \in Reg, RelayAccept(r) \/ RelayConnected(r) PROVE Locked
  <2>1. Stays /\ UNCHANGED lockVars
    BY <1>7, Zenon DEF RelayAccept, RelayConnected, Stays
  <2> QED BY <1>3, <2>1, Zenon
<1>8. CASE Tick
  <2>1. Stays /\ RetainLocks
    BY <1>8, Zenon DEF Tick, Stays
  <2>2. CallsIInv'
    BY <2>1, Zenon DEF Stays, CallsIInv
  <2> QED BY <2>1, <2>2, Zenon DEF Locked, LocksNext
<1>9. CASE Snapshot
  <2>1. Stays /\ UNCHANGED lockVars
    BY <1>9, Zenon DEF Snapshot, Stays
  <2> QED BY <1>3, <2>1, Zenon
<1>10. CASE UNCHANGED vars
  <2>1. Stays /\ UNCHANGED lockVars
    BY <1>10, Zenon DEF vars, Stays
  <2> QED BY <1>3, <2>1, Zenon
<1> QED BY <1>1, <1>2, LockedTask, <1>4, <1>5, <1>6, <1>7, <1>8, <1>9, <1>10, Zenon DEF Next, WorkerThread

(***************************************************************************)
(* CallsIInv is an inductive invariant of connect_tcp and its surroundings. *)
(***************************************************************************)
LEMMA CallsInvariant == Spec => []CallsIInv
<1>1. Init => CallsIInv
  BY DEF Init, CallsIInv, NoCall
<1>2. CallsIInv /\ [Next]_vars => CallsIInv'
  BY LockedNext, Zenon DEF Locked
<1> QED BY <1>1, <1>2, PTL DEF Spec

(***************************************************************************)
(* connect_tcp, its relays, the workers, the kernel and the cleanup tick    *)
(* together use the lock table only as ConnectLocks allows.                 *)
(***************************************************************************)
THEOREM LocksRefined == Spec => LocksSpec
<1>1. Init => LocksInit
  BY Zenon DEF Init
<1>2. CallsIInv /\ [Next]_vars => [LocksNext]_lockVars
  BY LockedNext, Zenon DEF Locked
<1> QED BY <1>1, <1>2, CallsInvariant, PTL DEF Spec, LocksSpec

(***************************************************************************)
(* For every number of calls, sockets, ports and targets, and whatever is   *)
(* interrupted or cancelled: one connect_tcp at a time is past line 60 of   *)
(* tcp.rs for a socket.                                                     *)
(***************************************************************************)
THEOREM ConnectsExclude == Spec => []OneConnectPerSocket
BY LocksRefined, ConnectsExclusive, PTL

(***************************************************************************)
(* ... and connects of different sockets never share a mutex.               *)
(***************************************************************************)
THEOREM ConnectsUnrelated == Spec => []UnrelatedNotSerialized
BY LocksRefined, UnrelatedIndependent, PTL
-------------------------------------------------------------------------------
(***************************************************************************)
(* Steps of one call: no other call moves.                                  *)
(***************************************************************************)
Only(c) == \A d \in Call \ {c} : pc'[d] = pc[d] /\ call'[d] = call[d]

(***************************************************************************)
(* A call that moves on or returns moves alone.                             *)
(***************************************************************************)
LEMMA OnlyOne ==
    ASSUME CallsIInv, NEW c \in Call, Moves(c) \/ Returns(c) \/ Stays PROVE Only(c)
BY Zenon DEF CallsIInv, Moves, Returns, Stays, Only

(***************************************************************************)
(* What the other calls hold survives any use of the locks by one call.     *)
(***************************************************************************)
LEMMA HoldsOthers ==
    ASSUME CallsIInv, LocksIInv, HoldsIInv, NEW c \in Call, Only(c),
           \/ UNCHANGED lockVars \/ DropLock(c) \/ AcquireLock(c)
           \/ \E s \in Socket : GetLock(c, s),
           Holds(c)'
    PROVE  HoldsIInv'
<1> SUFFICES ASSUME NEW d \in Call \ {c} PROVE Holds(d)'
    BY Zenon DEF HoldsIInv
<1>1. Holds(d) /\ pc'[d] = pc[d] /\ call'[d] = call[d]
  BY Zenon DEF HoldsIInv, Only
<1>2. LocksTypeOK
  BY Zenon DEF LocksIInv
<1>3. sk'[d] = sk[d] /\ arc'[d] = arc[d]
  BY <1>2, Zenon DEF LocksTypeOK, lockVars, DropLock, AcquireLock, GetLock
<1>4. owner[arc[d]] = d /\ arc[d] # None => owner'[arc[d]] = d
  BY <1>2, LocksAssumption DEF LocksTypeOK, lockVars, DropLock, AcquireLock, GetLock
<1>5. pc[d] \in Working => arc[d] # None
  BY <1>1, Zenon DEF Holds, Working, Unlocked
<1> QED BY <1>1, <1>3, <1>4, <1>5 DEF Holds

(***************************************************************************)
(* connect_tcp moves on under its lock (tcp.rs:61-121).                     *)
(***************************************************************************)
LEMMA HoldsMove ==
    ASSUME CallsIInv, LocksIInv, HoldsIInv, NEW c \in Call, pc[c] \in Working,
           NEW l \in Working, Only(c), pc'[c] = l, UNCHANGED lockVars,
           call'[c].sock = call[c].sock, call'[c].tgt = call[c].tgt,
           l \notin {"run", "wait", "cancel", "commit"} => call'[c].reg = None,
           l = "commit" => call'[c].reg # None
    PROVE  HoldsIInv'
<1>1. Holds(c)
  BY Zenon DEF HoldsIInv
<1>2. Holds(c)'
  BY <1>1, Zenon DEF Holds, Working, Unlocked, lockVars
<1> QED BY <1>2, HoldsOthers, Zenon

(***************************************************************************)
(* ... and has nothing left once it gave the lock up.                       *)
(***************************************************************************)
LEMMA HoldsLeave ==
    ASSUME CallsIInv, LocksIInv, HoldsIInv, NEW c \in Call, Only(c), DropLock(c),
           pc'[c] \in {"idle", "native"}, call'[c].reg = None
    PROVE  HoldsIInv'
<1>1. Holds(c)'
  BY Zenon DEF Holds, Unlocked, Working, DropLock, LocksIInv, LocksTypeOK
<1> QED BY <1>1, HoldsOthers, Zenon

(***************************************************************************)
(* Every error path (tcp.rs:89-121) ends that way ...                       *)
(***************************************************************************)
LEMMA HoldsFail ==
    ASSUME CallsIInv, LocksIInv, HoldsIInv, NEW c \in Call, Fail(c)
    PROVE  HoldsIInv'
<1>1. Returns(c) /\ DropLock(c)
  BY Failing, Zenon
<1>2. pc'[c] = "idle" /\ call'[c].reg = None
  BY <1>1, Zenon DEF Returns, CallsIInv, NoCall
<1> QED BY <1>1, <1>2, OnlyOne, HoldsLeave, Zenon

(***************************************************************************)
(* ... and so does every early return without a registration.               *)
(***************************************************************************)
LEMMA HoldsReturn ==
    ASSUME CallsIInv, LocksIInv, HoldsIInv, NEW c \in Call, NEW l \in {"idle", "native"},
           pc[c] # "idle", Return(c, l), call[c].reg = None
    PROVE  HoldsIInv'
<1>1. Only(c) /\ DropLock(c)
  BY Returning, Continuing, OnlyOne, Zenon
<1>2. pc'[c] = l /\ call'[c].reg = None
  BY Zenon DEF Return, CallsIInv, NoCall
<1> QED BY <1>1, <1>2, HoldsLeave, Zenon

(***************************************************************************)
(* Each step of a call's task.                                              *)
(***************************************************************************)
LEMMA HoldsTask ==
    ASSUME CallsIInv, LocksIInv, HoldsIInv, NEW c \in Call, Task(c)
    PROVE  HoldsIInv'
<1>0. Holds(c)
  BY Zenon DEF HoldsIInv
<1>1. ASSUME NEW l \in Working, pc[c] \in Working, Goto(c, l),
             l \in {"run", "wait", "cancel"} \/ (l # "commit" /\ call[c].reg = None)
             \/ (l = "commit" /\ call[c].reg # None)
      PROVE  HoldsIInv'
  <2>1. Moves(c)
    BY <1>1, ZenonT(60) DEF Goto, Moves, Working
  <2>2. pc'[c] = l /\ call' = call /\ UNCHANGED lockVars
    BY <1>1, Zenon DEF Goto, CallsIInv
  <2> QED BY <1>1, <2>1, <2>2, OnlyOne, HoldsMove, Zenon
<1>2. CASE Dispatch(c)
  <2>1. arc[c] = None /\ call[c].reg = None /\ call[c].sock \in Socket
    BY <1>0, <1>2, Zenon DEF Holds, Dispatch, Unlocked, CallsIInv
  <2>2. CASE pc' = [pc EXCEPT ![c] = "lock"] /\ UNCHANGED call
             /\ call[c].tgt # Unspec /\ GetLock(c, call[c].sock)
    <3>1. Only(c) /\ pc'[c] = "lock" /\ call'[c] = call[c] /\ call[c].tgt \in Target
      BY <1>2, <2>2, Zenon DEF Only, CallsIInv, Dispatch
    <3>2. sk'[c] = call[c].sock /\ arc'[c] # None
      BY <2>2, LocksAssumption, ZenonT(60) DEF GetLock, Upgradable, LocksIInv, LocksTypeOK
    <3>3. Holds(c)'
      BY <2>1, <3>1, <3>2, Zenon DEF Holds, Unlocked, Working
    <3> QED BY <2>1, <2>2, <3>1, <3>3, HoldsOthers, Zenon
  <2>3. CASE Goto(c, "native")
    <3>1. Moves(c) /\ pc'[c] = "native" /\ call' = call /\ UNCHANGED lockVars
      BY <1>2, <2>3, Zenon DEF Goto, CallsIInv, Moves, Dispatch
    <3>2. Holds(c)'
      BY <2>1, <3>1, Zenon DEF Holds, Unlocked, Working, lockVars
    <3> QED BY <3>1, <3>2, OnlyOne, HoldsOthers, Zenon
  <2>4. CASE Returns(c) /\ UNCHANGED lockVars
    <3>1. Holds(c)'
      BY <2>1, <2>4, Zenon DEF Returns, NoCall, CallsIInv, Holds, Unlocked, Working, lockVars
    <3> QED BY <2>4, <3>1, OnlyOne, HoldsOthers, Zenon
  <2> QED BY <1>2, <2>2, <2>3, <2>4, Zenon DEF Dispatch, Returns
<1>3. CASE Acquire(c)
  <2>1. Moves(c) /\ pc'[c] = "state" /\ call' = call /\ AcquireLock(c) /\ pc[c] = "lock"
    BY <1>3, Zenon DEF Acquire, Moves, CallsIInv
  <2>2. Holds(c)'
    BY <1>0, <2>1, Zenon DEF Holds, Unlocked, Working, AcquireLock, LocksIInv, LocksTypeOK
  <2> QED BY <2>1, <2>2, OnlyOne, HoldsOthers, Zenon
<1>4. CASE ReadState(c)
  <2>1. pc[c] = "state" /\ call[c].reg = None
    BY <1>0, <1>4, Zenon DEF ReadState, Holds
  <2> QED BY <1>1, <1>4, <2>1, HoldsReturn, Zenon DEF ReadState, Working
<1>5. CASE Route(c)
  <2>1. pc[c] = "route" /\ call[c].reg = None
    BY <1>0, <1>5, Zenon DEF Route, Holds
  <2> QED BY <1>1, <1>5, <2>1, HoldsReturn, Zenon DEF Route, Working
<1>6. CASE InsertPeer(c)
  <2>1. pc[c] = "insert" /\ call[c].reg = None
    BY <1>0, <1>6, Zenon DEF InsertPeer, Holds
  <2> QED BY <1>1, <1>6, <2>1, HoldsFail, Zenon DEF InsertPeer, Working
<1>7. CASE Register(c)
  <2>1. ASSUME NEW r \in Reg, pc' = [pc EXCEPT ![c] = "run"],
               call' = [call EXCEPT ![c].reg = r], UNCHANGED lockVars
        PROVE  HoldsIInv'
    <3>1. Moves(c) /\ pc[c] \in Working
      BY <1>7, <2>1, Zenon DEF Register, Moves, Working
    <3>2. /\ pc'[c] = "run" /\ call'[c].sock = call[c].sock /\ call'[c].tgt = call[c].tgt
      BY <2>1, Zenon DEF CallsIInv
    <3> QED BY <2>1, <3>1, <3>2, OnlyOne, HoldsMove, Zenon DEF Working
  <2> QED BY <1>7, <2>1, HoldsFail, Zenon DEF Register
<1>8. CASE Run(c)
  <2>1. CASE pc' = [pc EXCEPT ![c] = "wait"] /\ UNCHANGED <<call, lockVars>>
    <3>1. Moves(c) /\ pc[c] \in Working /\ pc'[c] = "wait"
      BY <1>8, <2>1, Zenon DEF Run, Moves, Working, CallsIInv
    <3> QED BY <2>1, <3>1, OnlyOne, HoldsMove, Zenon DEF Working
  <2> QED BY <1>8, <2>1, HoldsFail, Zenon DEF Run
<1>9. CASE WaitDone(c)
  <2>1. pc[c] = "wait"
    BY <1>9, Zenon DEF WaitDone
  <2> QED BY <1>1, <1>9, <2>1, HoldsReturn, HoldsFail, Zenon DEF WaitDone, Working
<1>10. CASE WaitCancel(c)
  <2>1. Moves(c) /\ pc[c] \in Working /\ pc'[c] = "cancel" /\ UNCHANGED <<call, lockVars>>
    BY <1>10, Zenon DEF WaitCancel, Moves, Working, CallsIInv
  <2> QED BY <2>1, OnlyOne, HoldsMove, Zenon DEF Working
<1>11. CASE CancelShutdown(c)
  <2>1. Stays /\ UNCHANGED lockVars
    BY <1>11, Zenon DEF CancelShutdown, Stays
  <2> QED BY <2>1, Zenon DEF Stays, lockVars, HoldsIInv, Holds
<1>12. CASE CancelDone(c)
  BY <1>12, HoldsFail, Zenon DEF CancelDone
<1>13. CASE Commit(c)
  <2>1. Returns(c) /\ DropLock(c)
    BY <1>13, Zenon DEF Commit, Returns
  <2>2. pc'[c] = "idle" /\ call'[c].reg = None
    BY <2>1, Zenon DEF Returns, CallsIInv, NoCall
  <2> QED BY <2>1, <2>2, OnlyOne, HoldsLeave, Zenon
<1> QED BY <1>2, <1>3, <1>4, <1>5, <1>6, <1>7, <1>8, <1>9, <1>10, <1>11, <1>12, <1>13, Zenon DEF Task

(***************************************************************************)
(* Each step of the program and of the kernel.                              *)
(***************************************************************************)
LEMMA HoldsNext ==
    ASSUME CallsIInv, LocksIInv, HoldsIInv, [Next]_vars
    PROVE  HoldsIInv'
<1>1. ASSUME NEW c \in Call, NEW s \in Socket, NEW t \in Target \cup {Unspec}, Connect(c, s, t)
      PROVE  HoldsIInv'
  <2>1. /\ Only(c) /\ pc'[c] = "dispatch" /\ call'[c].reg = None /\ UNCHANGED lockVars
        /\ pc[c] = "idle"
    BY <1>1, Zenon DEF Connect, CallsIInv, Only
  <2>2. Holds(c)
    BY Zenon DEF HoldsIInv
  <2>3. Holds(c)'
    BY <2>1, <2>2, Zenon DEF Holds, Unlocked, Working, lockVars
  <2> QED BY <2>1, <2>3, HoldsOthers, Zenon
<1>2. ASSUME NEW c \in Call, NativeCall(c) PROVE HoldsIInv'
  <2>1. Returns(c) /\ UNCHANGED lockVars /\ pc[c] = "native"
    BY <1>2, Zenon DEF NativeCall, Returns
  <2>2. Holds(c)
    BY Zenon DEF HoldsIInv
  <2>3. Holds(c)'
    BY <2>1, <2>2, Zenon DEF Returns, NoCall, CallsIInv, Holds, Unlocked, Working, lockVars
  <2> QED BY <2>1, <2>3, OnlyOne, HoldsOthers, Zenon
<1>3. ASSUME Stays, UNCHANGED <<sk, arc, owner>> PROVE HoldsIInv'
  BY <1>3, Zenon DEF Stays, HoldsIInv, Holds
<1>4. ASSUME NEW c \in Call, WorkerThread(c) PROVE HoldsIInv'
  BY <1>3, <1>4, Zenon DEF WorkerThread, WorkerStart, WorkerEnter, WorkerReturn, WorkerFinish,
                           Stays, lockVars
<1>5. ASSUME NEW s \in Socket, Handshake(s) \/ ConnectionLost(s) PROVE HoldsIInv'
  BY <1>3, <1>5, Zenon DEF Handshake, ConnectionLost, Stays, lockVars
<1>6. CASE Accept
  BY <1>3, <1>6, Zenon DEF Accept, Stays, lockVars
<1>7. ASSUME NEW r \in Reg, RelayAccept(r) \/ RelayConnected(r) PROVE HoldsIInv'
  BY <1>3, <1>7, Zenon DEF RelayAccept, RelayConnected, Stays, lockVars
<1>8. CASE Tick
  BY <1>3, <1>8, Zenon DEF Tick, Stays, RetainLocks
<1>9. CASE Snapshot
  BY <1>3, <1>9, Zenon DEF Snapshot, Stays, lockVars
<1>10. CASE UNCHANGED vars
  BY <1>3, <1>10, Zenon DEF vars, Stays, lockVars
<1> QED BY <1>1, <1>2, HoldsTask, <1>4, <1>5, <1>6, <1>7, <1>8, <1>9, <1>10, Zenon DEF Next, WorkerThread

(***************************************************************************)
(* No two calls are past tcp.rs:60 for one socket.                          *)
(***************************************************************************)
LEMMA Exclusive ==
    CallsIInv /\ LocksIInv /\ HoldsIInv =>
        \A c, d \in Call :
            pc[c] \in Working /\ pc[d] \in Working /\ call[c].sock = call[d].sock => c = d
BY LocksAssumption DEF LocksIInv, LocksTypeOK, HoldsIInv, Holds, Working, Unlocked

(***************************************************************************)
(* A call never leaves connect::run while its worker is queued or has not   *)
(* finished (connect.rs, PendingConnect::drop).                             *)
(***************************************************************************)
LEMMA WorkersNext ==
    ASSUME CallsIInv, WorkersIInv, [Next]_vars
    PROVE  WorkersIInv'
<1> USE DEF WorkersIInv
<1>0. {"none", "queued"} \subseteq Worker
  BY DEF Worker
<1>1. ASSUME NEW c \in Call, NEW l, pc' = [pc EXCEPT ![c] = l],
             pc[c] \notin {"wait", "cancel", "commit"}, l # "commit", UNCHANGED worker
      PROVE  WorkersIInv'
  BY <1>1, Zenon DEF CallsIInv
<1>2. ASSUME NEW c \in Call, NEW l, pc' = [pc EXCEPT ![c] = l], l # "commit",
             worker' = [worker EXCEPT ![c] = "none"]
      PROVE  WorkersIInv'
  BY <1>0, <1>2, Zenon DEF CallsIInv
<1>3. ASSUME UNCHANGED <<pc, worker>> PROVE WorkersIInv'
  BY <1>3, Zenon
<1>4. ASSUME NEW c \in Call, Fail(c) PROVE WorkersIInv'
  BY <1>2, <1>4, Zenon DEF Fail
<1>5. ASSUME NEW c \in Call, NEW l, Return(c, l), l # "commit" PROVE WorkersIInv'
  BY <1>2, <1>5, Zenon DEF Return
<1>6. ASSUME NEW c \in Call, NEW l, Goto(c, l),
             pc[c] \notin {"wait", "cancel", "commit"}, l # "commit"
      PROVE  WorkersIInv'
  BY <1>1, <1>6, Zenon DEF Goto
<1>7. ASSUME NEW c \in Call, Task(c) PROVE WorkersIInv'
  <2>1. CASE Dispatch(c)
    BY <1>1, <1>6, <2>1, Zenon DEF Dispatch
  <2>2. CASE Acquire(c)
    BY <1>1, <2>2, Zenon DEF Acquire
  <2>3. CASE ReadState(c)
    BY <1>5, <1>6, <2>3, Zenon DEF ReadState
  <2>4. CASE Route(c)
    BY <1>5, <1>6, <2>4, Zenon DEF Route
  <2>5. CASE InsertPeer(c)
    BY <1>4, <1>6, <2>5, Zenon DEF InsertPeer
  <2>6. CASE Register(c)
    BY <1>1, <1>4, <2>6, ZenonT(60) DEF Register
  <2>7. CASE Run(c)
    BY <1>0, <1>4, <2>7, ZenonT(60) DEF Run, CallsIInv
  <2>8. CASE WaitDone(c)
    <3>1. CASE worker[c] = "done" /\ Goto(c, "commit")
      BY <3>1, Zenon DEF Goto, CallsIInv
    <3> QED BY <1>4, <1>5, <2>8, <3>1, Zenon DEF WaitDone
  <2>9. CASE WaitCancel(c)
    BY <1>0, <2>9, ZenonT(60) DEF WaitCancel, CallsIInv
  <2>10. CASE CancelShutdown(c)
    BY <1>3, <2>10, Zenon DEF CancelShutdown
  <2>11. CASE CancelDone(c)
    BY <1>4, <2>11, Zenon DEF CancelDone
  <2>12. CASE Commit(c)
    BY <1>2, <2>12, Zenon DEF Commit
  <2> QED BY <1>7, <2>1, <2>2, <2>3, <2>4, <2>5, <2>6, <2>7, <2>8, <2>9, <2>10, <2>11, <2>12,
         ZenonT(60)
          DEF Task
<1>8. ASSUME NEW c \in Call, NEW s \in Socket, NEW t \in Target \cup {Unspec}, Connect(c, s, t)
      PROVE  WorkersIInv'
  BY <1>1, <1>8, Zenon DEF Connect
<1>9. ASSUME NEW c \in Call, NativeCall(c) PROVE WorkersIInv'
  BY <1>1, <1>9, Zenon DEF NativeCall
<1>10. ASSUME NEW c \in Call, WorkerThread(c) PROVE WorkersIInv'
  <2>1. \E w \in {"started", "inside", "ok", "error", "done", "failed"} :
            worker' = [worker EXCEPT ![c] = w]
    BY <1>10, Zenon DEF WorkerThread, WorkerStart, WorkerEnter, WorkerReturn, WorkerFinish
  <2>2. worker[c] \in {"queued", "started", "inside", "ok", "error"} /\ UNCHANGED pc
    BY <1>10, Zenon DEF WorkerThread, WorkerStart, WorkerEnter, WorkerReturn, WorkerFinish
  <2> QED BY <2>1, <2>2, ZenonT(60) DEF Worker
<1>11. ASSUME NEW s \in Socket, Handshake(s) \/ ConnectionLost(s) PROVE WorkersIInv'
  BY <1>3, <1>11, Zenon DEF Handshake, ConnectionLost
<1>12. CASE Accept
  BY <1>3, <1>12, Zenon DEF Accept
<1>13. ASSUME NEW r \in Reg, RelayAccept(r) \/ RelayConnected(r) PROVE WorkersIInv'
  BY <1>3, <1>13, Zenon DEF RelayAccept, RelayConnected
<1>14. CASE Tick \/ Snapshot
  BY <1>3, <1>14, Zenon DEF Tick, Snapshot
<1>15. CASE UNCHANGED vars
  BY <1>3, <1>15, Zenon DEF vars
<1> QED BY <1>7, <1>8, <1>9, <1>10, <1>11, <1>12, <1>13, <1>14, <1>15, ZenonT(60) DEF Next, WorkerThread

(***************************************************************************)
(* A socket that the kernel closes keeps its port and loses the rest.       *)
(***************************************************************************)
LEMMA ClosedSocket ==
    ASSUME tcp \in [Socket -> TcpSocket], NEW s \in Socket, NEW st \in State
    PROVE  /\ closed(s, st) \in TcpSocket
           /\ closed(s, st).state = st /\ closed(s, st).committed = None
           /\ closed(s, st).to = "none" /\ closed(s, st).name = tcp[s].name
           /\ closed(s, st).held = (s \in Pinned)
<1> DEFINE t == tcp[s]
           h == s \in Pinned
<1>1. /\ t \in TcpSocket /\ h \in BOOLEAN
      /\ closed(s, st) = [t EXCEPT !.state = st, !.held = h, !.to = "none", !.tgt = None,
                                   !.committed = None]
  BY DEF closed
<1>2. DOMAIN t = {"state", "name", "held", "to", "tgt", "committed"}
  BY <1>1, Zenon DEF TcpSocket
<1> HIDE DEF t, h
<1>3. /\ closed(s, st).state = st /\ closed(s, st).committed = None
      /\ closed(s, st).to = "none" /\ closed(s, st).name = t.name
      /\ closed(s, st).held = h
  BY <1>1, <1>2, Zenon
<1>4. closed(s, st) \in TcpSocket
  BY <1>1, ZenonT(60) DEF TcpSocket
<1> QED BY <1>3, <1>4, Zenon DEF t, h

(***************************************************************************)
(* A socket of which only the state changes.                                *)
(***************************************************************************)
LEMMA StateSocket ==
    ASSUME tcp \in [Socket -> TcpSocket], NEW s \in Socket, NEW st \in State,
           NEW e, e = [tcp[s] EXCEPT !.state = st]
    PROVE  /\ e \in TcpSocket /\ e.state = st /\ e.name = tcp[s].name /\ e.held = tcp[s].held
           /\ e.to = tcp[s].to /\ e.tgt = tcp[s].tgt /\ e.committed = tcp[s].committed
<1> DEFINE t == tcp[s]
<1>1. t \in TcpSocket /\ DOMAIN t = {"state", "name", "held", "to", "tgt", "committed"}
  BY Zenon DEF TcpSocket
<1>2. e = [t EXCEPT !.state = st]
  BY Zenon
<1> HIDE DEF t
<1>3. /\ e.state = st /\ e.name = t.name /\ e.held = t.held /\ e.to = t.to /\ e.tgt = t.tgt
      /\ e.committed = t.committed
  BY <1>1, <1>2, Zenon
<1>4. e \in TcpSocket
  BY <1>1, <1>2, Zenon DEF TcpSocket
<1> QED BY <1>3, <1>4, Zenon DEF t

(***************************************************************************)
(* What shutdown leaves of a socket.                                        *)
(***************************************************************************)
LEMMA ShutSocket ==
    ASSUME tcp \in [Socket -> TcpSocket], NEW s \in Socket, shutdown(s)
    PROVE  \/ tcp[s].state = "syn" /\ tcp' = [tcp EXCEPT ![s] = closed(s, "close")]
           \/ \E st \in State :
                 /\ tcp' = [tcp EXCEPT ![s] = [tcp[s] EXCEPT !.state = st]]
                 /\ \/ tcp[s].state = "estab" /\ st = "shut"
                    \/ tcp[s].state = "failed" /\ st = "dead"
           \/ tcp' = tcp
<1>1. CASE tcp[s].state = "syn"
  BY <1>1 DEF shutdown
<1>2. CASE tcp[s].state = "estab"
  <2>1. tcp' = [tcp EXCEPT ![s] = [tcp[s] EXCEPT !.state = "shut"]]
    BY <1>2 DEF shutdown
  <2> QED BY <1>2, <2>1, Zenon DEF State
<1>3. CASE tcp[s].state = "failed"
  <2>1. tcp' = [tcp EXCEPT ![s] = [tcp[s] EXCEPT !.state = "dead"]]
    BY <1>3 DEF shutdown
  <2> QED BY <1>3, <2>1, Zenon DEF State
<1>4. CASE tcp[s].state \notin {"syn", "estab", "failed"}
  BY <1>4 DEF shutdown
<1> QED BY <1>1, <1>2, <1>3, <1>4, Zenon

(***************************************************************************)
(* A step of a call that leaves the sockets alone.                          *)
(***************************************************************************)
LEMMA SocketsCall ==
    ASSUME CallsIInv, SocketsIInv, NEW c \in Call, Only(c), UNCHANGED tcp,
           Connecting(c)' => /\ Connecting(c) \/ Closed(call[c].sock)
                             /\ call'[c].sock = call[c].sock
                             /\ call'[c].tgt = call[c].tgt
                             /\ pc[c] # "idle"
    PROVE  SocketsIInv'
<1>1. ASSUME NEW d \in Call, Connecting(d)'
      PROVE  OwnConnection(call[d].sock, call[d].tgt)'
  <2>1. CASE d = c
    <3>1. call[c].sock \in Socket
      BY <1>1, <2>1, Zenon DEF CallsIInv
    <3> QED BY <1>1, <2>1, <3>1, Zenon DEF SocketsIInv, OwnConnection, Closed
  <2>2. CASE d # c
    <3>1. Connecting(d) /\ call'[d] = call[d]
      BY <1>1, <2>2, Zenon DEF Only, Connecting, Inserted
    <3> QED BY <3>1, ZenonT(60) DEF SocketsIInv, OwnConnection, Closed
  <2> QED BY <2>1, <2>2, Zenon
<1> QED BY <1>1, Zenon DEF SocketsIInv, Closed

(***************************************************************************)
(* What the kernel does to a socket without breaking SocketsIInv: it never  *)
(* commits one, and a connection it makes to the ingress has the target of  *)
(* the calls that are connecting the socket.                                *)
(***************************************************************************)
Grows(s, e) ==
    /\ e.committed # None =>
                      /\ tcp[s].committed = e.committed
                      /\ e.state \notin {"close", "failed", "dead"}
                      /\ e.to = tcp[s].to /\ e.tgt = tcp[s].tgt
    /\ e.state \notin {"close", "failed", "dead"} /\ e.to = "ingress" =>
           \/ ~Closed(s) /\ tcp[s].to = "ingress" /\ e.tgt = tcp[s].tgt
           \/ \A d \in Call : Connecting(d) /\ call[d].sock = s => call[d].tgt = e.tgt

(***************************************************************************)
(* A step that changes one socket.                                          *)
(***************************************************************************)
LEMMA SocketsKernel ==
    ASSUME CallsIInv, SocketsIInv, NEW s \in Socket, NEW e \in TcpSocket, Grows(s, e),
           tcp' = [tcp EXCEPT ![s] = e],
           \A d \in Call : Connecting(d)' => Connecting(d) /\ call'[d].sock = call[d].sock
                                             /\ call'[d].tgt = call[d].tgt
    PROVE  SocketsIInv'
<1>1. /\ tcp' \in [Socket -> TcpSocket] /\ tcp'[s] = e
      /\ \A r \in Socket \ {s} : tcp'[r] = tcp[r]
  BY Zenon DEF SocketsIInv
<1>2. ASSUME NEW d \in Call, Connecting(d)'
      PROVE  OwnConnection(call[d].sock, call[d].tgt)'
  <2>1. /\ Connecting(d) /\ call'[d].sock = call[d].sock /\ call'[d].tgt = call[d].tgt
        /\ call[d].sock \in Socket
    BY <1>2, ZenonT(60) DEF CallsIInv, Connecting, Inserted
  <2>2. OwnConnection(call[d].sock, call[d].tgt)
    BY <2>1, Zenon DEF SocketsIInv
  <2> QED BY <1>1, <2>1, <2>2, ZenonT(60) DEF OwnConnection, Grows, Closed
<1>3. ASSUME NEW r \in Socket, tcp'[r].committed # None
      PROVE  ~Closed(r)' /\ (tcp'[r].to = "ingress" => tcp'[r].tgt = tcp'[r].committed)
  <2>1. tcp[r].committed # None =>
            ~Closed(r) /\ (tcp[r].to = "ingress" => tcp[r].tgt = tcp[r].committed)
    BY Zenon DEF SocketsIInv
  <2> QED BY <1>1, <1>3, <2>1, ZenonT(60) DEF Grows, Closed
<1> QED BY <1>1, <1>2, <1>3, ZenonT(60) DEF SocketsIInv

(***************************************************************************)
(* Steps that end a call, or leave the calls as they are, make no call      *)
(* connect.                                                                 *)
(***************************************************************************)
LEMMA ConnectingBefore ==
    ASSUME CallsIInv, NEW c \in Call, Only(c), pc'[c] \in {"idle", "native"} \/ Stays
    PROVE  \A d \in Call : Connecting(d)' => Connecting(d) /\ call'[d].sock = call[d].sock
                                             /\ call'[d].tgt = call[d].tgt
BY ZenonT(60) DEF Only, Connecting, Inserted, Stays

(***************************************************************************)
(* Each step of a call's task keeps SocketsIInv; only ReadState makes a     *)
(* call connect, of a closed socket, and only Commit commits a connection,  *)
(* its own.                                                                 *)
(***************************************************************************)
LEMMA SocketsTask ==
    ASSUME CallsIInv, LocksIInv, HoldsIInv, WorkersIInv, SocketsIInv, NEW c \in Call, Task(c)
    PROVE  SocketsIInv'
<1>1. ASSUME Only(c), UNCHANGED tcp, pc'[c] \in {"idle", "dispatch", "lock", "state", "native"}
      PROVE  SocketsIInv'
  BY <1>1, SocketsCall, Zenon DEF Connecting, Inserted
<1>2. ASSUME Fail(c), UNCHANGED tcp PROVE SocketsIInv'
  <2>1. Only(c) /\ pc'[c] = "idle" /\ UNCHANGED tcp
    BY <1>2, Failing, OnlyOne, ZenonT(60) DEF Fail, CallsIInv
  <2> QED BY <1>1, <2>1, Zenon
<1>3. ASSUME NEW l \in {"idle", "native"}, pc[c] # "idle", Return(c, l), UNCHANGED tcp
      PROVE  SocketsIInv'
  <2>1. Only(c) /\ pc'[c] = l
    BY <1>3, Returning, Continuing, OnlyOne, Zenon DEF Return, CallsIInv
  <2> QED BY <1>1, <1>3, <2>1, Zenon
<1>4. ASSUME NEW l \in Working, pc[c] # "idle", pc' = [pc EXCEPT ![c] = l],
             UNCHANGED <<call, tcp>>,
             Connecting(c)' => Connecting(c) \/ Closed(call[c].sock)
      PROVE  SocketsIInv'
  <2>1. Only(c)
    BY <1>4, Zenon DEF CallsIInv, Only
  <2> QED BY <1>4, <2>1, SocketsCall, Zenon
<1>5. CASE Dispatch(c)
  <2>1. Only(c) /\ UNCHANGED tcp /\ pc'[c] \in {"idle", "lock", "native"}
    BY <1>5, Zenon DEF Dispatch, Only, Goto, CallsIInv, tableVars, kernel
  <2> QED BY <1>1, <2>1, Zenon
<1>6. CASE Acquire(c)
  <2>1. Only(c) /\ UNCHANGED tcp /\ pc'[c] = "state"
    BY <1>6, Zenon DEF Acquire, Only, CallsIInv, tableVars, kernel
  <2> QED BY <1>1, <2>1, Zenon
<1>7. CASE ReadState(c)
  <2>1. pc[c] = "state" /\ UNCHANGED tcp
    BY <1>7, Zenon DEF ReadState, tableVars, kernel
  <2>2. CASE Closed(call[c].sock) /\ Goto(c, "route")
    BY <1>4, <2>1, <2>2, Zenon DEF Goto, Working
  <2>3. CASE Goto(c, "run")
    <3>1. ~Connecting(c)'
      BY <2>1, <2>3, Zenon DEF Goto, CallsIInv, HoldsIInv, Holds, Connecting, Inserted
    <3> QED BY <1>4, <2>1, <2>3, <3>1, Zenon DEF Goto, Working
  <2> QED BY <1>3, <1>7, <2>1, <2>2, <2>3, Zenon DEF ReadState
<1>8. CASE Route(c)
  <2>1. pc[c] = "route" /\ UNCHANGED tcp /\ Connecting(c)
    BY <1>8, ZenonT(60) DEF Route, kernel, Connecting
  <2>2. CASE Goto(c, "insert")
    BY <1>4, <2>1, <2>2, Zenon DEF Goto, Working
  <2> QED BY <1>3, <1>8, <2>1, <2>2, ZenonT(60) DEF Route
<1>9. CASE InsertPeer(c)
  <2>1. pc[c] = "insert" /\ UNCHANGED tcp /\ Connecting(c)
    BY <1>9, ZenonT(60) DEF InsertPeer, kernel, Connecting
  <2>2. CASE Goto(c, "register")
    BY <1>4, <2>1, <2>2, Zenon DEF Goto, Working
  <2> QED BY <1>2, <1>9, <2>1, <2>2, ZenonT(60) DEF InsertPeer
<1>10. CASE Register(c)
  <2> DEFINE s == call[c].sock
  <2>1. pc[c] = "register" /\ s \in Socket /\ tcp[s] \in TcpSocket
    BY <1>10, Zenon DEF Register, CallsIInv, SocketsIInv
  <2>2. ASSUME NEW p \in prepare(s), NEW r \in Reg,
               pc' = [pc EXCEPT ![c] = "run"], call' = [call EXCEPT ![c].reg = r],
               tcp' = IF tcp[s].name # None THEN tcp
                      ELSE [tcp EXCEPT ![s].name = p, ![s].held = TRUE]
        PROVE  SocketsIInv'
    <3>1. /\ Only(c) /\ pc'[c] = "run"
          /\ call'[c].sock = s /\ call'[c].tgt = call[c].tgt /\ Connecting(c)
      BY <2>1, <2>2, ZenonT(60) DEF CallsIInv, Only, Connecting, Inserted
    <3>2. CASE tcp' = tcp
      BY <2>1, <2>2, <3>1, <3>2, SocketsCall, Zenon
    <3>3. CASE tcp[s].name = None
      <4> DEFINE t == tcp[s]
                 e == [t EXCEPT !.name = p, !.held = TRUE]
      <4>1. tcp' = [tcp EXCEPT ![s] = e]
        BY <2>1, <2>2, <3>3, Zenon DEF SocketsIInv
      <4>2. DOMAIN t = {"state", "name", "held", "to", "tgt", "committed"} /\ t \in TcpSocket
        BY <2>1, Zenon DEF TcpSocket
      <4>3. p \in Port \cup {None}
        BY <2>2, <4>2, Zenon DEF prepare, SourcePorts, TcpSocket
      <4> HIDE DEF t
      <4>4. /\ e.state = t.state /\ e.to = t.to /\ e.tgt = t.tgt /\ e.committed = t.committed
        BY <4>2, Zenon
      <4>5. e \in TcpSocket
        BY <4>2, <4>3, ZenonT(60) DEF TcpSocket
      <4>6. Grows(s, e)
        BY <2>1, <4>4, Zenon DEF Grows, Closed, t, SocketsIInv
      <4>7. \A d \in Call : Connecting(d)' => Connecting(d) /\ call'[d].sock = call[d].sock
                                               /\ call'[d].tgt = call[d].tgt
        BY <3>1, Zenon DEF Only, Connecting, Inserted
      <4> HIDE DEF e
      <4> QED BY <2>1, <2>2, <4>1, <4>5, <4>6, <4>7, SocketsKernel, ZenonT(60)
    <3> QED BY <2>2, <3>2, <3>3, Zenon
  <2> QED BY <1>2, <1>10, <2>2, Zenon DEF Register, tableVars
<1>11. CASE Run(c)
  <2>1. pc[c] = "run" /\ UNCHANGED tcp
    BY <1>11, Zenon DEF Run, kernel
  <2>2. CASE pc' = [pc EXCEPT ![c] = "wait"] /\ UNCHANGED call
    <3>1. Connecting(c)' => Connecting(c)
      BY <2>1, <2>2, Zenon DEF CallsIInv, Connecting, Inserted
    <3> QED BY <1>4, <2>1, <2>2, <3>1, Zenon DEF Working
  <2> QED BY <1>2, <1>11, <2>1, <2>2, Zenon DEF Run, tableVars
<1>12. CASE WaitDone(c)
  <2>1. pc[c] = "wait" /\ UNCHANGED tcp
    BY <1>12, Zenon DEF WaitDone, kernel
  <2>2. CASE call[c].reg # None /\ Goto(c, "commit")
    <3>1. Connecting(c)
      BY <2>1, <2>2, Zenon DEF Connecting, Inserted
    <3> QED BY <1>4, <2>1, <2>2, <3>1, Zenon DEF Goto, Working
  <2> QED BY <1>2, <1>3, <1>12, <2>1, <2>2, Zenon DEF WaitDone, tableVars
<1>13. CASE WaitCancel(c)
  <2>1. /\ pc[c] = "wait" /\ pc' = [pc EXCEPT ![c] = "cancel"] /\ UNCHANGED <<call, tcp>>
    BY <1>13, Zenon DEF WaitCancel, kernel, tableVars
  <2>2. Connecting(c)' => Connecting(c)
    BY <2>1, Zenon DEF CallsIInv, Connecting, Inserted
  <2> QED BY <1>4, <2>1, <2>2, Zenon DEF Working
<1>14. CASE CancelShutdown(c)
  <2> DEFINE s == call[c].sock
             t == tcp[s]
  <2>1. s \in Socket /\ t \in TcpSocket /\ Stays /\ shutdown(s)
    BY <1>14, Zenon DEF CancelShutdown, CallsIInv, SocketsIInv, Stays
  <2>2. ASSUME NEW e \in TcpSocket, Grows(s, e), tcp' = [tcp EXCEPT ![s] = e]
        PROVE  SocketsIInv'
    BY <2>1, <2>2, OnlyOne, ConnectingBefore, SocketsKernel, ZenonT(60)
  <2>3. CASE tcp' = [tcp EXCEPT ![s] = closed(s, "close")]
    <3>1. closed(s, "close") \in TcpSocket /\ Grows(s, closed(s, "close"))
      BY <2>1, ClosedSocket, ZenonT(60) DEF Grows, SocketsIInv, State
    <3> QED BY <2>2, <2>3, <3>1, Zenon
  <2>4. ASSUME NEW st \in State, tcp' = [tcp EXCEPT ![s] = [t EXCEPT !.state = st]],
               \/ t.state = "estab" /\ st = "shut"
               \/ t.state = "failed" /\ st = "dead"
        PROVE  SocketsIInv'
    <3>1. PICK e : e = [t EXCEPT !.state = st]
      BY Zenon
    <3>2. /\ e \in TcpSocket /\ e.state = st /\ e.to = t.to /\ e.tgt = t.tgt
          /\ e.committed = t.committed
      <4>1. tcp \in [Socket -> TcpSocket]
        BY Zenon DEF SocketsIInv
      <4> QED BY <2>1, <3>1, <4>1, StateSocket
    <3>3. t.committed # None => ~Closed(s)
      BY <2>1, Zenon DEF SocketsIInv
    <3>4. Grows(s, e)
      BY <2>4, <3>2, <3>3, ZenonT(60) DEF Grows, Closed
    <3> QED BY <2>2, <2>4, <3>1, <3>2, <3>4, Zenon
  <2>5. CASE tcp' = tcp
    BY <2>1, <2>5, ZenonT(60) DEF Stays, SocketsIInv, OwnConnection, Closed, Connecting, Inserted
  <2> QED BY <2>1, <2>3, <2>4, <2>5, ShutSocket, Zenon DEF SocketsIInv
<1>15. CASE CancelDone(c)
  BY <1>2, <1>15, Zenon DEF CancelDone, kernel
<1>16. CASE Commit(c)
  <2> DEFINE s == call[c].sock
             t == tcp[s]
             v == IF Closed(s) THEN None ELSE call[c].tgt
             e == [t EXCEPT !.committed = v]
  <2>1. s \in Socket /\ t \in TcpSocket /\ pc[c] = "commit" /\ call[c].tgt \in Target
    BY <1>16, Zenon DEF Commit, CallsIInv, SocketsIInv, HoldsIInv, Holds, Unlocked
  <2>2. Only(c) /\ pc'[c] = "idle"
    BY <1>16, OnlyOne, ZenonT(60) DEF Commit, Returns, CallsIInv
  <2>3. tcp' = [tcp EXCEPT ![s] = e]
    BY <1>16, <2>1, Zenon DEF Commit, SocketsIInv
  <2>4. DOMAIN t = {"state", "name", "held", "to", "tgt", "committed"}
    BY <2>1, Zenon DEF TcpSocket
  <2>5. OwnConnection(s, call[c].tgt)
    BY <2>1, ZenonT(60) DEF SocketsIInv, Connecting, Inserted
  <2>6. ASSUME NEW d \in Call \ {c}, Connecting(d)
        PROVE  call[d].sock \in Socket \ {s}
    BY <2>1, <2>6, Exclusive, Zenon DEF Connecting, Inserted, Working, CallsIInv
  <2>7. /\ e.state = t.state /\ e.to = t.to /\ e.tgt = t.tgt /\ e.committed = v
    <3> HIDE DEF t
    <3> QED BY <2>4, Zenon
  <2>8. e \in TcpSocket
    <3>1. v \in Target \cup {None}
      BY <2>1, Zenon
    <3> HIDE DEF t, v
    <3> QED BY <2>1, <3>1, ZenonT(60) DEF TcpSocket
  <2> HIDE DEF e
  <2>9. /\ tcp' \in [Socket -> TcpSocket] /\ tcp'[s] = e
        /\ \A r \in Socket \ {s} : tcp'[r] = tcp[r]
    BY <2>1, <2>3, <2>8, Zenon DEF SocketsIInv
  <2>10. ASSUME NEW r \in Socket, tcp'[r].committed # None
         PROVE  ~Closed(r)' /\ (tcp'[r].to = "ingress" => tcp'[r].tgt = tcp'[r].committed)
    <3>1. CASE r = s
      BY <2>5, <2>7, <2>9, <2>10, <3>1, ZenonT(60) DEF OwnConnection, Closed
    <3>2. CASE r # s
      BY <2>9, <2>10, <3>2, Zenon DEF SocketsIInv, Closed
    <3> QED BY <3>1, <3>2, Zenon
  <2>11. ASSUME NEW d \in Call, Connecting(d)'
         PROVE  OwnConnection(call[d].sock, call[d].tgt)'
    <3>1. d # c /\ Connecting(d) /\ call'[d] = call[d]
      BY <2>2, <2>11, Zenon DEF Only, Connecting, Inserted
    <3>2. /\ OwnConnection(call[d].sock, call[d].tgt)
          /\ tcp'[call[d].sock] = tcp[call[d].sock]
      BY <2>6, <2>9, <3>1, ZenonT(60) DEF SocketsIInv
    <3> QED BY <3>1, <3>2, Zenon DEF OwnConnection, Closed
  <2> QED BY <2>9, <2>10, <2>11, ZenonT(60) DEF SocketsIInv
<1> QED BY <1>5, <1>6, <1>7, <1>8, <1>9, <1>10, <1>11, <1>12, <1>13, <1>14, <1>15, <1>16, Zenon DEF Task

(***************************************************************************)
(* So does each step of the program and of the kernel: the one new          *)
(* connection to the ingress is the worker's, of the call that has the      *)
(* socket's lock.                                                           *)
(***************************************************************************)
LEMMA SocketsNext ==
    ASSUME CallsIInv, LocksIInv, HoldsIInv, WorkersIInv, SocketsIInv, [Next]_vars
    PROVE  SocketsIInv'
<1>1. ASSUME NEW c \in Call, NEW s \in Socket, NEW t \in Target \cup {Unspec}, Connect(c, s, t)
      PROVE  SocketsIInv'
  <2>1. Only(c) /\ UNCHANGED tcp /\ pc'[c] = "dispatch"
    BY <1>1, Zenon DEF Connect, CallsIInv, Only, tableVars, kernel
  <2> QED BY <2>1, SocketsCall, ZenonT(60) DEF Connecting, Inserted
<1>2. ASSUME NEW c \in Call, Only(c), pc'[c] \in {"idle", "native"} \/ Stays,
             NEW s \in Socket, NEW e \in TcpSocket,
             tcp' = [tcp EXCEPT ![s] = e], Grows(s, e)
      PROVE  SocketsIInv'
  BY <1>2, ConnectingBefore, SocketsKernel, Zenon
<1>3. ASSUME NEW c \in Call, Only(c), pc'[c] \in {"idle", "native"}, UNCHANGED tcp
      PROVE  SocketsIInv'
  BY <1>3, SocketsCall, Zenon DEF Connecting, Inserted
<1>4. ASSUME NEW s \in Socket, NEW st \in {"close", "failed", "dead"}
      PROVE  closed(s, st) \in TcpSocket /\ Grows(s, closed(s, st))
  <2>1. st \in State
    BY Zenon DEF State
  <2> QED BY <2>1, ClosedSocket, Zenon DEF Grows, SocketsIInv
<1>5. ASSUME NEW s \in Socket, NEW p \in SourcePorts(s) PROVE p \in Port \cup {None}
  BY Zenon DEF SourcePorts, SocketsIInv, TcpSocket
<1>5a. ASSUME NEW s \in Socket, Closed(s), tcp' = [tcp EXCEPT ![s] = [@ EXCEPT !.state = "close"]]
       PROVE  \E e \in TcpSocket : tcp' = [tcp EXCEPT ![s] = e] /\ Grows(s, e)
  <2> DEFINE t == tcp[s]
             e == [t EXCEPT !.state = "close"]
  <2>1. t \in TcpSocket /\ tcp' = [tcp EXCEPT ![s] = e] /\ t.committed = None
    BY <1>5a, Zenon DEF SocketsIInv
  <2>2. DOMAIN t = {"state", "name", "held", "to", "tgt", "committed"}
    BY <2>1, Zenon DEF TcpSocket
  <2> HIDE DEF t
  <2>3. e \in TcpSocket /\ e.state = "close" /\ e.committed = None
    BY <2>1, <2>2, Zenon DEF TcpSocket, State
  <2> HIDE DEF e
  <2>4. Grows(s, e)
    BY <2>3, Zenon DEF Grows
  <2> QED BY <2>1, <2>3, <2>4, Zenon
<1>6. ASSUME NEW c \in Call, NativeCall(c) PROVE SocketsIInv'
  <2> DEFINE s == call[c].sock
  <2>1. s \in Socket /\ call[c].tgt \in Target \cup {Unspec}
    BY <1>6, Zenon DEF NativeCall, CallsIInv
  <2>2. Only(c) /\ pc'[c] = "idle"
    BY <1>6, OnlyOne, Zenon DEF NativeCall, Returns, CallsIInv
  <2>3. CASE tcp' = [tcp EXCEPT ![s] = closed(s, "close")]
    BY <1>2, <1>4, <2>1, <2>2, <2>3, Zenon
  <2>4. ASSUME NEW p \in SourcePorts(s), call[c].tgt # Unspec,
               tcp' = [tcp EXCEPT ![s] = [state |-> "estab", name |-> p, held |-> TRUE,
                                          to |-> "native", tgt |-> call[c].tgt,
                                          committed |-> None]]
        PROVE  SocketsIInv'
    <3> DEFINE e == [state |-> "estab", name |-> p, held |-> TRUE, to |-> "native",
                     tgt |-> call[c].tgt, committed |-> None]
    <3>1. e \in TcpSocket /\ Grows(s, e)
      BY <1>5, <2>1, <2>4, Zenon DEF TcpSocket, State, Grows
    <3> HIDE DEF e
    <3> QED BY <1>2, <2>1, <2>2, <2>4, <3>1, Zenon DEF e
  <2>5. ASSUME NEW p \in SourcePorts(s),
               tcp' = [tcp EXCEPT ![s] = [closed(s, "close") EXCEPT !.name = p]]
        PROVE  SocketsIInv'
    <3> DEFINE t == closed(s, "close")
               e == [t EXCEPT !.name = p]
    <3>1. t \in TcpSocket /\ t.state = "close" /\ t.committed = None
      BY <2>1, ClosedSocket, ZenonT(60) DEF SocketsIInv, State
    <3>2. DOMAIN t = {"state", "name", "held", "to", "tgt", "committed"}
      BY <3>1, Zenon DEF TcpSocket
    <3>3. tcp' = [tcp EXCEPT ![s] = e]
      BY <2>5, Zenon
    <3> HIDE DEF t
    <3>4. e \in TcpSocket
      BY <1>5, <2>1, <3>1, Zenon DEF TcpSocket
    <3>5. e.state = "close" /\ e.committed = None
      BY <3>1, <3>2, Zenon
    <3> HIDE DEF e
    <3>6. Grows(s, e)
      BY <3>5, ZenonT(60) DEF Grows
    <3> QED BY <1>2, <2>1, <2>2, <3>3, <3>4, <3>6, ZenonT(60)
  <2>6. CASE UNCHANGED tcp
    BY <1>3, <2>1, <2>2, <2>6, Zenon
  <2>7. CASE Closed(s) /\ tcp' = [tcp EXCEPT ![s] = [@ EXCEPT !.state = "close"]]
    <3>1. \E e \in TcpSocket : tcp' = [tcp EXCEPT ![s] = e] /\ Grows(s, e)
      BY <2>1, <2>7, <1>5a, Zenon
    <3> QED BY <1>2, <2>1, <2>2, <3>1, Zenon
  <2> QED BY <1>6, <2>3, <2>4, <2>5, <2>6, <2>7, ZenonT(60) DEF NativeCall, Closed
<1>7. ASSUME NEW c \in Call, WorkerEnter(c) PROVE SocketsIInv'
  <2> DEFINE s == call[c].sock
  <2>1. /\ s \in Socket /\ call[c].tgt \in Target /\ pc[c] \in {"wait", "cancel"}
        /\ Stays
    BY <1>7, Zenon DEF WorkerEnter, WorkersIInv, CallsIInv, HoldsIInv, Holds, Unlocked, Stays
  <2>2. Only(c)
    BY <2>1, OnlyOne, Zenon
  <2>3. CASE tcp[s].state = "failed" /\ tcp' = [tcp EXCEPT ![s].state = "close"]
    <3>1. \E e \in TcpSocket : tcp' = [tcp EXCEPT ![s] = e] /\ Grows(s, e)
      BY <2>1, <2>3, <1>5a, Zenon DEF Closed
    <3> QED BY <1>2, <2>1, <2>2, <3>1, Zenon
  <2>4. ASSUME NEW p \in SourcePorts(s),
               tcp' = [tcp EXCEPT ![s] = [state |-> "syn", name |-> p, held |-> TRUE,
                                          to |-> "ingress", tgt |-> call[c].tgt,
                                          committed |-> None]]
        PROVE  SocketsIInv'
    <3> DEFINE e == [state |-> "syn", name |-> p, held |-> TRUE, to |-> "ingress",
                     tgt |-> call[c].tgt, committed |-> None]
    <3>1. \A d \in Call : Connecting(d) /\ call[d].sock = s => d = c
      BY <2>1, Exclusive, Zenon DEF Connecting, Inserted, Working
    <3>2. e \in TcpSocket /\ e.committed = None /\ e.tgt = call[c].tgt
      BY <1>5, <2>1, <2>4, ZenonT(60) DEF TcpSocket, State
    <3>3. tcp' = [tcp EXCEPT ![s] = e]
      BY <2>4, Zenon
    <3> HIDE DEF e
    <3>4. Grows(s, e)
      BY <3>1, <3>2, ZenonT(60) DEF Grows
    <3> QED BY <1>2, <2>1, <2>2, <3>2, <3>3, <3>4, ZenonT(60)
  <2>5. CASE UNCHANGED tcp
    BY <2>1, <2>5, ZenonT(60) DEF Stays, SocketsIInv, OwnConnection, Closed, Connecting, Inserted
  <2> QED BY <1>7, <2>3, <2>4, <2>5, ZenonT(60) DEF WorkerEnter
<1>8. ASSUME UNCHANGED tcp, Stays PROVE SocketsIInv'
  BY <1>8, Zenon DEF Stays, SocketsIInv, OwnConnection, Closed, Connecting, Inserted
<1>9. ASSUME NEW s \in Socket, NEW e \in TcpSocket, tcp' = [tcp EXCEPT ![s] = e],
             Stays, Grows(s, e)
      PROVE  SocketsIInv'
  <2>1. \A d \in Call : Connecting(d)' => Connecting(d) /\ call'[d].sock = call[d].sock
                                          /\ call'[d].tgt = call[d].tgt
    BY <1>9, Zenon DEF Stays, Connecting, Inserted
  <2> QED BY <1>9, <2>1, SocketsKernel, ZenonT(60)
<1>10. ASSUME NEW s \in Socket, Handshake(s) PROVE SocketsIInv'
  <2> DEFINE t == tcp[s]
             e == [t EXCEPT !.state = "estab"]
  <2>1. t \in TcpSocket /\ t.state = "syn" /\ Stays
    BY <1>10, Zenon DEF Handshake, tableVars, Stays, SocketsIInv
  <2>2. tcp' = [tcp EXCEPT ![s] = e]
    BY <1>10, Zenon DEF Handshake, SocketsIInv
  <2>3. DOMAIN t = {"state", "name", "held", "to", "tgt", "committed"}
    BY <2>1, Zenon DEF TcpSocket
  <2>4. ~Closed(s)
    BY <2>1, Zenon DEF Closed
  <2> HIDE DEF t
  <2>5. /\ e.state = "estab" /\ e.to = t.to /\ e.tgt = t.tgt /\ e.committed = t.committed
        /\ e \in TcpSocket
    BY <2>1, <2>3, Zenon DEF TcpSocket, State
  <2>6. Grows(s, e)
    BY <2>4, <2>5, Zenon DEF Grows, t
  <2> HIDE DEF e
  <2> QED BY <1>9, <2>1, <2>2, <2>5, <2>6, Zenon
<1>11. ASSUME NEW s \in Socket, ConnectionLost(s) PROVE SocketsIInv'
  <2>1. Stays
    BY <1>11, Zenon DEF ConnectionLost, Stays
  <2>2. \E st \in {"close", "failed", "dead"} : tcp' = [tcp EXCEPT ![s] = closed(s, st)]
    BY <1>11, ZenonT(60) DEF ConnectionLost
  <2> QED BY <1>4, <1>9, <2>1, <2>2, Zenon
<1>12. ASSUME NEW c \in Call, WorkerReturn(c) PROVE SocketsIInv'
  <2> DEFINE s == call[c].sock
  <2>1. s \in Socket /\ Stays /\ Only(c)
    BY <1>12, OnlyOne, Zenon DEF WorkerReturn, WorkersIInv, CallsIInv, Stays
  <2>2. CASE UNCHANGED tcp
    BY <1>8, <2>1, <2>2, Zenon
  <2>3. CASE Closed(s) /\ tcp' = [tcp EXCEPT ![s].state = "close"]
    <3>1. \E e \in TcpSocket : tcp' = [tcp EXCEPT ![s] = e] /\ Grows(s, e)
      BY <2>1, <2>3, <1>5a, Zenon
    <3> QED BY <1>2, <2>1, <3>1, Zenon
  <2> QED BY <1>12, <2>2, <2>3, Zenon DEF WorkerReturn
<1>12a. ASSUME NEW c \in Call, WorkerStart(c) \/ WorkerFinish(c) PROVE SocketsIInv'
  BY <1>8, <1>12a, Zenon DEF WorkerStart, WorkerFinish, Stays, kernel
<1>13. CASE Accept
  BY <1>8, <1>13, Zenon DEF Accept, Stays, tableVars
<1>14. ASSUME NEW r \in Reg, RelayAccept(r) \/ RelayConnected(r) PROVE SocketsIInv'
  BY <1>8, <1>14, Zenon DEF RelayAccept, RelayConnected, Stays, tableVars, kernel
<1>15. CASE Tick \/ Snapshot
  BY <1>8, <1>15, Zenon DEF Tick, Snapshot, Stays, kernel
<1>16. CASE UNCHANGED vars
  BY <1>8, <1>16, Zenon DEF vars, Stays
<1> QED BY <1>1, <1>6, <1>7, <1>10, <1>11, <1>12, <1>12a, <1>13, <1>14, <1>15, <1>16, SocketsTask, ZenonT(60) DEF Next

(***************************************************************************)
(* The four invariants together are inductive.                              *)
(***************************************************************************)
ConnectsIInv == CallsIInv /\ LocksIInv /\ HoldsIInv /\ WorkersIInv /\ SocketsIInv

(***************************************************************************)
(* connect_tcp works on a socket under its lock, waits for its worker, and  *)
(* commits no connection but its own.                                       *)
(***************************************************************************)
LEMMA ConnectsInvariant == Spec => []ConnectsIInv
<1>1. Init => ConnectsIInv
  <2> SUFFICES ASSUME Init PROVE ConnectsIInv
    BY Zenon
  <2>1. CallsIInv /\ WorkersIInv
    BY Zenon DEF Init, CallsIInv, WorkersIInv, Worker, NoCall
  <2>2. HoldsIInv /\ LocksIInv
    BY LocksStart, Zenon DEF Init, HoldsIInv, Holds, LocksInit, NoCall, Unlocked, Working
  <2>3. tcp \in [Socket -> TcpSocket] /\ \A s \in Socket : tcp[s].committed = None
    BY TcpAssumption DEF Init, TcpSocket, State
  <2>4. SocketsIInv
    BY <2>3, Zenon DEF Init, SocketsIInv, Connecting, Inserted
  <2> QED BY <2>1, <2>2, <2>4, Zenon DEF ConnectsIInv
<1>2. ConnectsIInv /\ [Next]_vars => ConnectsIInv'
  <2> SUFFICES ASSUME ConnectsIInv, [Next]_vars PROVE ConnectsIInv'
    BY Zenon
  <2>1. CallsIInv' /\ [LocksNext]_lockVars
    BY LockedNext, Zenon DEF Locked, ConnectsIInv
  <2>2. LocksIInv'
    BY <2>1, LocksStep, Zenon DEF ConnectsIInv
  <2> QED BY <2>1, <2>2, HoldsNext, WorkersNext, SocketsNext, Zenon DEF ConnectsIInv
<1> QED BY <1>1, <1>2, PTL DEF Spec
===============================================================================
