---------------------------- MODULE TcpTableProofs ----------------------------
(***************************************************************************)
(* Proofs about the peer table in the whole composition: connects, relays,  *)
(* workers and cleanup use it as PeerTable says, so that what               *)
(* PeerTableProofs shows of it holds there too: getpeername of a relayed    *)
(* socket reports the destination its connect asked for.                    *)
(***************************************************************************)
EXTENDS TcpConnectProofs, TcpTable

(***************************************************************************)
(* The connect between insert and commit of a socket is the one call that   *)
(* is there, and its target is the one that PeerTable sees.                 *)
(***************************************************************************)
LEMMA Busy ==
    ConnectsIInv =>
        /\ DOMAIN busyOf = Socket
        /\ \A c \in Call : Inserted(c) => /\ call[c].sock \in Socket /\ call[c].tgt \in Target
                                          /\ busyOf[call[c].sock] = call[c].tgt
        /\ \A s \in Socket : busyOf[s] # None =>
               \E c \in Call : Inserted(c) /\ call[c].sock = s /\ busyOf[s] = call[c].tgt
<1> SUFFICES ASSUME ConnectsIInv
             PROVE  /\ \A c \in Call : Inserted(c) =>
                           /\ call[c].sock \in Socket /\ call[c].tgt \in Target
                           /\ busyOf[call[c].sock] = call[c].tgt
                    /\ \A s \in Socket : busyOf[s] # None =>
                           \E c \in Call : /\ Inserted(c) /\ call[c].sock = s
                                           /\ busyOf[s] = call[c].tgt
  BY Zenon DEF busyOf
<1> DEFINE mine(s) == {c \in Call : Inserted(c) /\ call[c].sock = s}
<1>1. \A s \in Socket : busyOf[s] = IF mine(s) = {} THEN None
                                    ELSE call[CHOOSE c \in mine(s) : TRUE].tgt
  BY Zenon DEF busyOf
<1>2. \A s : mine(s) # {} => (CHOOSE c \in mine(s) : TRUE) \in mine(s)
  BY Zenon
<1>3. ASSUME NEW c \in Call, Inserted(c)
      PROVE  /\ call[c].sock \in Socket /\ call[c].tgt \in Target
             /\ busyOf[call[c].sock] = call[c].tgt
  <2>1. call[c].sock \in Socket /\ call[c].tgt \in Target /\ pc[c] \in Working
    BY <1>3, Zenon DEF Inserted, ConnectsIInv, CallsIInv, HoldsIInv, Holds, Unlocked, Working
  <2>2. c \in mine(call[c].sock)
    BY <1>3, Zenon
  <2>3. \A d \in mine(call[c].sock) : d = c
    BY <2>1, Exclusive, Zenon DEF Inserted, Working, ConnectsIInv
  <2> HIDE DEF mine
  <2> QED BY <1>1, <1>2, <2>1, <2>2, <2>3, Zenon
<1>4. ASSUME NEW s \in Socket, busyOf[s] # None
      PROVE  \E c \in Call : Inserted(c) /\ call[c].sock = s /\ busyOf[s] = call[c].tgt
  <2>1. PICK c : c \in mine(s) /\ busyOf[s] = call[c].tgt
    <3> HIDE DEF mine
    <3> QED BY <1>1, <1>2, <1>4, Zenon
  <2> QED BY <2>1, Zenon
<1> QED BY <1>3, <1>4, Zenon

(***************************************************************************)
(* The same after a step.                                                   *)
(***************************************************************************)
LEMMA BusyNext ==
    ASSUME ConnectsIInv'
    PROVE  /\ DOMAIN busyOf' = Socket
           /\ \A c \in Call : Inserted(c)' => /\ call'[c].sock \in Socket
                                              /\ call'[c].tgt \in Target
                                              /\ busyOf'[call'[c].sock] = call'[c].tgt
           /\ \A s \in Socket : busyOf'[s] # None =>
                  \E c \in Call : Inserted(c)' /\ call'[c].sock = s /\ busyOf'[s] = call'[c].tgt
<1>1. (ConnectsIInv =>
        /\ DOMAIN busyOf = Socket
        /\ \A c \in Call : Inserted(c) => /\ call[c].sock \in Socket /\ call[c].tgt \in Target
                                          /\ busyOf[call[c].sock] = call[c].tgt
        /\ \A s \in Socket : busyOf[s] # None =>
               \E c \in Call : Inserted(c) /\ call[c].sock = s /\ busyOf[s] = call[c].tgt)'
  BY Busy, PTL
<1> QED BY <1>1, Zenon

(***************************************************************************)
(* busyOf changes only with the calls between insert and commit ...         *)
(***************************************************************************)
LEMMA BusySame ==
    ASSUME ConnectsIInv, ConnectsIInv',
           \A d \in Call : /\ Inserted(d)' <=> Inserted(d)
                           /\ Inserted(d) => call'[d].sock = call[d].sock
                                             /\ call'[d].tgt = call[d].tgt
    PROVE  busyOf' = busyOf
<1>1. ASSUME NEW s \in Socket PROVE busyOf'[s] = busyOf[s]
  BY Busy, BusyNext, TableAssumption DEF Table!PeersAssumption
<1> QED BY <1>1, Busy, BusyNext DEF busyOf

(***************************************************************************)
(* ... by the insert of one ...                                             *)
(***************************************************************************)
LEMMA BusySet ==
    ASSUME ConnectsIInv, ConnectsIInv', NEW c \in Call, Only(c), pc[c] \in Working,
           ~Inserted(c), Inserted(c)', call'[c] = call[c]
    PROVE  /\ busyOf' = [busyOf EXCEPT ![call[c].sock] = call[c].tgt]
           /\ busyOf[call[c].sock] = None
<1> DEFINE s == call[c].sock
<1>1. \A d \in Call \ {c} : /\ Inserted(d)' <=> Inserted(d)
                            /\ call'[d].sock = call[d].sock /\ call'[d].tgt = call[d].tgt
  BY Zenon DEF Only, Inserted
<1>2. s \in Socket /\ busyOf'[s] = call[c].tgt
  BY BusyNext, Zenon
<1>3. \A d \in Call : Inserted(d) => call[d].sock # s
  BY Exclusive, Zenon DEF Inserted, Working, ConnectsIInv
<1>4. busyOf[s] = None
  BY <1>2, <1>3, Busy, Zenon
<1>5. ASSUME NEW r \in Socket \ {s} PROVE busyOf'[r] = busyOf[r]
  BY <1>1, Busy, BusyNext, TableAssumption DEF Table!PeersAssumption
<1>6. /\ busyOf = [r \in Socket |-> busyOf[r]]
      /\ busyOf' = [r \in Socket |-> busyOf'[r]]
  BY DEF busyOf
<1> QED BY <1>2, <1>4, <1>5, <1>6, Zenon

(***************************************************************************)
(* ... and by its commit or rollback.                                       *)
(***************************************************************************)
LEMMA BusyClear ==
    ASSUME ConnectsIInv, ConnectsIInv', NEW c \in Call, Only(c), Inserted(c), ~Inserted(c)'
    PROVE  /\ busyOf' = [busyOf EXCEPT ![call[c].sock] = None]
           /\ busyOf[call[c].sock] = call[c].tgt /\ call[c].sock \in Socket
           /\ call[c].tgt \in Target
<1> DEFINE s == call[c].sock
<1>1. \A d \in Call \ {c} : /\ Inserted(d)' <=> Inserted(d)
                            /\ call'[d].sock = call[d].sock /\ call'[d].tgt = call[d].tgt
  BY Zenon DEF Only, Inserted
<1>2. s \in Socket /\ busyOf[s] = call[c].tgt /\ call[c].tgt \in Target
  BY Busy, Zenon
<1>3. \A d \in Call \ {c} : Inserted(d) => call[d].sock # s
  BY Exclusive, ZenonT(60) DEF Inserted, Working, ConnectsIInv
<1>4. busyOf'[s] = None
  BY <1>1, <1>2, <1>3, BusyNext
<1>5. ASSUME NEW r \in Socket \ {s} PROVE busyOf'[r] = busyOf[r]
  BY <1>1, Busy, BusyNext, TableAssumption DEF Table!PeersAssumption
<1>6. /\ busyOf = [r \in Socket |-> busyOf[r]]
      /\ busyOf' = [r \in Socket |-> busyOf'[r]]
  BY DEF busyOf
<1> QED BY <1>2, <1>4, <1>5, <1>6, Zenon

(***************************************************************************)
(* What one step of the program is to PeerTable.                            *)
(***************************************************************************)
TableStep == Abstract!Next \/ UNCHANGED <<peers, snapshot, linkOf, wantOf, busyOf>>

(***************************************************************************)
(* The tick and the dump work on the table as PeerTable says, with the      *)
(* kernel's sockets in the place of links.                                  *)
(***************************************************************************)
LEMMA TableClean ==
    ASSUME ConnectsIInv, ConnectsIInv', UNCHANGED <<pc, call, tcp>>,
           \/ Table!SnapshotStart \/ Table!Retain \/ Table!SnapshotFail
           \/ \E s \in Socket : Table!SnapshotVisit(s, Closed(s))
    PROVE  TableStep
<1>1. busyOf' = busyOf
  BY BusySame, Zenon DEF Inserted
<1>2. linkOf' = linkOf /\ wantOf' = wantOf
  BY Zenon DEF linkOf, wantOf, Closed
<1>3. CASE Table!SnapshotStart
  <2>1. Abstract!SnapshotStart
    BY <1>3, Zenon DEF Table!SnapshotStart, Abstract!SnapshotStart, Table!Aged, Abstract!Aged
  <2> QED BY <1>1, <1>2, <2>1, Zenon DEF TableStep, Abstract!Next
<1>4. CASE Table!Retain
  <2>1. Abstract!Retain
    BY <1>4, Zenon DEF Table!Retain, Abstract!Retain, Table!retain, Abstract!retain
  <2> QED BY <1>1, <1>2, <2>1, Zenon DEF TableStep, Abstract!Next
<1>5. CASE Table!SnapshotFail
  <2>1. Abstract!SnapshotFail
    BY <1>5, Zenon DEF Table!SnapshotFail, Abstract!SnapshotFail
  <2> QED BY <1>1, <1>2, <2>1, Zenon DEF TableStep, Abstract!Next
<1>6. ASSUME NEW s \in Socket, Table!SnapshotVisit(s, Closed(s))
      PROVE  TableStep
  <2>1. Closed(s) => linkOf[s] = "down"
    BY Zenon DEF linkOf
  <2>2. Abstract!SnapshotVisit(s, linkOf[s] = "down")
    BY <1>6, <2>1, Zenon DEF Table!SnapshotVisit, Abstract!SnapshotVisit
  <2> QED BY <1>1, <1>2, <2>2, Zenon DEF TableStep, Abstract!Next
<1> QED BY <1>3, <1>4, <1>5, <1>6, Zenon

(***************************************************************************)
(* Steps that leave the table, and every socket up or down, as they are.    *)
(***************************************************************************)
LEMMA TableStutter ==
    ASSUME ConnectsIInv, ConnectsIInv', UNCHANGED tcp, UNCHANGED tableVars,
           \A d \in Call : /\ Inserted(d)' <=> Inserted(d)
                           /\ Inserted(d) => call'[d].sock = call[d].sock
                                             /\ call'[d].tgt = call[d].tgt
    PROVE  TableStep
<1>1. busyOf' = busyOf
  BY BusySame, Zenon
<1>2. linkOf' = linkOf /\ wantOf' = wantOf
  BY Zenon DEF linkOf, wantOf, Closed
<1> QED BY <1>1, <1>2, Zenon DEF TableStep, tableVars

(***************************************************************************)
(* The kernel moves a socket up or down, or neither.                        *)
(***************************************************************************)
LEMMA TableKernel ==
    ASSUME ConnectsIInv, ConnectsIInv', NEW s \in Socket, NEW e \in TcpSocket,
           tcp' = [tcp EXCEPT ![s] = e], UNCHANGED tableVars,
           e.committed # None => e.committed = tcp[s].committed,
           e.state \notin {"close", "failed", "dead"} /\ ~Closed(s) => e.committed = tcp[s].committed,
           \A d \in Call : /\ Inserted(d)' <=> Inserted(d)
                           /\ Inserted(d) => call'[d].sock = call[d].sock
                                             /\ call'[d].tgt = call[d].tgt
    PROVE  TableStep
<1>1. busyOf' = busyOf
  BY BusySame, Zenon
<1>2. /\ tcp'[s] = e /\ \A r \in Socket \ {s} : tcp'[r] = tcp[r]
  BY ZenonT(60) DEF ConnectsIInv, SocketsIInv
<1>3. \A r \in Socket \ {s} : linkOf'[r] = linkOf[r]
  BY <1>2, Zenon DEF linkOf, Closed
<1>4. (Closed(s) => tcp[s].committed = None) /\ (Closed(s)' => tcp'[s].committed = None)
  BY Zenon DEF ConnectsIInv, SocketsIInv
<1>5. /\ linkOf = [r \in Socket |-> linkOf[r]] /\ linkOf' = [r \in Socket |-> linkOf'[r]]
      /\ wantOf = [r \in Socket |-> wantOf[r]] /\ wantOf' = [r \in Socket |-> wantOf'[r]]
  BY DEF linkOf, wantOf
<1>5a. /\ \A r \in Socket \ {s} : wantOf'[r] = wantOf[r]
       /\ wantOf[s] = tcp[s].committed /\ wantOf'[s] = tcp'[s].committed
  BY <1>2 DEF wantOf
<1>6. CASE linkOf'[s] = linkOf[s]
  <2>1. linkOf' = linkOf
    BY <1>3, <1>5, <1>6, Zenon
  <2>2. wantOf'[s] = wantOf[s]
    BY <1>2, <1>4, <1>5a, <1>6, Zenon DEF linkOf, Closed
  <2>3. wantOf' = wantOf
    BY <1>5, <1>5a, <2>2, Zenon
  <2> QED BY <1>1, <2>1, <2>3, Zenon DEF TableStep, tableVars
<1>7. CASE linkOf[s] = "down" /\ linkOf'[s] = "up"
  <2>1. wantOf'[s] = wantOf[s]
    BY <1>4, <1>5a, <1>7, Zenon DEF linkOf
  <2>2. wantOf' = wantOf
    BY <1>5, <1>5a, <2>1, Zenon
  <2>3. Abstract!Up(s)
    BY <1>1, <1>3, <1>5, <1>7, <2>2, Zenon DEF Abstract!Up, tableVars
  <2> QED BY <2>3, Zenon DEF TableStep, Abstract!Next
<1>8. CASE linkOf[s] # "down" /\ linkOf'[s] = "down"
  <2>1. wantOf'[s] = None
    BY <1>4, <1>5a, <1>8, Zenon DEF linkOf
  <2>2. wantOf' = [wantOf EXCEPT ![s] = None]
    BY <1>5, <1>5a, <2>1, Zenon
  <2>3. Abstract!Down(s)
    BY <1>1, <1>3, <1>5, <1>8, <2>2, Zenon DEF Abstract!Down, tableVars
  <2> QED BY <2>3, Zenon DEF TableStep, Abstract!Next
<1> QED BY <1>2, <1>4, <1>6, <1>7, <1>8, Zenon DEF linkOf, Closed

(***************************************************************************)
(* A connect that fails rolls its entry back if it had inserted it, and     *)
(* only then.                                                               *)
(***************************************************************************)
LEMMA TableFail ==
    ASSUME ConnectsIInv, ConnectsIInv', NEW c \in Call, Fail(c), UNCHANGED tcp
    PROVE  TableStep
<1>1. Only(c) /\ pc'[c] = "idle" /\ UNCHANGED snapshot
  BY Failing, OnlyOne, ZenonT(60) DEF Fail, CallsIInv, ConnectsIInv
<1>2. linkOf' = linkOf /\ wantOf' = wantOf /\ ~Inserted(c)'
  BY <1>1, Zenon DEF linkOf, wantOf, Closed, Inserted
<1>3. CASE Inserted(c)
  <2>1. /\ busyOf' = [busyOf EXCEPT ![call[c].sock] = None] /\ busyOf[call[c].sock] # None
        /\ call[c].sock \in Socket
    BY <1>1, <1>2, <1>3, BusyClear, TableAssumption, Zenon DEF Table!PeersAssumption
  <2>2. peers' = Table!remove(peers, call[c].sock)
    BY <1>3, Zenon DEF Fail, RollsBackPeer
  <2>3. Abstract!Rollback(call[c].sock)
    BY <1>1, <1>2, <2>1, <2>2, Zenon DEF Abstract!Rollback, Abstract!remove, Table!remove
  <2> QED BY <2>1, <2>3, Zenon DEF TableStep, Abstract!Next
<1>4. CASE ~Inserted(c)
  <2>1. UNCHANGED tableVars
    BY <1>4, Zenon DEF Fail, RollsBackPeer, tableVars
  <2>2. \A d \in Call : /\ Inserted(d)' <=> Inserted(d)
                        /\ Inserted(d) => call'[d].sock = call[d].sock
                                          /\ call'[d].tgt = call[d].tgt
    BY <1>1, <1>2, <1>4, Zenon DEF Only, Inserted
  <2> QED BY <2>1, <2>2, TableStutter, Zenon
<1> QED BY <1>3, <1>4, Zenon

(***************************************************************************)
(* The call that moves is not between insert and commit, or stays there.    *)
(***************************************************************************)
LEMMA TableMove ==
    ASSUME ConnectsIInv, ConnectsIInv', NEW c \in Call, Only(c), UNCHANGED tcp,
           UNCHANGED tableVars, Inserted(c)' <=> Inserted(c),
           Inserted(c) => call'[c].sock = call[c].sock /\ call'[c].tgt = call[c].tgt
    PROVE  TableStep
<1>1. \A d \in Call : /\ Inserted(d)' <=> Inserted(d)
                      /\ Inserted(d) => call'[d].sock = call[d].sock
                                        /\ call'[d].tgt = call[d].tgt
  BY ZenonT(60) DEF Only, Inserted
<1> QED BY <1>1, TableStutter, Zenon

(***************************************************************************)
(* Each step of a call's task is a step of PeerTable or none: Route forgets *)
(* the entry, InsertPeer inserts one, Commit commits it and every failure   *)
(* after the insert rolls it back (tcp.rs:29-35, 74, 98-125).               *)
(***************************************************************************)
LEMMA TableTask ==
    ASSUME ConnectsIInv, ConnectsIInv', NEW c \in Call, Task(c)
    PROVE  TableStep
<1> DEFINE s == call[c].sock
<1>0. CallsIInv /\ Holds(c) /\ tcp \in [Socket -> TcpSocket]
  BY Zenon DEF ConnectsIInv, HoldsIInv, SocketsIInv
<1>1. ASSUME NEW l \in {"idle", "native"}, Return(c, l), pc[c] # "idle", ~Inserted(c),
             UNCHANGED <<tcp, tableVars>>
      PROVE  TableStep
  <2>1. Only(c) /\ pc'[c] = l
    BY <1>0, <1>1, Returning, Continuing, OnlyOne, Zenon DEF Return, CallsIInv
  <2> QED BY <1>1, <2>1, TableMove, Zenon DEF Inserted
<1>2. ASSUME NEW l \in Working, pc[c] # "idle", pc' = [pc EXCEPT ![c] = l],
             UNCHANGED <<call, tcp, tableVars>>, Inserted(c)' <=> Inserted(c)
      PROVE  TableStep
  <2>1. Only(c)
    BY <1>0, <1>2, Zenon DEF CallsIInv, Only
  <2> QED BY <1>2, <2>1, TableMove, Zenon
<1>3. CASE Dispatch(c)
  <2>1. /\ Only(c) /\ UNCHANGED tcp /\ UNCHANGED tableVars
        /\ pc[c] = "dispatch" /\ pc'[c] \in {"idle", "lock", "native"}
    BY <1>0, <1>3, Zenon DEF Dispatch, Only, Goto, CallsIInv, tableVars, kernel
  <2> QED BY <2>1, TableMove, Zenon DEF Inserted
<1>4. CASE Acquire(c)
  <2>1. /\ Only(c) /\ UNCHANGED tcp /\ UNCHANGED tableVars
        /\ pc[c] = "lock" /\ pc'[c] = "state"
    BY <1>0, <1>4, Zenon DEF Acquire, Only, CallsIInv, tableVars, kernel
  <2> QED BY <2>1, TableMove, Zenon DEF Inserted
<1>5. CASE ReadState(c)
  <2>1. /\ pc[c] = "state" /\ UNCHANGED <<tcp, tableVars>> /\ ~Inserted(c) /\ call[c].reg = None
    BY <1>0, <1>5, Zenon DEF ReadState, kernel, Inserted, Holds
  <2>2. ASSUME NEW l \in {"route", "run"}, Goto(c, l) PROVE TableStep
    <3>1. ~Inserted(c)' /\ pc' = [pc EXCEPT ![c] = l] /\ UNCHANGED call
      BY <1>0, <2>1, <2>2, Zenon DEF Goto, Inserted, CallsIInv
    <3> QED BY <1>2, <2>1, <3>1, ZenonT(60) DEF Working
  <2> QED BY <1>1, <1>5, <2>1, <2>2, Zenon DEF ReadState
<1>6. CASE Route(c)
  <2>1. /\ pc[c] = "route" /\ UNCHANGED tcp /\ UNCHANGED snapshot /\ s \in Socket
        /\ peers' = Table!remove(peers, s)
    BY <1>0, <1>6, Zenon DEF Route, kernel, CallsIInv
  <2>2. Only(c) /\ pc'[c] \in {"idle", "native", "insert"}
    BY <1>0, <1>6, <2>1, Returning, Continuing, OnlyOne, ZenonT(60) DEF Route, Return, Goto, CallsIInv, Only
  <2>3. busyOf' = busyOf
    <3>1. \A d \in Call : /\ Inserted(d)' <=> Inserted(d)
                          /\ Inserted(d) => call'[d].sock = call[d].sock
                                            /\ call'[d].tgt = call[d].tgt
      BY <2>1, <2>2, Zenon DEF Only, Inserted
    <3> QED BY <3>1, BusySame, ZenonT(60)
  <2>4. \A d \in Call : Inserted(d) => call[d].sock # s
    BY <2>1, Exclusive, Zenon DEF Inserted, Working, ConnectsIInv
  <2>5. busyOf[s] = None
    BY <2>1, <2>4, Busy, Zenon
  <2>6. tcp[s].committed = None
    BY <2>1, Zenon DEF ConnectsIInv, SocketsIInv, Connecting, OwnConnection
  <2>7. linkOf' = linkOf /\ wantOf' = wantOf /\ linkOf[s] # "relayed"
    BY <2>1, <2>6, Zenon DEF linkOf, wantOf, Closed
  <2>8. Abstract!Forget(s)
    BY <2>1, <2>3, <2>5, <2>7, ZenonT(60) DEF Abstract!Forget, Abstract!remove, Table!remove
  <2> QED BY <2>1, <2>8, Zenon DEF TableStep, Abstract!Next
<1>7. CASE InsertPeer(c) /\ ~Fail(c)
  <2>1. /\ pc[c] = "insert" /\ UNCHANGED tcp /\ UNCHANGED snapshot
        /\ peers' = Table!insert(peers, s, call[c].tgt) /\ Goto(c, "register")
    BY <1>7, ZenonT(60) DEF InsertPeer, kernel
  <2>2. /\ s \in Socket /\ call[c].tgt \in Target
        /\ Only(c) /\ call'[c] = call[c] /\ pc'[c] = "register"
    BY <1>0, <2>1, Zenon DEF Goto, CallsIInv, Only, Holds, Unlocked
  <2>3. busyOf' = [busyOf EXCEPT ![s] = call[c].tgt] /\ busyOf[s] = None
    BY <2>1, <2>2, BusySet, ZenonT(60) DEF Inserted, Working
  <2>4. tcp[s].committed = None
    BY <2>1, SMTT(60) DEF ConnectsIInv, SocketsIInv, Connecting, OwnConnection
  <2>5. linkOf' = linkOf /\ wantOf' = wantOf /\ linkOf[s] # "relayed"
    BY <2>1, <2>2, <2>4, ZenonT(60) DEF linkOf, wantOf, Closed
  <2>6. Abstract!Insert(s, call[c].tgt)
    BY <2>1, <2>3, <2>5, ZenonT(60) DEF Abstract!Insert, Abstract!insert, Table!insert
  <2> QED BY <2>2, <2>6, SMTT(60) DEF TableStep, Abstract!Next
<1>8. CASE Register(c) /\ ~Fail(c)
  <2>1. pc[c] = "register" /\ s \in Socket /\ tcp[s] \in TcpSocket /\ UNCHANGED tableVars
    BY <1>0, <1>8, ZenonT(60) DEF Register, CallsIInv, tableVars
  <2>2. PICK p \in prepare(s), r \in Reg :
            /\ pc' = [pc EXCEPT ![c] = "run"] /\ call' = [call EXCEPT ![c].reg = r]
            /\ tcp' = IF tcp[s].name # None THEN tcp
                      ELSE [tcp EXCEPT ![s].name = p, ![s].held = TRUE]
    BY <1>8, Zenon DEF Register
  <2>3. /\ Only(c) /\ pc'[c] = "run"
        /\ call'[c].sock = s /\ call'[c].tgt = call[c].tgt /\ call'[c].reg # None
    BY <1>0, <2>1, <2>2, IngressAssumption, ZenonT(60) DEF CallsIInv, Only
  <2>4. \A d \in Call : /\ Inserted(d)' <=> Inserted(d)
                        /\ Inserted(d) => call'[d].sock = call[d].sock
                                          /\ call'[d].tgt = call[d].tgt
    BY <2>1, <2>3, ZenonT(60) DEF Only, Inserted
  <2>5. CASE tcp' = tcp
    BY <2>1, <2>4, <2>5, TableStutter, ZenonT(60)
  <2>6. CASE tcp[s].name = None
    <3> DEFINE t == tcp[s]
               e == [t EXCEPT !.name = p, !.held = TRUE]
    <3>1. tcp' = [tcp EXCEPT ![s] = e]
      BY <1>0, <2>1, <2>2, <2>6, Zenon
    <3>2. DOMAIN t = {"state", "name", "held", "to", "tgt", "committed"} /\ t \in TcpSocket
      BY <2>1, Zenon DEF TcpSocket
    <3>3. p \in Port \cup {None}
      BY <2>2, <3>2, Zenon DEF prepare, SourcePorts, TcpSocket
    <3> HIDE DEF t
    <3>4. e.committed = t.committed /\ e \in TcpSocket
      BY <3>2, <3>3, Zenon DEF TcpSocket
    <3> HIDE DEF e
    <3>5. e.committed = tcp[s].committed
      BY <3>4, Zenon DEF t
    <3> QED BY <2>1, <2>4, <3>1, <3>4, <3>5, TableKernel, ZenonT(60)
  <2> QED BY <2>2, <2>5, <2>6, Zenon
<1>9. CASE Run(c) /\ ~Fail(c)
  <2>1. /\ pc[c] = "run" /\ UNCHANGED <<call, tcp, tableVars>> /\ pc' = [pc EXCEPT ![c] = "wait"]
    BY <1>9, Zenon DEF Run, kernel
  <2>2. Inserted(c)' <=> Inserted(c)
    BY <1>0, <2>1, Zenon DEF Inserted, CallsIInv
  <2> QED BY <1>2, <2>1, <2>2, Zenon DEF Working
<1>10. CASE WaitDone(c) /\ ~Fail(c)
  <2>1. pc[c] = "wait" /\ UNCHANGED <<tcp, tableVars>>
    BY <1>10, Zenon DEF WaitDone, kernel
  <2>2. CASE call[c].reg # None /\ Goto(c, "commit")
    <3>1. (Inserted(c)' <=> Inserted(c)) /\ pc' = [pc EXCEPT ![c] = "commit"] /\ UNCHANGED call
      BY <1>0, <2>1, <2>2, Zenon DEF Goto, Inserted, CallsIInv
    <3> QED BY <1>2, <2>1, <3>1, Zenon DEF Working
  <2>3. CASE call[c].reg = None /\ Return(c, "idle")
    BY <1>1, <2>1, <2>3, ZenonT(60) DEF Inserted
  <2> QED BY <1>10, <2>2, <2>3, Zenon DEF WaitDone
<1>11. CASE WaitCancel(c)
  <2>1. /\ pc[c] = "wait" /\ pc' = [pc EXCEPT ![c] = "cancel"] /\ UNCHANGED <<call, tcp, tableVars>>
    BY <1>11, Zenon DEF WaitCancel, kernel
  <2>2. Inserted(c)' <=> Inserted(c)
    BY <1>0, <2>1, Zenon DEF Inserted, CallsIInv
  <2> QED BY <1>2, <2>1, <2>2, Zenon DEF Working
<1>12. CASE CancelShutdown(c)
  <2>1. s \in Socket /\ shutdown(s) /\ UNCHANGED tableVars /\ UNCHANGED <<pc, call>>
    BY <1>0, <1>12, Zenon DEF CancelShutdown, CallsIInv
  <2>2. \A d \in Call : /\ Inserted(d)' <=> Inserted(d)
                        /\ Inserted(d) => call'[d].sock = call[d].sock
                                          /\ call'[d].tgt = call[d].tgt
    BY <2>1, Zenon DEF Inserted
  <2>3. ASSUME NEW e \in TcpSocket, tcp' = [tcp EXCEPT ![s] = e],
               \/ e.committed = tcp[s].committed
               \/ e.committed = None /\ e.state = "close"
        PROVE  TableStep
    BY <2>1, <2>2, <2>3, TableKernel, ZenonT(60)
  <2>4. CASE tcp' = [tcp EXCEPT ![s] = closed(s, "close")]
    BY <1>0, <2>1, <2>3, <2>4, ClosedSocket, ZenonT(60) DEF State
  <2>5. ASSUME NEW st \in State, tcp' = [tcp EXCEPT ![s] = [tcp[s] EXCEPT !.state = st]]
        PROVE  TableStep
    <3>1. PICK e : e = [tcp[s] EXCEPT !.state = st]
      BY Zenon
    <3>2. e \in TcpSocket /\ e.committed = tcp[s].committed
      BY <1>0, <2>1, <3>1, StateSocket
    <3> QED BY <2>3, <2>5, <3>1, <3>2, Zenon
  <2>6. CASE tcp' = tcp
    BY <2>1, <2>2, <2>6, TableStutter, ZenonT(60)
  <2> QED BY <1>0, <2>1, <2>4, <2>5, <2>6, ShutSocket, Zenon
<1>13. CASE Fail(c) /\ (InsertPeer(c) \/ Register(c) \/ Run(c) \/ WaitDone(c) \/ CancelDone(c))
  <2>1. CASE Register(c)
    <3>1. pc'[c] = "idle"
      BY <1>0, <1>13, Zenon DEF Fail, CallsIInv
    <3>2. UNCHANGED tcp
      BY <1>0, <2>1, <3>1, ZenonT(60) DEF Register, CallsIInv
    <3> QED BY <1>13, <3>2, TableFail, Zenon
  <2>2. CASE ~Register(c)
    BY <1>13, <2>2, TableFail, Zenon DEF InsertPeer, Run, WaitDone, CancelDone, kernel
  <2> QED BY <2>1, <2>2, Zenon
<1>14. CASE Commit(c)
  <2> DEFINE t == tcp[s]
             e == [t EXCEPT !.committed = IF Closed(s) THEN None ELSE call[c].tgt]
  <2>1. Inserted(c) /\ UNCHANGED snapshot /\ peers' = Table!commit(peers, s)
    BY <1>14, Zenon DEF Commit, Inserted
  <2>2. Only(c) /\ ~Inserted(c)'
    BY <1>0, <1>14, OnlyOne, ZenonT(60) DEF Commit, Returns, CallsIInv, Inserted
  <2>3. /\ busyOf' = [busyOf EXCEPT ![s] = None] /\ busyOf[s] = call[c].tgt
        /\ s \in Socket /\ call[c].tgt \in Target
    BY <2>1, <2>2, BusyClear, Zenon
  <2>4. tcp' = [tcp EXCEPT ![s] = e]
    BY <1>0, <1>14, <2>3, Zenon DEF Commit
  <2>5. DOMAIN t = {"state", "name", "held", "to", "tgt", "committed"}
    BY <1>0, <2>3, Zenon DEF TcpSocket
  <2>6. t.committed = None
    BY <2>1, ZenonT(60) DEF ConnectsIInv, SocketsIInv, Connecting, OwnConnection
  <2>7. e.state = t.state /\ e.committed = IF Closed(s) THEN None ELSE call[c].tgt
    <3> HIDE DEF t
    <3> QED BY <2>5, Zenon
  <2> HIDE DEF e
  <2>8. /\ tcp'[s] = e /\ \A r \in Socket \ {s} : tcp'[r] = tcp[r]
    BY <1>0, <2>3, <2>4, Zenon
  <2>9. linkOf' = [linkOf EXCEPT ![s] = IF @ = "up" THEN "relayed" ELSE @]
    <3>1. call[c].tgt # None
      BY <2>3, TableAssumption, Zenon DEF Table!PeersAssumption
    <3> QED BY <2>3, <2>6, <2>7, <2>8, <3>1, ZenonT(60) DEF linkOf, Closed
  <2>9a. wantOf' = [wantOf EXCEPT ![s] = IF linkOf[s] = "up" THEN busyOf[s] ELSE @]
    BY <2>3, <2>6, <2>7, <2>8, ZenonT(60) DEF linkOf, wantOf, Closed
  <2>10. Abstract!Commit(s)
    <3>1. Table!commit(peers, s) = Abstract!commit(peers, s)
      BY Zenon DEF Table!commit, Abstract!commit
    <3> QED BY <2>1, <2>3, <2>9, <2>9a, <3>1, TableAssumption, ZenonT(60) DEF Abstract!Commit, Table!PeersAssumption
  <2> QED BY <2>3, <2>10, ZenonT(60) DEF TableStep, Abstract!Next
<1> QED BY <1>3, <1>4, <1>5, <1>6, <1>7, <1>8, <1>9, <1>10, <1>11, <1>12, <1>13, <1>14, Zenon
        DEF Task, CancelDone

(***************************************************************************)
(* Each step of the program and of the kernel.                              *)
(***************************************************************************)
LEMMA TableNext ==
    ASSUME ConnectsIInv, ConnectsIInv', [Next]_vars
    PROVE  TableStep
<1>0. CallsIInv /\ tcp \in [Socket -> TcpSocket]
  BY ZenonT(60) DEF ConnectsIInv, SocketsIInv
<1>1. ASSUME Stays, UNCHANGED tcp, UNCHANGED tableVars PROVE TableStep
  <2>1. \A d \in Call : (Inserted(d)' <=> Inserted(d)) /\ call'[d] = call[d]
    BY <1>1, Zenon DEF Stays, Inserted
  <2> QED BY <1>1, <2>1, TableStutter, Zenon
<1>2. ASSUME NEW c \in Call, NEW s \in Socket, NEW t \in Target \cup {Unspec}, Connect(c, s, t)
      PROVE  TableStep
  <2>1. /\ Only(c) /\ UNCHANGED tcp /\ UNCHANGED tableVars
        /\ pc[c] = "idle" /\ pc'[c] = "dispatch"
    BY <1>0, <1>2, Zenon DEF Connect, CallsIInv, Only, kernel
  <2> QED BY <2>1, TableMove, Zenon DEF Inserted
<1>3. ASSUME NEW s \in Socket, NEW e \in TcpSocket, tcp' = [tcp EXCEPT ![s] = e],
             e.committed # None => e.committed = tcp[s].committed,
             e.state \notin {"close", "failed", "dead"} /\ ~Closed(s)
                 => e.committed = tcp[s].committed,
             UNCHANGED tableVars,
             \A d \in Call : (Inserted(d)' <=> Inserted(d)) /\ (Inserted(d) => call'[d] = call[d])
      PROVE  TableStep
  BY <1>3, TableKernel, Zenon
<1>4. ASSUME NEW s \in Socket, NEW st \in {"close", "failed", "dead"}
      PROVE  /\ closed(s, st) \in TcpSocket /\ closed(s, st).committed = None
             /\ closed(s, st).state = st
  BY <1>0, ClosedSocket DEF State
<1>4a. ASSUME NEW s \in Socket, Closed(s)
       PROVE  /\ [tcp[s] EXCEPT !.state = "close"] \in TcpSocket
              /\ [tcp[s] EXCEPT !.state = "close"].committed = tcp[s].committed
  BY <1>0, <1>4a, StateSocket DEF State
<1>5. ASSUME NEW s \in Socket, NEW p \in SourcePorts(s) PROVE p \in Port \cup {None}
  BY <1>0, Zenon DEF SourcePorts, TcpSocket
<1>6. ASSUME NEW c \in Call, NativeCall(c) PROVE TableStep
  <2> DEFINE s == call[c].sock
  <2>1. /\ s \in Socket /\ UNCHANGED tableVars /\ pc[c] = "native"
        /\ call[c].tgt \in Target \cup {Unspec}
    BY <1>0, <1>6, Zenon DEF NativeCall, CallsIInv
  <2>2. Only(c) /\ pc'[c] = "idle"
    BY <1>0, <1>6, OnlyOne, Zenon DEF NativeCall, Returns, CallsIInv
  <2>3. \A d \in Call : (Inserted(d)' <=> Inserted(d)) /\ (Inserted(d) => call'[d] = call[d])
    BY <2>1, <2>2, Zenon DEF Only, Inserted
  <2>4. CASE tcp' = [tcp EXCEPT ![s] = closed(s, "close")]
    BY <1>3, <1>4, <2>1, <2>3, <2>4, Zenon
  <2>4a. CASE Closed(s) /\ tcp' = [tcp EXCEPT ![s] = [tcp[s] EXCEPT !.state = "close"]]
    BY <1>0, <1>3, <1>4a, <2>1, <2>3, <2>4a, Zenon
  <2>5. ASSUME NEW p \in SourcePorts(s), call[c].tgt # Unspec, tcp[s].state = "close",
               tcp' = [tcp EXCEPT ![s] = [state |-> "estab", name |-> p, held |-> TRUE,
                                          to |-> "native", tgt |-> call[c].tgt,
                                          committed |-> None]]
        PROVE  TableStep
    <3> DEFINE e == [state |-> "estab", name |-> p, held |-> TRUE, to |-> "native",
                     tgt |-> call[c].tgt, committed |-> None]
    <3>1. e \in TcpSocket /\ e.committed = None /\ Closed(s) /\ tcp' = [tcp EXCEPT ![s] = e]
      BY <1>5, <2>1, <2>5, Zenon DEF TcpSocket, State, Closed
    <3> HIDE DEF e
    <3> QED BY <1>3, <2>1, <2>3, <3>1, ZenonT(60)
  <2>6. ASSUME NEW p \in SourcePorts(s),
               tcp' = [tcp EXCEPT ![s] = [closed(s, "close") EXCEPT !.name = p]]
        PROVE  TableStep
    <3> DEFINE t == closed(s, "close")
               e == [t EXCEPT !.name = p]
    <3>1. t \in TcpSocket /\ t.state = "close" /\ t.committed = None
      BY <1>4, <2>1, Zenon
    <3>2. DOMAIN t = {"state", "name", "held", "to", "tgt", "committed"}
      BY <3>1, Zenon DEF TcpSocket
    <3>3. tcp' = [tcp EXCEPT ![s] = e]
      BY <2>6, Zenon
    <3> HIDE DEF t
    <3>4. e \in TcpSocket
      BY <1>5, <2>1, <3>1, Zenon DEF TcpSocket
    <3>5. e.state = "close" /\ e.committed = None
      BY <3>1, <3>2, Zenon
    <3> HIDE DEF e
    <3> QED BY <1>3, <2>1, <2>3, <3>3, <3>4, <3>5, Zenon
  <2>7. CASE UNCHANGED tcp
    BY <2>1, <2>2, <2>7, TableMove, Zenon DEF Inserted
  <2>8. CASE /\ call[c].tgt = Unspec
             /\ tcp' = [tcp EXCEPT ![s] = IF Closed(s) THEN [@ EXCEPT !.state = "close"]
                                          ELSE closed(s, "close")]
    <3>1. CASE Closed(s)
      BY <1>0, <2>1, <2>4a, <2>8, <3>1, Zenon
    <3>2. CASE ~Closed(s)
      BY <1>0, <2>1, <2>4, <2>8, <3>2, Zenon
    <3> QED BY <3>1, <3>2, Zenon
  <2>9. CASE tcp[s].state = "failed" /\ tcp' = [tcp EXCEPT ![s].state = "close"]
    BY <1>0, <2>1, <2>4a, <2>9, Zenon DEF Closed
  <2> QED BY <1>6, <2>5, <2>6, <2>7, <2>8, <2>9, Zenon DEF NativeCall
<1>7. ASSUME Stays
      PROVE  \A d \in Call : (Inserted(d)' <=> Inserted(d)) /\ (Inserted(d) => call'[d] = call[d])
  BY <1>7, Zenon DEF Stays, Inserted
<1>8. ASSUME NEW c \in Call, WorkerEnter(c) PROVE TableStep
  <2> DEFINE s == call[c].sock
  <2>1. pc[c] \in {"wait", "cancel"} /\ UNCHANGED tableVars /\ Stays
    BY <1>8, SMTT(60) DEF WorkerEnter, ConnectsIInv, WorkersIInv, Stays
  <2>2. s \in Socket /\ call[c].tgt \in Target
    BY <2>1, ZenonT(60) DEF ConnectsIInv, HoldsIInv, Holds, Unlocked, CallsIInv
  <2>3. CASE tcp[s].state = "failed" /\ tcp' = [tcp EXCEPT ![s].state = "close"]
    <3>1. Closed(s) /\ tcp' = [tcp EXCEPT ![s] = [tcp[s] EXCEPT !.state = "close"]]
      BY <1>0, <2>2, <2>3, Zenon DEF Closed
    <3> QED BY <1>3, <1>4a, <1>7, <2>1, <2>2, <3>1, Zenon
  <2>4. ASSUME NEW p \in SourcePorts(s), tcp[s].state = "close",
               tcp' = [tcp EXCEPT ![s] = [state |-> "syn", name |-> p, held |-> TRUE,
                                          to |-> "ingress", tgt |-> call[c].tgt,
                                          committed |-> None]]
        PROVE  TableStep
    <3> DEFINE e == [state |-> "syn", name |-> p, held |-> TRUE, to |-> "ingress",
                     tgt |-> call[c].tgt, committed |-> None]
    <3>1. e \in TcpSocket /\ e.committed = None /\ Closed(s) /\ tcp' = [tcp EXCEPT ![s] = e]
      BY <1>5, <2>2, <2>4, Zenon DEF TcpSocket, State, Closed
    <3> HIDE DEF e
    <3> QED BY <1>3, <1>7, <2>1, <2>2, <3>1, ZenonT(60)
  <2>5. CASE UNCHANGED tcp
    BY <1>1, <2>1, <2>5, Zenon
  <2> QED BY <1>8, <2>3, <2>4, <2>5, ZenonT(60) DEF WorkerEnter
<1>9. ASSUME NEW s \in Socket, Handshake(s) PROVE TableStep
  <2>1. UNCHANGED tableVars /\ Stays
    BY <1>9, Zenon DEF Handshake, Stays
  <2>2. PICK e : e = [tcp[s] EXCEPT !.state = "estab"]
    BY Zenon
  <2>3. tcp' = [tcp EXCEPT ![s] = e]
    BY <1>0, <1>9, <2>2, Zenon DEF Handshake
  <2>4. e \in TcpSocket /\ e.committed = tcp[s].committed
    BY <1>0, <2>2, StateSocket DEF State
  <2> QED BY <1>3, <1>7, <2>1, <2>3, <2>4, ZenonT(60)
<1>10. ASSUME NEW s \in Socket, ConnectionLost(s) PROVE TableStep
  <2>1. UNCHANGED tableVars /\ Stays
    BY <1>10, Zenon DEF ConnectionLost, Stays
  <2>2. PICK st \in {"close", "failed", "dead"} : tcp' = [tcp EXCEPT ![s] = closed(s, st)]
    BY <1>10, ZenonT(60) DEF ConnectionLost
  <2> QED BY <1>3, <1>4, <1>7, <2>1, <2>2, Zenon
<1>11. ASSUME NEW c \in Call, WorkerReturn(c) PROVE TableStep
  <2> DEFINE s == call[c].sock
  <2>1. pc[c] \in {"wait", "cancel"} /\ UNCHANGED tableVars /\ Stays
    BY <1>11, SMTT(60) DEF WorkerReturn, ConnectsIInv, WorkersIInv, Stays
  <2>2. s \in Socket
    BY <2>1, ZenonT(60) DEF ConnectsIInv, HoldsIInv, Holds, Unlocked, CallsIInv
  <2>3. CASE Closed(s) /\ tcp' = [tcp EXCEPT ![s].state = "close"]
    <3>1. tcp' = [tcp EXCEPT ![s] = [tcp[s] EXCEPT !.state = "close"]]
      BY <1>0, <2>2, <2>3, Zenon
    <3> QED BY <1>3, <1>4a, <1>7, <2>1, <2>2, <2>3, <3>1, Zenon
  <2>4. CASE UNCHANGED tcp
    BY <1>1, <2>1, <2>4, Zenon
  <2> QED BY <1>11, <2>3, <2>4, Zenon DEF WorkerReturn
<1>11a. ASSUME NEW c \in Call, WorkerStart(c) \/ WorkerFinish(c) PROVE TableStep
  BY <1>1, <1>11a, Zenon DEF WorkerStart, WorkerFinish, Stays, kernel
<1>12. CASE Accept
  BY <1>1, <1>12, Zenon DEF Accept, Stays
<1>13. ASSUME NEW r \in Reg, RelayAccept(r) \/ RelayConnected(r) PROVE TableStep
  BY <1>1, <1>13, Zenon DEF RelayAccept, RelayConnected, Stays, kernel
<1>14. CASE Tick
  <2>1. CASE Table!SnapshotStart
    BY <1>14, <2>1, TableClean, Zenon DEF Tick, kernel
  <2>2. CASE UNCHANGED <<peers, snapshot>>
    BY <1>1, <1>14, <2>2, Zenon DEF Tick, Stays, kernel, tableVars
  <2> QED BY <1>14, <2>1, <2>2, Zenon DEF Tick
<1>15. CASE Snapshot
  BY <1>15, TableClean, Zenon DEF Snapshot, kernel
<1>16. CASE UNCHANGED vars
  BY <1>1, <1>16, Zenon DEF vars, Stays, tableVars
<1> QED BY <1>2, <1>6, <1>8, <1>9, <1>10, <1>11, <1>11a, <1>12, <1>13, <1>14, <1>15, <1>16, TableTask,
        ZenonT(60) DEF Next

(***************************************************************************)
(* connect_tcp, the kernel and the cleanup use Broker::peers as PeerTable   *)
(* says, for every number of calls, sockets and targets: what is proved of  *)
(* PeerTable holds of the whole composition.                                *)
(***************************************************************************)
THEOREM TableIsPeerTable == Spec => TableRefined
<1>1. Init => Abstract!Init
  <2> SUFFICES ASSUME Init PROVE Abstract!Init
    BY Zenon
  <2>1. linkOf = [s \in Socket |-> "down"]
    BY Zenon DEF Init, linkOf, Closed
  <2>1a. wantOf = [s \in Socket |-> None]
    BY Zenon DEF Init, wantOf
  <2>2. busyOf = [s \in Socket |-> None]
    BY Zenon DEF Init, busyOf, Inserted
  <2> QED BY <2>1, <2>1a, <2>2, Zenon DEF Init, Abstract!Init
<1>2. ConnectsIInv /\ ConnectsIInv' /\ [Next]_vars => [Abstract!Next]_(Abstract!vars)
  BY TableNext, Zenon DEF TableStep, Abstract!vars
<1> QED BY <1>1, <1>2, ConnectsInvariant, PTL DEF Spec, TableRefined, Abstract!Spec

Peers == INSTANCE PeerTableProofs WITH link <- linkOf, want <- wantOf, busy <- busyOf

(***************************************************************************)
(* getpeername reports the destination that was asked for (README.md:81),   *)
(* for every connection that was committed, whatever connects, interrupts,  *)
(* disconnects and cleanup ticks happen meanwhile, and however many.        *)
(***************************************************************************)
THEOREM PeerNamesRequested == Spec => []PeerNameRequested
<1>1. Abstract!Spec => []Abstract!RelayedKeepsTarget
  <2>1. Peers!PeersAssumption
    BY TableAssumption, Zenon DEF Table!PeersAssumption, Table!Peer, Table!Dump,
           Peers!PeersAssumption, Peers!Peer, Peers!Dump
  <2>2. Peers!Spec => []Peers!RelayedKeepsTarget
    BY <2>1, Peers!RelayedNeverForgotten, Zenon
  <2>3. Abstract!Spec => Peers!Spec
    <3>1. Abstract!Init => Peers!Init
      BY Zenon DEF Abstract!Init, Peers!Init
    <3>2. [Abstract!Next]_(Abstract!vars) => [Peers!Next]_(Peers!vars)
      BY Zenon DEF
          Abstract!Up, Peers!Up, Abstract!Down, Peers!Down, Abstract!Forget, Peers!Forget,
          Abstract!Insert, Peers!Insert, Abstract!Commit, Peers!Commit, Abstract!Rollback,
          Peers!Rollback, Abstract!SnapshotVisit, Peers!SnapshotVisit, Abstract!SnapshotStart,
          Peers!SnapshotStart, Abstract!Retain, Peers!Retain, Abstract!SnapshotFail,
          Peers!SnapshotFail, Abstract!remove, Peers!remove, Abstract!insert, Peers!insert,
          Abstract!commit, Peers!commit, Abstract!Aged, Peers!Aged, Abstract!retain,
          Peers!retain, Abstract!Next, Peers!Next, Abstract!vars, Peers!vars
    <3> QED BY <3>1, <3>2, PTL DEF Abstract!Spec, Peers!Spec
  <2>4. Peers!RelayedKeepsTarget => Abstract!RelayedKeepsTarget
    BY Zenon DEF Abstract!RelayedKeepsTarget, Peers!RelayedKeepsTarget
  <2> QED BY <2>2, <2>3, <2>4, PTL
<1>2. ConnectsIInv /\ Abstract!RelayedKeepsTarget => PeerNameRequested
  <2> SUFFICES ASSUME ConnectsIInv, Abstract!RelayedKeepsTarget, NEW s \in Socket,
                      tcp[s].committed # None, tcp[s].state = "estab"
               PROVE  peer_name(s) = tcp[s].tgt
    BY Zenon DEF PeerNameRequested
  <2>1. linkOf[s] = "relayed" /\ (tcp[s].to = "ingress" => tcp[s].tgt = wantOf[s])
    BY Zenon DEF linkOf, wantOf, Closed, ConnectsIInv, SocketsIInv
  <2> QED BY <2>1, Zenon DEF Abstract!RelayedKeepsTarget, peer_name
<1> QED BY <1>1, <1>2, TableIsPeerTable, ConnectsInvariant, PTL DEF TableRefined
===============================================================================
