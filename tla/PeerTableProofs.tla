--------------------------- MODULE PeerTableProofs ----------------------------
(***************************************************************************)
(* Proofs that the snapshot-driven cleanup of the peer table never takes    *)
(* the entry of a relayed socket or of a connect in progress.               *)
(***************************************************************************)
EXTENDS PeerTable, TLAPS

(***************************************************************************)
(* Broker::new starts with no peers and no dump.                            *)
(***************************************************************************)
LEMMA PeersInit == ASSUME PeersAssumption, Init
                   PROVE  PeersIInv /\ PendingOnlyWhileBusy
BY DEF PeersAssumption, Init, PeersIInv, TypeOK, RelayedKeepsTarget, CommitFindsEntry, PendingOnlyWhileBusy

(***************************************************************************)
(* Each step of the kernel, of a connect and of the cleanup preserves the   *)
(* inductive invariant.                                                     *)
(***************************************************************************)
LEMMA PeersStep == ASSUME PeersAssumption, PeersIInv, PendingOnlyWhileBusy, [Next]_vars
                   PROVE  PeersIInv' /\ PendingOnlyWhileBusy'
<1> USE DEF PeersAssumption, PeersIInv, TypeOK, Peer, Dump, RelayedKeepsTarget, CommitFindsEntry, PendingOnlyWhileBusy
<1>1. ASSUME NEW s \in Socket, Up(s) \/ Down(s)
      PROVE  PeersIInv' /\ PendingOnlyWhileBusy'
      BY <1>1 DEF Up, Down
<1>2. ASSUME NEW s \in Socket, Forget(s) \/ Rollback(s)
      PROVE  PeersIInv' /\ PendingOnlyWhileBusy'
      BY <1>2 DEF Forget, Rollback, remove
<1>3. ASSUME NEW s \in Socket, NEW t \in Target, Insert(s, t)
      PROVE  PeersIInv' /\ PendingOnlyWhileBusy'
  <2> DEFINE new == [target |-> t, pending |-> TRUE, fresh |-> TRUE]
  <2>1. new \in Peer
        OBVIOUS
  <2>2. new.target = t /\ new.pending /\ new.fresh
        OBVIOUS
  <2>3. peers' = [peers EXCEPT ![s] = new]
        BY <1>3 DEF Insert, insert
  <2> HIDE DEF new
  <2> QED BY <1>3, <2>1, <2>2, <2>3 DEF Insert
<1>4. ASSUME NEW s \in Socket, Commit(s)
      PROVE  PeersIInv' /\ PendingOnlyWhileBusy'
  <2> DEFINE new == [peers[s] EXCEPT !.pending = FALSE, !.fresh = TRUE]
  <2>1. /\ peers[s] \in Peer
        /\ peers[s].target = busy[s]
        /\ busy[s] \in Target
        BY <1>4 DEF Commit
  <2>2. /\ new \in Peer
        /\ new.target = busy[s] /\ ~new.pending /\ new.fresh
        BY <2>1, Zenon
  <2>3. peers' = [peers EXCEPT ![s] = new]
        BY <1>4, <2>1, Zenon DEF Commit, commit
  <2> HIDE DEF new
  <2>4. TypeOK'
        BY <1>4, <2>1, <2>2, <2>3 DEF Commit
  <2>5. /\ peers'[s] = new /\ busy'[s] = None
        /\ link'[s] = "relayed" => want'[s] = busy[s]
        /\ \A r \in Socket \ {s} : /\ peers'[r] = peers[r] /\ want'[r] = want[r]
                                   /\ busy'[r] = busy[r] /\ link'[r] = link[r]
        /\ snapshot' = snapshot
        BY <1>4, <2>3 DEF Commit
  <2>6. RelayedKeepsTarget' /\ CommitFindsEntry' /\ PendingOnlyWhileBusy'
        BY <2>2, <2>5
  <2> QED BY <2>2, <2>4, <2>5, <2>6
<1>5. CASE SnapshotStart /\ UNCHANGED <<link, want, busy>>
  <2>1. ASSUME NEW s \in Socket, peers[s] # None
        PROVE  /\ peers'[s] \in Peer
               /\ peers'[s].target = peers[s].target
               /\ peers'[s].pending = peers[s].pending
    <3>1. peers[s] \in Peer /\ peers'[s] = [peers[s] EXCEPT !.fresh = FALSE]
          BY <1>5, <2>1 DEF SnapshotStart, Aged
    <3> QED BY <3>1, Zenon
  <2>2. \A s \in Socket : peers[s] = None => peers'[s] = None
        BY <1>5 DEF SnapshotStart, Aged
  <2>3. peers' \in [Socket -> Peer \cup {None}]
        BY <1>5, <2>1, <2>2 DEF SnapshotStart, Aged
  <2> QED BY <1>5, <2>1, <2>2, <2>3 DEF SnapshotStart
<1>6. ASSUME NEW s \in Socket, SnapshotVisit(s, link[s] = "down"), UNCHANGED <<link, want, busy>>
      PROVE  PeersIInv' /\ PendingOnlyWhileBusy'
      BY <1>6 DEF SnapshotVisit
<1>7. CASE Retain /\ UNCHANGED <<link, want, busy>>
      BY <1>7 DEF Retain, retain
<1>8. CASE SnapshotFail /\ UNCHANGED <<link, want, busy>>
      BY <1>8 DEF SnapshotFail
<1>9. CASE UNCHANGED vars
      BY <1>9 DEF vars
<1> QED BY <1>1, <1>2, <1>3, <1>4, <1>5, <1>6, <1>7, <1>8, <1>9 DEF Next

(***************************************************************************)
(* The strengthened invariant of peers, dump and sockets always holds.      *)
(***************************************************************************)
THEOREM PeersInvariant == ASSUME PeersAssumption
                          PROVE  Spec => [](PeersIInv /\ PendingOnlyWhileBusy)
<1>1. Init => PeersIInv /\ PendingOnlyWhileBusy
      BY PeersInit
<1>2. PeersIInv /\ PendingOnlyWhileBusy /\ [Next]_vars
          => PeersIInv' /\ PendingOnlyWhileBusy'
      BY PeersStep
<1> QED BY <1>1, <1>2, PTL DEF Spec

(***************************************************************************)
(* A socket connected through a committed connect keeps the entry that      *)
(* getpeername reads (tcp.rs:165-176), for any number of sockets and        *)
(* targets and any interleaving with the cleanup (engine.rs:145).           *)
(***************************************************************************)
THEOREM RelayedNeverForgotten == ASSUME PeersAssumption PROVE Spec => []RelayedKeepsTarget
BY PeersInvariant, PTL DEF PeersIInv

(***************************************************************************)
(* The commit of a connect (tcp.rs:122-125) always finds its own entry.     *)
(***************************************************************************)
THEOREM CommitNeverMisses == ASSUME PeersAssumption PROVE Spec => []CommitFindsEntry
BY PeersInvariant, PTL DEF PeersIInv

(***************************************************************************)
(* No pending entry outlives its connect.                                   *)
(***************************************************************************)
THEOREM NoPendingLeft == ASSUME PeersAssumption PROVE Spec => []PendingOnlyWhileBusy
BY PeersInvariant, PTL
===============================================================================
