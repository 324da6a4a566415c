------------------------------- MODULE PeerMap --------------------------------
(***************************************************************************)
(* The map Broker::peers and what the broker does with it (src/src/broker/  *)
(* tcp.rs, engine.rs): the destination each relayed socket asked for, and   *)
(* the cleanup from a dump of the kernel's sockets.                         *)
(***************************************************************************)
CONSTANTS Socket, Target, None

VARIABLES
    peers,      \* cookie -> Peer or None
    snapshot    \* None, or the running dump: the cookies seen and still to visit

(***************************************************************************)
(* fresh stands for created >= snapshot_started.                            *)
(***************************************************************************)
Peer == [target : Target, pending : BOOLEAN, fresh : BOOLEAN]

Dump == [seen : SUBSET Socket, todo : SUBSET Socket]

PeersAssumption == None \notin Target \cup Peer \cup Dump

(***************************************************************************)
(* connect_tcp removes the peer of a socket it found closed; insert and     *)
(* commit are its later steps, and PendingPeer::drop undoes the insert of a *)
(* connect that fails.                                                      *)
(***************************************************************************)
remove(p, s) == [p EXCEPT ![s] = None]

insert(p, s, t) == [p EXCEPT ![s] = [target |-> t, pending |-> TRUE, fresh |-> TRUE]]

Bug_CommitKeepsCreated(p, s) ==
    IF p[s] = None THEN p ELSE [p EXCEPT ![s].pending = FALSE]

commit(p, s) ==
    IF p[s] = None THEN p ELSE [p EXCEPT ![s].pending = FALSE, ![s].fresh = TRUE]

(***************************************************************************)
(* The cleanup.  SnapshotStart is the tick's part of it; SnapshotVisit is   *)
(* the dump reaching a socket's place in the kernel's tables, where a       *)
(* socket in TCP_CLOSE may or may not be listed; Retain and SnapshotFail    *)
(* are the two outcomes of the dump.                                        *)
(***************************************************************************)
Aged(p) == [s \in Socket |-> IF p[s] = None THEN None ELSE [p[s] EXCEPT !.fresh = FALSE]]

SnapshotStart ==
    /\ snapshot = None
    /\ \E s \in Socket : peers[s] # None
    /\ snapshot' = [seen |-> {}, todo |-> Socket]
    /\ peers' = Aged(peers)

SnapshotVisit(s, closed) ==
    /\ snapshot # None
    /\ s \in snapshot.todo
    /\ \E listed \in BOOLEAN :
          /\ closed \/ listed
          /\ snapshot' = [seen |-> IF listed THEN snapshot.seen \cup {s} ELSE snapshot.seen,
                          todo |-> snapshot.todo \ {s}]
    /\ UNCHANGED peers

retain(p, seen) ==
    [s \in Socket |-> IF p[s] # None /\ (p[s].pending \/ p[s].fresh \/ s \in seen)
                      THEN p[s] ELSE None]

Retain ==
    /\ snapshot # None
    /\ snapshot.todo = {}
    /\ peers' = retain(peers, snapshot.seen)
    /\ snapshot' = None

SnapshotFail ==
    /\ snapshot # None
    /\ snapshot' = None
    /\ UNCHANGED peers
===============================================================================
