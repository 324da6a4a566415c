------------------------------ MODULE PeerTable -------------------------------
(***************************************************************************)
(* Broker::peers (src/src/broker/tcp.rs, engine.rs): the destination each   *)
(* relayed socket asked for, which getpeername has to report.  Entries of   *)
(* dead sockets are removed from a snapshot of the kernel's sockets that    *)
(* another thread takes one socket at a time, while connects keep inserting *)
(* and committing entries.                                                  *)
(*                                                                         *)
(* One connect at a time works on a socket: ConnectLocks proves it.         *)
(***************************************************************************)
EXTENDS PeerMap

VARIABLES
    link,       \* kernel: "down" (TCP_CLOSE), "up", or "relayed": up to the
                \* ingress through a connect that committed
    want,       \* the target of the connect that committed, while it is relayed
    busy        \* target of the connect between insert and commit, or None

vars == <<peers, snapshot, link, want, busy>>

TypeOK ==
    /\ peers \in [Socket -> Peer \cup {None}]
    /\ snapshot \in Dump \cup {None}
    /\ link \in [Socket -> {"down", "up", "relayed"}]
    /\ want \in [Socket -> Target \cup {None}]
    /\ busy \in [Socket -> Target \cup {None}]

Init ==
    /\ peers = [s \in Socket |-> None]
    /\ snapshot = None
    /\ link = [s \in Socket |-> "down"]
    /\ want = [s \in Socket |-> None]
    /\ busy = [s \in Socket |-> None]
-------------------------------------------------------------------------------
(***************************************************************************)
(* The kernel.  A socket leaves TCP_CLOSE by any connect and returns to it  *)
(* by a disconnect, a reset or a close.                                     *)
(***************************************************************************)
Up(s) ==
    /\ link[s] = "down"
    /\ link' = [link EXCEPT ![s] = "up"]
    /\ UNCHANGED <<peers, snapshot, want, busy>>

Down(s) ==
    /\ link[s] # "down"
    /\ link' = [link EXCEPT ![s] = "down"]
    /\ want' = [want EXCEPT ![s] = None]
    /\ UNCHANGED <<peers, snapshot, busy>>

(***************************************************************************)
(* connect_tcp forgets the peer of a socket it found closed; insert and     *)
(* commit are its later steps, and PendingPeer::drop undoes the insert of a *)
(* connect that fails.                                                      *)
(***************************************************************************)
Forget(s) ==
    /\ busy[s] = None
    /\ link[s] # "relayed"
    /\ peers' = remove(peers, s)
    /\ UNCHANGED <<snapshot, link, want, busy>>

Insert(s, t) ==
    /\ busy[s] = None
    /\ link[s] # "relayed"
    /\ peers' = insert(peers, s, t)
    /\ busy' = [busy EXCEPT ![s] = t]
    /\ UNCHANGED <<snapshot, link, want>>

Commit(s) ==
    /\ busy[s] # None
    /\ peers' = commit(peers, s)
    /\ want' = [want EXCEPT ![s] = IF link[s] = "up" THEN busy[s] ELSE @]
    /\ link' = [link EXCEPT ![s] = IF @ = "up" THEN "relayed" ELSE @]
    /\ busy' = [busy EXCEPT ![s] = None]
    /\ UNCHANGED snapshot

Rollback(s) ==
    /\ busy[s] # None
    /\ peers' = remove(peers, s)
    /\ busy' = [busy EXCEPT ![s] = None]
    /\ UNCHANGED <<snapshot, link, want>>
-------------------------------------------------------------------------------
Next ==
    \/ \E s \in Socket :
          \/ Up(s) \/ Down(s)
          \/ Forget(s) \/ (\E t \in Target : Insert(s, t)) \/ Commit(s) \/ Rollback(s)
    \/ /\ \/ SnapshotStart \/ Retain \/ SnapshotFail
          \/ \E s \in Socket : SnapshotVisit(s, link[s] = "down")
       /\ UNCHANGED <<link, want, busy>>

Spec == Init /\ [][Next]_vars
-------------------------------------------------------------------------------
(***************************************************************************)
(* A socket that is connected to the ingress by a committed connect keeps   *)
(* its entry, with the target it asked for, however the dump, the cleanup   *)
(* and other connects interleave (engine.rs:145, tcp.rs:98-125): getpeername*)
(* never falls back to the relay's own address.                             *)
(***************************************************************************)
RelayedKeepsTarget ==
    \A s \in Socket : link[s] = "relayed" => peers[s] # None /\ peers[s].target = want[s]

(***************************************************************************)
(* The entry a connect inserted is still there when it commits (tcp.rs:122, *)
(* where a missing entry is silently ignored).                              *)
(***************************************************************************)
CommitFindsEntry ==
    \A s \in Socket : busy[s] # None =>
        peers[s] # None /\ peers[s].pending /\ peers[s].target = busy[s]

(***************************************************************************)
(* A pending entry, which the cleanup never removes, belongs to a connect   *)
(* in progress: PendingPeer::drop (tcp.rs:29-35) leaves none behind.        *)
(***************************************************************************)
PendingOnlyWhileBusy == \A s \in Socket : peers[s] # None /\ peers[s].pending => busy[s] # None

(***************************************************************************)
(* Why the cleanup spares a relayed socket: it was committed after the dump *)
(* started, or the dump has found it up, or has yet to pass it.             *)
(***************************************************************************)
PeersIInv ==
    /\ TypeOK
    /\ RelayedKeepsTarget
    /\ CommitFindsEntry
    /\ \A s \in Socket : link[s] = "relayed" => busy[s] = None
    /\ \A s \in Socket : snapshot # None /\ link[s] = "relayed" =>
           peers[s].fresh \/ s \in snapshot.seen \/ s \in snapshot.todo
===============================================================================
