------------------------------ MODULE TcpConnect ------------------------------
(***************************************************************************)
(* Broker::connect_tcp (src/src/broker/tcp.rs) with everything it touches:  *)
(* the per-socket locks (ConnectLocks), the peer table and its cleanup      *)
(* (PeerTable), the shared ingress listener (tcp_ingress.rs, tcp_bind.rs),  *)
(* the cancellable native connect (connect.rs), the relay tasks up to the   *)
(* point where bytes flow, and the kernel's view of the sockets.            *)
(*                                                                         *)
(* Application threads connect and disconnect sockets and are interrupted   *)
(* at any moment; tasks, workers, listener and cleanup run concurrently.    *)
(***************************************************************************)
EXTENDS Naturals, Sequences, FiniteSets, FiniteSetsExt, ConnectLocks

CONSTANTS
    Reg,          \* identities of ingress registrations
    Target,       \* destinations an application asks for
    Native,       \* ... numeric with a direct route: connected by the kernel
    Fake,         \* ... FakeIPs, which have a domain or not (yet)
    Dns,          \* ... on port 53
    Port,         \* TCP port numbers of application sockets
    PinnedPort,   \* the port of the explicitly bound sockets
    Pinned,       \* sockets bound to PinnedPort, each on an address of its own
    Blocking,     \* sockets without O_NONBLOCK
    Disconnected, \* sockets the application may disconnect with AF_UNSPEC
    Unspec,       \* the AF_UNSPEC "target"
    MaxPending,   \* permits of Broker::pending (128)
    MaxBacklog,   \* accept queue of the ingress listener
    Cleanup       \* whether the cleanup tick is part of the instance

ASSUME TcpAssumption ==
    /\ Native \cup Fake \cup Dns \subseteq Target
    /\ PinnedPort \in Port
    /\ Pinned \cup Blocking \cup Disconnected \subseteq Socket
    /\ Unspec \notin Target
    /\ {MaxPending, MaxBacklog} \subseteq Nat \ {0}
    /\ Cleanup \in BOOLEAN

VARIABLES
    pc, call,                  \* connect_tcp: position, arguments and locals
    worker,                    \* the spawn_blocking connect(2) of a call
    peers, snapshot,           \* see PeerMap
    permits,                   \* available permits of Broker::pending
    waiting, reg,              \* Ingress::waiting and the registrations
    tcp, backlog               \* kernel: sockets and the ingress accept queue

tableVars  == <<peers, snapshot>>
ingress    == <<permits, waiting, reg>>
kernel     == <<tcp, backlog>>
vars == <<pc, call, worker, lockVars, peers, snapshot, permits,
          waiting, reg, tcp, backlog>>

(***************************************************************************)
(* A socket.  name is the port getsockname reports, held whether the socket *)
(* still owns it: TCP_CLOSE gives an automatically assigned port back but   *)
(* keeps reporting it.  "failed" is TCP_CLOSE with an error that the next   *)
(* connect reports, "dead" TCP_CLOSE where connect says EISCONN or EINVAL   *)
(* until the application disconnects; "shut" is any state left by shutdown. *)
(* to: the remote end; tgt: what the connect that made the connection asked *)
(* for; committed: what the call that reached tcp.rs:122 meanwhile asked.   *)
(***************************************************************************)
State == {"close", "failed", "dead", "syn", "estab", "shut"}

Closed(s) == tcp[s].state \in {"close", "failed", "dead"}    \* sockets::state = 7

(***************************************************************************)
(* The ingress's end of a connection: its source, the address of sock with  *)
(* port, and open until a disconnect resets it.  tgt is history, and so is  *)
(* sock where another socket takes the address over.                        *)
(***************************************************************************)
Stream == [sock : Socket, port : Port, tgt : Target, open : BOOLEAN]

TcpSocket == [state : State, name : Port \cup {None}, held : BOOLEAN,
              to : {"none", "ingress", "native"}, tgt : Target \cup {None},
              committed : Target \cup {None}]

\* lost is history: the socket was closed while its stream was still to come.
Registration == [sock : Socket, port : Port, tgt : Target,
                 phase : {"conn", "accept", "upstream"},
                 sender : BOOLEAN, stream : Stream \cup {None}, lost : BOOLEAN]

\* "ok" and "error": connect(2) has returned; "done" and "failed": the task has finished.
Worker == {"none", "queued", "started", "inside", "ok", "error", "done", "failed"}

ASSUME IngressAssumption == None \notin Reg \cup Port \cup Registration \cup Stream

NoCall == [sock |-> None, tgt |-> None, reg |-> None]

Inserted(c) == \/ pc[c] \in {"register", "commit"}      \* past tcp.rs:98, before 122
               \/ pc[c] \in {"run", "wait", "cancel"} /\ call[c].reg # None

Table == INSTANCE PeerMap

ASSUME TableAssumption == Table!PeersAssumption

TypeOK ==
    /\ LocksTypeOK
    /\ pc \in [Call -> {"idle", "dispatch", "lock", "state", "route", "insert", "register",
                        "run", "wait", "cancel", "commit", "native"}]
    /\ call \in [Call -> [sock : Socket \cup {None}, tgt : Target \cup {Unspec, None},
                         reg : Reg \cup {None}]]
    /\ worker \in [Call -> Worker]
    /\ permits \in 0..MaxPending
    /\ reg \in [Reg -> Registration \cup {None}]
    /\ \A p \in Port : \A i \in 1..Len(waiting[p]) : reg[waiting[p][i]] # None
    /\ tcp \in [Socket -> TcpSocket]
    /\ Len(backlog) <= MaxBacklog
    /\ \A i \in 1..Len(backlog) : backlog[i] \in Stream

Init ==
    /\ pc = [c \in Call |-> "idle"]
    /\ call = [c \in Call |-> NoCall]
    /\ worker = [c \in Call |-> "none"]
    /\ LocksInit
    /\ peers = [s \in Socket |-> None]
    /\ snapshot = None
    /\ permits = MaxPending
    /\ waiting = [p \in Port |-> <<>>]
    /\ reg = [r \in Reg |-> None]
    /\ tcp = [s \in Socket |-> [state |-> "close", held |-> s \in Pinned, to |-> "none",
                                name |-> IF s \in Pinned THEN PinnedPort ELSE None,
                                tgt |-> None, committed |-> None]]
    /\ backlog = <<>>
-------------------------------------------------------------------------------
(***************************************************************************)
(* The kernel's side of a socket.                                           *)
(***************************************************************************)
closed(s, state) ==
    [tcp[s] EXCEPT !.state = state, !.held = s \in Pinned, !.to = "none",
                   !.tgt = None, !.committed = None]

abandon(s) ==           \* the registrations that wait for a stream of s
    [r \in Reg |-> IF reg[r] # None /\ reg[r].sock = s /\ reg[r].sender
                   THEN [reg[r] EXCEPT !.lost = TRUE] ELSE reg[r]]

reset(s) ==             \* tcp_disconnect: RST to the other end
    [i \in 1..Len(backlog) |-> IF backlog[i].sock = s THEN [backlog[i] EXCEPT !.open = FALSE]
                               ELSE backlog[i]]

FreePort(p) == \A s \in Socket : tcp[s].held => tcp[s].name # p

SourcePorts(s) ==       \* bind(2) to port 0, or connect(2) without a port
    IF tcp[s].held THEN {tcp[s].name} ELSE {p \in Port : FreePort(p)}

(***************************************************************************)
(* The three-way handshake with the ingress; the connection then waits in   *)
(* the accept queue.  The listener never refuses; a SYN that it drops fails *)
(* only after the kernel's retries, which outlast the 32 seconds of every   *)
(* registration.                                                            *)
(***************************************************************************)
Handshake(s) ==
    /\ tcp[s].state = "syn"
    /\ Len(backlog) < MaxBacklog
    /\ tcp' = [tcp EXCEPT ![s].state = "estab"]
    /\ backlog' = Append(backlog, [sock |-> s, port |-> tcp[s].name, tgt |-> tcp[s].tgt,
                                   open |-> TRUE])
    /\ UNCHANGED <<pc, call, worker, lockVars, tableVars, ingress>>

(***************************************************************************)
(* The retries end, or the ingress's end is closed, which it is not before  *)
(* it is accepted.  Unless a connect(2) has returned success, the next one  *)
(* reports the error.                                                       *)
(***************************************************************************)
ConnectionLost(s) ==
    /\ ~Closed(s)
    /\ tcp[s].state = "syn" => \A r \in Reg : reg[r] # None => reg[r].sock # s
    /\ \A i \in 1..Len(backlog) : backlog[i].sock = s => ~backlog[i].open
    /\ \E state \in {"failed", "dead"} :
          /\ state = "failed" => tcp[s].state = "syn" \/ (tcp[s].state = "estab" /\ s \notin Blocking)
          /\ state = "dead" => tcp[s].state # "syn"
          /\ tcp' = [tcp EXCEPT ![s] = closed(s, state)]
    /\ reg' = abandon(s)
    /\ UNCHANGED <<pc, call, worker, lockVars, tableVars, permits, waiting, backlog>>

(***************************************************************************)
(* A thread calls connect.  A signal can make the notification of its call  *)
(* invalid at any moment; each check of it, Broker::valid, may then answer  *)
(* EINTR, which ends the call.                                              *)
(***************************************************************************)
Connect(c, s, t) ==
    /\ pc[c] = "idle"
    /\ t = Unspec => s \in Disconnected
    /\ pc' = [pc EXCEPT ![c] = "dispatch"]
    /\ call' = [call EXCEPT ![c] = [sock |-> s, tgt |-> t, reg |-> None]]
    /\ UNCHANGED <<worker, lockVars, tableVars, ingress, kernel>>

(***************************************************************************)
(* A continued system call runs in the kernel after the broker let go,      *)
(* unless it was interrupted before it was continued.  AF_UNSPEC gives an   *)
(* automatically assigned port back only if it ends a connection.           *)
(***************************************************************************)
NativeCall(c) ==
    LET s == call[c].sock
    IN  /\ pc[c] = "native"
        /\ pc' = [pc EXCEPT ![c] = "idle"]
        /\ call' = [call EXCEPT ![c] = NoCall]
        /\ \/ /\ call[c].tgt = Unspec
              /\ tcp' = [tcp EXCEPT ![s] = IF Closed(s) THEN [@ EXCEPT !.state = "close"]
                                           ELSE closed(s, "close")]
              /\ reg' = IF Closed(s) THEN reg ELSE abandon(s)
              /\ backlog' = reset(s)
           \/ /\ call[c].tgt # Unspec /\ UNCHANGED <<reg, backlog>>
              /\ tcp[s].state = "close"
              /\ \E p \in SourcePorts(s) :
                    \/ tcp' = [tcp EXCEPT ![s] = [state |-> "estab", name |-> p, held |-> TRUE,
                                                  to |-> "native", tgt |-> call[c].tgt,
                                                  committed |-> None]]
                    \/ tcp' = [tcp EXCEPT ![s] = [closed(s, "close") EXCEPT !.name = p]]
           \/ /\ call[c].tgt # Unspec /\ UNCHANGED <<reg, backlog>>
              /\ tcp[s].state = "failed"
              /\ tcp' = [tcp EXCEPT ![s].state = "close"]
           \/ UNCHANGED <<tcp, reg, backlog>>     \* interrupted, EISCONN, EALREADY
        /\ UNCHANGED <<worker, lockVars, tableVars, permits, waiting>>
-------------------------------------------------------------------------------
(***************************************************************************)
(* Registration: registered under a port, dropped by whoever owns it.  The  *)
(* descriptor that tells entries apart is the registration's own.           *)
(***************************************************************************)
without(w, r) ==        \* retain: a registration is listed at most once
    LET I == {i \in 1..Len(w) : w[i] = r}
    IN  IF I = {} THEN w ELSE SubSeq(w, 1, Min(I) - 1) \o SubSeq(w, Min(I) + 1, Len(w))

unregister(w, r) == [p \in Port |-> without(w[p], r)]

Bug_PermitAfterRegister(c) == pc[c] = "insert" \/ (Inserted(c) /\ pc[c] # "register")

ReturnsPermit(c) == pc[c] = "insert" \/ Inserted(c)

Bug_PeerUnlessCancelled(c) == Inserted(c) /\ pc[c] # "cancel"

RollsBackPeer(c) == Inserted(c)      \* PendingPeer::drop without committed

(***************************************************************************)
(* connect_tcp returns an error: its locals are dropped in reverse order,   *)
(* the registration, the pending peer, the permit and the lock's guard.     *)
(***************************************************************************)
Fail(c) ==
    LET r == call[c].reg
    IN  /\ pc' = [pc EXCEPT ![c] = "idle"]
        /\ call' = [call EXCEPT ![c] = NoCall]
        /\ worker' = [worker EXCEPT ![c] = "none"]
        /\ reg' = IF r = None THEN reg ELSE [reg EXCEPT ![r] = None]
        /\ waiting' = IF r = None THEN waiting ELSE unregister(waiting, r)
        /\ peers' = IF RollsBackPeer(c) THEN Table!remove(peers, call[c].sock) ELSE peers
        /\ permits' = IF ReturnsPermit(c) THEN permits + 1 ELSE permits
        /\ DropLock(c)
        /\ UNCHANGED snapshot

Goto(c, label) ==
    /\ pc' = [pc EXCEPT ![c] = label]
    /\ UNCHANGED <<call, worker, lockVars>>

Return(c, label) ==     \* leave connect_tcp, holding nothing but the lock
    /\ pc' = [pc EXCEPT ![c] = label]
    /\ call' = [call EXCEPT ![c] = IF label = "idle" THEN NoCall ELSE @]
    /\ worker' = [worker EXCEPT ![c] = "none"]
    /\ DropLock(c)
-------------------------------------------------------------------------------
(***************************************************************************)
(* dispatch and the first lines of connect_tcp: AF_UNSPEC is continued      *)
(* without the lock, anything else queues for the socket's lock.            *)
(***************************************************************************)
Dispatch(c) ==
    /\ pc[c] = "dispatch"
    /\ \/ /\ pc' = [pc EXCEPT ![c] = "idle"]               \* not valid
          /\ call' = [call EXCEPT ![c] = NoCall]
          /\ UNCHANGED <<worker, lockVars>>
       \/ call[c].tgt = Unspec /\ Goto(c, "native")
       \/ /\ call[c].tgt # Unspec
          /\ pc' = [pc EXCEPT ![c] = "lock"]
          /\ UNCHANGED <<call, worker>>
          /\ GetLock(c, call[c].sock)
    /\ UNCHANGED <<tableVars, ingress, kernel>>

Acquire(c) ==
    /\ pc[c] = "lock"
    /\ pc' = [pc EXCEPT ![c] = "state"]
    /\ UNCHANGED <<call, worker, tableVars, ingress, kernel>>
    /\ AcquireLock(c)

(***************************************************************************)
(* A socket that is not closed is connecting or connected: its connect is   *)
(* repeated on the ingress if it has a peer, else continued in the kernel.  *)
(***************************************************************************)
ReadState(c) ==
    LET s == call[c].sock
    IN  /\ pc[c] = "state"
        /\ \/ Return(c, "idle")                            \* not valid
           \/ Closed(s) /\ Goto(c, "route")
           \/ ~Closed(s) /\ peers[s] # None /\ Goto(c, "run")
           \/ ~Closed(s) /\ peers[s] = None /\ Return(c, "native")
        /\ UNCHANGED <<tableVars, ingress, kernel>>

Route(c) ==
    LET s == call[c].sock
        t == call[c].tgt
    IN  /\ pc[c] = "route"
        /\ peers' = Table!remove(peers, s)
        /\ \/ /\ t \in Fake \ Dns                          \* no domain: ENETUNREACH
              /\ Return(c, "idle") /\ UNCHANGED permits
           \/ /\ t \in Native \ (Dns \cup Fake)
              /\ Return(c, "native") /\ UNCHANGED permits
           \/ /\ t \notin Native \ (Dns \cup Fake)
              /\ permits = 0                               \* EAGAIN
              /\ Return(c, "idle") /\ UNCHANGED permits
           \/ /\ t \notin Native \ (Dns \cup Fake)
              /\ permits > 0
              /\ Goto(c, "insert") /\ permits' = permits - 1
        /\ UNCHANGED <<snapshot, waiting, reg, kernel>>

InsertPeer(c) ==
    /\ pc[c] = "insert"
    /\ \/ /\ Goto(c, "register")
          /\ peers' = Table!insert(peers, call[c].sock, call[c].tgt)
          /\ UNCHANGED <<snapshot, ingress>>
       \/ Fail(c)                                         \* not valid
    /\ UNCHANGED kernel

(***************************************************************************)
(* tcp_bind::prepare: the port getsockname reports, or else one that bind   *)
(* reserves.  Reserving can fail.                                           *)
(***************************************************************************)
prepare(s) == IF tcp[s].name # None THEN {tcp[s].name} ELSE SourcePorts(s)

Register(c) ==
    LET s == call[c].sock
    IN  /\ pc[c] = "register"
        /\ \/ \E p \in prepare(s), r \in {q \in Reg : reg[q] = None} :
                 /\ pc' = [pc EXCEPT ![c] = "run"]
                 /\ call' = [call EXCEPT ![c].reg = r]
                 /\ reg' = [reg EXCEPT ![r] = [sock |-> s, port |-> p, tgt |-> call[c].tgt,
                                               phase |-> "conn", sender |-> TRUE,
                                               stream |-> None, lost |-> FALSE]]
                 /\ waiting' = [waiting EXCEPT ![p] = Append(@, r)]
                 /\ tcp' = IF tcp[s].name # None THEN tcp
                           ELSE [tcp EXCEPT ![s].name = p, ![s].held = TRUE]
                 /\ UNCHANGED <<worker, lockVars, tableVars, permits>>
           \/ Fail(c) /\ UNCHANGED tcp
        /\ UNCHANGED backlog
-------------------------------------------------------------------------------
(***************************************************************************)
(* connect::run.  The worker thread calls connect(2) on the ingress; wait   *)
(* selects its result, an invalid notification or the 32-second timeout.    *)
(***************************************************************************)
Run(c) ==
    /\ pc[c] = "run"
    /\ \/ /\ pc' = [pc EXCEPT ![c] = "wait"]
          /\ worker' = [worker EXCEPT ![c] = "queued"]
          /\ UNCHANGED <<call, lockVars, tableVars, ingress>>
       \/ Fail(c)                                         \* not valid
    /\ UNCHANGED kernel

WorkerStart(c) ==       \* a thread of the blocking pool takes the closure
    /\ worker[c] = "queued"
    /\ worker' = [worker EXCEPT ![c] = "started"]
    /\ UNCHANGED <<pc, call, lockVars, tableVars, ingress, kernel>>

WorkerEnter(c) ==       \* connect(2); without O_NONBLOCK it waits for the handshake
    LET s    == call[c].sock
        sent == IF s \in Blocking THEN "inside" ELSE "ok"      \* EINPROGRESS is as good as ok
    IN  /\ worker[c] = "started"
        /\ \/ /\ tcp[s].state = "close"
              /\ \E p \in SourcePorts(s) :
                    tcp' = [tcp EXCEPT ![s] = [state |-> "syn", name |-> p, held |-> TRUE,
                                               to |-> "ingress", tgt |-> call[c].tgt,
                                               committed |-> None]]
              /\ worker' = [worker EXCEPT ![c] = sent]
           \/ /\ tcp[s].state = "syn" /\ s \in Blocking
              /\ worker' = [worker EXCEPT ![c] = "inside"]
              /\ UNCHANGED tcp
           \/ /\ tcp[s].state = "estab"        \* the second connect(2) of an
              /\ worker' = [worker EXCEPT ![c] = "ok"]    \* asynchronous one
              /\ UNCHANGED tcp
           \/ /\ worker' = [worker EXCEPT ![c] = "error"]  \* EADDRNOTAVAIL, EISCONN...
              /\ tcp' = IF tcp[s].state = "failed" THEN [tcp EXCEPT ![s].state = "close"]
                        ELSE tcp
        /\ UNCHANGED <<pc, call, lockVars, tableVars, ingress, backlog>>

WorkerReturn(c) ==      \* from the wait inside connect(2)
    LET s == call[c].sock
    IN  /\ worker[c] = "inside"
        /\ tcp[s].state # "syn"
        /\ \/ /\ Closed(s)
              /\ worker' = [worker EXCEPT ![c] = "error"]
              /\ tcp' = [tcp EXCEPT ![s].state = "close"]
           \/ /\ ~Closed(s)
              /\ worker' = [worker EXCEPT ![c] = "ok"]
              /\ UNCHANGED tcp
        /\ UNCHANGED <<pc, call, lockVars, tableVars, ingress, backlog>>

WorkerFinish(c) ==
    /\ worker[c] \in {"ok", "error"}
    /\ worker' = [worker EXCEPT ![c] = IF @ = "ok" THEN "done" ELSE "failed"]
    /\ UNCHANGED <<pc, call, lockVars, tableVars, ingress, kernel>>

WorkerThread(c) == WorkerStart(c) \/ WorkerEnter(c) \/ WorkerReturn(c) \/ WorkerFinish(c)

Finished(c) == worker[c] \in {"none", "done", "failed"}

WaitDone(c) ==
    /\ pc[c] = "wait"
    /\ Finished(c)
    /\ \/ /\ call[c].reg = None
          /\ Return(c, "idle") /\ UNCHANGED <<tableVars, ingress>>
       \/ /\ call[c].reg # None /\ worker[c] = "done"
          /\ Goto(c, "commit") /\ UNCHANGED <<tableVars, ingress>>
       \/ /\ call[c].reg # None /\ worker[c] = "failed"
          /\ Fail(c)
    /\ UNCHANGED kernel

(***************************************************************************)
(* PendingConnect::drop.  abort stops a worker that no thread has taken; as *)
(* long as any other has not finished the socket is shut down, wherever the *)
(* worker is: shutdown disconnects a socket in SYN_SENT, which wakes a      *)
(* waiter, ends an established connection, and does nothing to one that is  *)
(* closed, except that a failed one is then good for AF_UNSPEC only.        *)
(***************************************************************************)
WaitCancel(c) ==
    /\ pc[c] = "wait"
    /\ pc' = [pc EXCEPT ![c] = "cancel"]
    /\ worker' = [worker EXCEPT ![c] = IF @ = "queued" THEN "none" ELSE @]
    /\ UNCHANGED <<call, lockVars, tableVars, ingress, kernel>>

shutdown(s) ==
    /\ tcp' = [tcp EXCEPT ![s] = CASE tcp[s].state = "syn"    -> closed(s, "close")
                                   [] tcp[s].state = "estab"  -> [@ EXCEPT !.state = "shut"]
                                   [] tcp[s].state = "failed" -> [@ EXCEPT !.state = "dead"]
                                   [] OTHER -> @]
    /\ reg' = IF tcp[s].state = "syn" THEN abandon(s) ELSE reg

Bug_ShutdownOnce(c) ==
    /\ pc[c] = "cancel"
    /\ worker[c] = "started"
    /\ shutdown(call[c].sock)
    /\ UNCHANGED <<pc, call, worker, lockVars, tableVars, permits, waiting, backlog>>

CancelShutdown(c) ==
    /\ pc[c] = "cancel"
    /\ ~Finished(c)
    /\ shutdown(call[c].sock)
    /\ UNCHANGED <<pc, call, worker, lockVars, tableVars, permits, waiting, backlog>>

CancelDone(c) ==
    /\ pc[c] = "cancel"
    /\ Finished(c)
    /\ Fail(c)
    /\ UNCHANGED kernel

Commit(c) ==            \* the relay task takes the registration and the permit
    LET s == call[c].sock
    IN  /\ pc[c] = "commit"
        /\ peers' = Table!commit(peers, s)
        /\ tcp' = [tcp EXCEPT ![s].committed = IF Closed(s) THEN None ELSE call[c].tgt]
        /\ reg' = [reg EXCEPT ![call[c].reg].phase = "accept"]
        /\ pc' = [pc EXCEPT ![c] = "idle"]
        /\ call' = [call EXCEPT ![c] = NoCall]
        /\ worker' = [worker EXCEPT ![c] = "none"]
        /\ DropLock(c)
        /\ UNCHANGED <<snapshot, permits, waiting, backlog>>
-------------------------------------------------------------------------------
(***************************************************************************)
(* The accept loop: a stream goes to the first registration of its source   *)
(* port that still waits and whose socket has both endpoints of the stream; *)
(* otherwise it is closed.                                                  *)
(***************************************************************************)
Bug_MatchPort(r, st) == reg[r].sender

Matches(r, st) ==
    LET s == reg[r].sock
    IN  /\ reg[r].sender
        /\ tcp[s].name = st.port                  \* address(fd, false) = source: a pinned
        /\ s = st.sock \/ {s, st.sock} \cap Pinned = {}    \* socket has an IP of its own
        /\ tcp[s].state \in {"estab", "shut"}     \* address(fd, true) = self.address:
        /\ tcp[s].to = "ingress"                  \* none in SYN_SENT

deliver(st) ==
    LET w == waiting[st.port]
        I == {i \in 1..Len(w) : Matches(w[i], st)}         \* find_map
    IN  \/ I = {} /\ UNCHANGED reg
        \/ \E k \in I :
              /\ \A i \in I : k <= i
              /\ reg' = [reg EXCEPT ![w[k]] = [@ EXCEPT !.sender = FALSE, !.stream = st]]

Accept ==
    /\ backlog # <<>>
    /\ backlog' = Tail(backlog)
    /\ deliver(Head(backlog))
    /\ UNCHANGED <<pc, call, worker, lockVars, tableVars, permits, waiting, tcp>>

(***************************************************************************)
(* The relay task: wait for the stream, connect upstream, then relay (see   *)
(* Relay) without permit or registration.  32 seconds cover both waits.     *)
(***************************************************************************)
RelayAccept(r) ==
    /\ reg[r] # None /\ reg[r].phase = "accept"
    /\ reg[r].stream # None
    /\ waiting' = unregister(waiting, r)
    /\ \/ /\ reg[r].tgt \notin Dns
          /\ reg' = [reg EXCEPT ![r].phase = "upstream"]
          /\ UNCHANGED permits
       \/ /\ reg[r].tgt \in Dns
          /\ reg' = [reg EXCEPT ![r] = None]
          /\ permits' = permits + 1
    /\ UNCHANGED <<pc, call, worker, lockVars, tableVars, kernel>>

Bug_NoAcceptTimeout(r) ==
    /\ reg[r] # None /\ reg[r].phase = "upstream"
    /\ waiting' = unregister(waiting, r)
    /\ reg' = [reg EXCEPT ![r] = None]
    /\ permits' = permits + 1
    /\ UNCHANGED <<pc, call, worker, lockVars, tableVars, kernel>>

RelayConnected(r) ==    \* upstream connected or failed, or the timeout
    /\ reg[r] # None /\ reg[r].phase \in {"accept", "upstream"}
    /\ waiting' = unregister(waiting, r)
    /\ reg' = [reg EXCEPT ![r] = None]
    /\ permits' = permits + 1
    /\ UNCHANGED <<pc, call, worker, lockVars, tableVars, kernel>>
-------------------------------------------------------------------------------
(***************************************************************************)
(* The cleanup tick and the socket dump it starts.                          *)
(***************************************************************************)
Tick ==
    /\ Cleanup
    /\ UNCHANGED <<pc, call, worker, ingress, kernel>>
    /\ RetainLocks
    /\ \/ Table!SnapshotStart
       \/ /\ snapshot # None \/ \A s \in Socket : peers[s] = None
          /\ UNCHANGED <<peers, snapshot>>

Snapshot ==
    /\ UNCHANGED <<pc, call, worker, lockVars, ingress, kernel>>
    /\ \/ \E s \in Socket : Table!SnapshotVisit(s, Closed(s))
       \/ Table!Retain
       \/ Table!SnapshotFail

Task(c) ==              \* one step of the task that handles call c
    \/ Dispatch(c) \/ Acquire(c) \/ ReadState(c) \/ Route(c) \/ InsertPeer(c)
    \/ Register(c) \/ Run(c) \/ WaitDone(c) \/ WaitCancel(c) \/ CancelShutdown(c)
    \/ CancelDone(c) \/ Commit(c)

Next ==
    \/ \E c \in Call : \/ \E s \in Socket, t \in Target \cup {Unspec} : Connect(c, s, t)
                       \/ NativeCall(c) \/ Task(c)
                       \/ WorkerStart(c) \/ WorkerEnter(c) \/ WorkerReturn(c) \/ WorkerFinish(c)
    \/ \E s \in Socket : Handshake(s) \/ ConnectionLost(s)
    \/ Accept
    \/ \E r \in Reg : RelayAccept(r) \/ RelayConnected(r)
    \/ Tick \/ Snapshot

Spec == Init /\ [][Next]_vars

(***************************************************************************)
(* Every spawned task, worker thread and timer makes progress; tokio's      *)
(* mutex is granted in FIFO order.                                          *)
(***************************************************************************)
Fairness ==
    /\ \A c \in Call : /\ WF_vars(Task(c)) /\ SF_vars(Acquire(c))
                       /\ WF_vars(WorkerThread(c))
                       /\ WF_vars(NativeCall(c))
    /\ \A r \in Reg : WF_vars(RelayConnected(r))

FairSpec == Spec /\ Fairness
-------------------------------------------------------------------------------
(***************************************************************************)
(* No path through connect_tcp or its relay task loses or doubles a permit  *)
(* of Broker::pending (tcp.rs:89-93, 130, 150), and "Entries are bounded by *)
(* the broker's pending-connection semaphore" (tcp_ingress.rs:40).          *)
(***************************************************************************)
PermitsConserved ==
    LET entries == UNION {{<<p, i>> : i \in 1..Len(waiting[p])} : p \in Port}
        holders == Cardinality({r \in Reg : reg[r] # None})
                   + Cardinality({c \in Call : pc[c] \in {"insert", "register"}})
    IN  /\ permits + holders = MaxPending
        /\ Cardinality(entries) <= MaxPending - permits

(***************************************************************************)
(* "A port narrows the candidates; both endpoints identify the socket"      *)
(* (tcp_ingress.rs:97), and "Addresses are matched and sent to the selected *)
(* route as requested" (README.md:53).  A relay is never given the open     *)
(* stream of another socket, whoever shares the port or takes it over, and  *)
(* it was made for the target that the stream's connect asked for, unless   *)
(* the connection it was made for was lost before its stream came.          *)
(***************************************************************************)
RoutedAsRequested ==
    \A r \in Reg : reg[r] # None /\ reg[r].stream # None /\ reg[r].stream.open =>
        /\ reg[r].stream.sock = reg[r].sock
        /\ ~reg[r].lost => reg[r].stream.tgt = reg[r].tgt

(***************************************************************************)
(* "Reserve and register the source port before connect can enqueue a       *)
(* stream" (tcp_ingress.rs:39): while a connect runs, its socket connects   *)
(* from the port it is registered under.                                    *)
(***************************************************************************)
ReservedBeforeConnect ==
    \A c \in Call :
        pc[c] = "wait" /\ call[c].reg # None /\ tcp[call[c].sock].to = "ingress"
            => tcp[call[c].sock].name = reg[call[c].reg].port

(***************************************************************************)
(* tcp_target: what getpeername and SO_PEERNAME report for a connected      *)
(* socket; "ingress" stands for the relay's own address.                    *)
(***************************************************************************)
peer_name(s) == IF tcp[s].to # "ingress" THEN tcp[s].tgt
                ELSE IF peers[s] # None THEN peers[s].target ELSE "ingress"

(***************************************************************************)
(* "`getpeername` reports the requested destination" (README.md:81) for     *)
(* every connection that a connect reported as made or in progress,         *)
(* whatever connects, interrupts, disconnects and cleanups follow.          *)
(***************************************************************************)
PeerNameRequested ==
    \A s \in Socket :
        tcp[s].committed # None /\ tcp[s].state = "estab" => peer_name(s) = tcp[s].tgt

(***************************************************************************)
(* Every connect notification is answered: no call waits forever for a lock,*)
(* a worker that does not return, or its own cancellation.                  *)
(***************************************************************************)
Answered == \A c \in Call : pc[c] = "dispatch" ~> pc[c] = "idle"

(***************************************************************************)
(* Every registration, and the permit that bounds it, is given back.        *)
(***************************************************************************)
PermitsReturn == \A r \in Reg : reg[r] # None ~> reg[r] = None
-------------------------------------------------------------------------------
(***************************************************************************)
(* What makes these hold.  A call inside connect_tcp has the lock of its    *)
(* socket, from tcp.rs:60 on as its owner; before and after it has none.    *)
(***************************************************************************)
Unlocked == {"idle", "dispatch", "native"}
Working  == {"state", "route", "insert", "register", "run", "wait", "cancel", "commit"}

Holds(c) ==
    /\ pc[c] \in Unlocked <=> arc[c] = None
    /\ pc[c] \notin Unlocked => sk[c] = call[c].sock /\ call[c].tgt \in Target
    /\ pc[c] \in Working => owner[arc[c]] = c
    /\ pc[c] \notin {"run", "wait", "cancel", "commit"} => call[c].reg = None
    /\ pc[c] = "commit" => call[c].reg # None

HoldsIInv == \A c \in Call : Holds(c)

WorkersIInv ==          \* a worker belongs to a call that waits for it, or has seen its end
    /\ worker \in [Call -> Worker]
    /\ \A c \in Call : /\ worker[c] # "none" => pc[c] \in {"wait", "cancel", "commit"}
                       /\ pc[c] = "commit" => worker[c] = "done"

(***************************************************************************)
(* From the moment it found its socket closed, a call that is going to make *)
(* a relayed connection is the only one that can: whatever else happens to  *)
(* the socket is native.  So a committed connection to the ingress has the  *)
(* target that was committed.                                               *)
(***************************************************************************)
Connecting(c) == pc[c] \in {"route", "insert"} \/ Inserted(c)

OwnConnection(s, t) ==
    /\ tcp[s].committed = None
    /\ ~Closed(s) /\ tcp[s].to = "ingress" => tcp[s].tgt = t

SocketsIInv ==
    /\ tcp \in [Socket -> TcpSocket]
    /\ \A c \in Call : Connecting(c) => OwnConnection(call[c].sock, call[c].tgt)
    /\ \A s \in Socket : tcp[s].committed # None =>
           ~Closed(s) /\ (tcp[s].to = "ingress" => tcp[s].tgt = tcp[s].committed)

(***************************************************************************)
(* Ports: a socket that is up has one, and no other socket has the same     *)
(* address and port; only connect(2) on the ingress leaves one in SYN_SENT. *)
(***************************************************************************)
NamesIInv ==
    /\ \A s \in Socket :
          /\ s \in Pinned \/ ~Closed(s) => tcp[s].held
          /\ tcp[s].held => tcp[s].name \in Port
          /\ ~Closed(s) => tcp[s].tgt \in Target
          /\ tcp[s].state = "syn" => tcp[s].to = "ingress"
    /\ \A s, u \in Socket : tcp[s].held /\ tcp[u].held /\ tcp[s].name = tcp[u].name =>
          s = u \/ {s, u} \subseteq Pinned

(***************************************************************************)
(* The ingress.  A registration belongs to its call until the commit, and   *)
(* to its relay task from then on; the waiting lists have no other entries, *)
(* and none twice.                                                          *)
(***************************************************************************)
IngressTyped ==
    /\ backlog \in Seq(Stream)
    /\ reg \in [Reg -> Registration \cup {None}]
    /\ waiting \in [Port -> Seq(Reg)]

WaitersLive ==
    \A p \in Port :
        /\ IsInjective(waiting[p])
        /\ \A i \in 1..Len(waiting[p]) :
              reg[waiting[p][i]] # None /\ reg[waiting[p][i]].port = p

CallsRegistered ==
    \A c \in Call : call[c].reg # None =>
        /\ reg[call[c].reg] # None /\ reg[call[c].reg].phase = "conn"
        /\ reg[call[c].reg].sock = call[c].sock /\ reg[call[c].reg].tgt = call[c].tgt

RegisteredOnce == \A c, d \in Call : call[c].reg # None /\ call[c].reg = call[d].reg => c = d

PendingOwned ==
    \A r \in Reg : reg[r] # None /\ reg[r].phase = "conn" => \E c \in Call : call[c].reg = r

IngressIInv ==
    IngressTyped /\ WaitersLive /\ CallsRegistered /\ RegisteredOnce /\ PendingOwned

Live      == {r \in Reg : reg[r] # None}
Reserving == {c \in Call : pc[c] \in {"insert", "register"}}

PermitsIInv ==
    /\ permits \in Nat
    /\ IsFiniteSet(Live) /\ IsFiniteSet(Reserving)
    /\ permits + Cardinality(Live) + Cardinality(Reserving) = MaxPending

(***************************************************************************)
(* An open stream in the accept queue is of the connection its socket has.  *)
(* From the SYN on, the connection a registration was made for is up until  *)
(* the registration counts as lost.                                         *)
(***************************************************************************)
StreamsCurrent ==
    \A i \in 1..Len(backlog) : backlog[i].open =>
        LET t == tcp[backlog[i].sock]
        IN  /\ t.state \in {"estab", "shut"} /\ t.to = "ingress"
            /\ t.name = backlog[i].port /\ t.tgt = backlog[i].tgt

CallsConnected ==
    \A c \in Call : /\ call[c].reg # None /\ worker[c] \in {"inside", "ok", "done"}
                    /\ reg[call[c].reg].sender /\ ~reg[call[c].reg].lost
                    => ~Closed(call[c].sock)

RelaysConnected ==
    \A r \in Reg : reg[r] # None /\ reg[r].phase # "conn" /\ reg[r].sender /\ ~reg[r].lost =>
        /\ ~Closed(reg[r].sock)
        /\ tcp[reg[r].sock].to = "ingress" => tcp[reg[r].sock].tgt = reg[r].tgt

RoutesIInv == StreamsCurrent /\ CallsConnected /\ RelaysConnected /\ RoutedAsRequested
===============================================================================
