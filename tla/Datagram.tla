------------------------------ MODULE Datagram ------------------------------
(***************************************************************************)
(* DNS datagrams: the broker's table of local DNS servers (broker/dns.rs)  *)
(* and the send, receive and connect calls it performs on an application's *)
(* UDP socket (broker/datagram.rs).  Several threads of the application    *)
(* use one socket; each trapped call is handled by a task of the broker    *)
(* and may be abandoned (a signal, an exit) between any two of its steps.  *)
(* A query is a number, a reply is the number of its query together with   *)
(* the address it came from; payloads and control data are left out.       *)
(***************************************************************************)
EXTENDS Integers, Sequences, FiniteSets

CONSTANTS
  Destination,   \* socket addresses applications name
  Port53,        \* those of them whose port is 53
  Virtual,       \* the virtual resolver, served from the start
  Local,         \* loopback endpoints bind(2) may return
  MAX_SERVERS,   \* the limit of the server table (128)
  Call,          \* tasks of the broker that handle datagram calls
  Requests,      \* the calls applications make
  MaxBatch,      \* bound: messages in a batch
  MaxQueries,    \* bound: queries sent
  None

(* The calls that reach dispatch's loop.  waitone is MSG_WAITFORONE,       *)
(* nonblock is O_NONBLOCK or MSG_DONTWAIT, to is None for no name, timed   *)
(* holds "socket" for SO_RCVTIMEO/SO_SNDTIMEO and "batch" for a timeout    *)
(* argument of recvmmsg.                                                   *)
Request ==
  {r \in [receive : BOOLEAN, batch : BOOLEAN, count : 0..MaxBatch, waitone : BOOLEAN,
          nonblock : BOOLEAN, to : Destination \cup {None}, timed : SUBSET {"socket", "batch"}] :
     /\ ~r.batch => r.count = 1
     /\ r.waitone => r.receive /\ r.batch
     /\ "batch" \in r.timed => r.receive /\ r.batch
     /\ r.receive => r.to = None}

ASSUME DatagramAssumption ==
  /\ Port53 \subseteq Destination
  /\ Virtual \in Port53
  /\ MAX_SERVERS \in Nat \ {0}
  /\ MaxBatch \in Nat /\ MaxQueries \in Nat
  /\ None \notin Destination \cup Local
  /\ Local # {}
  /\ Requests \subseteq Request

VARIABLES
  forward, reverse,  \* Servers
  peer, named,       \* the socket's peer, and the address connect(2) named
  asked,             \* history: asked[q] is the address query q was meant for
  inbox,             \* queries on their way to a local server
  rx,                \* the socket's receive queue
  delivered,         \* history: replies written to the application, with the
                     \* source address written beside them
  task               \* the calls being handled

servers == <<forward, reverse>>
socket  == <<peer, named>>
traffic == <<asked, inbox, rx, delivered>>
vars    == <<servers, socket, traffic, task>>

(* A task: its place, the call, a send's local endpoint and (history) the  *)
(* address that stands for, a received datagram not yet copied, dispatch's *)
(* completed and result (also the reply), whether the notification still   *)
(* waits, the deadlines that have passed, and (history) the datagrams the  *)
(* kernel moved and whether a bad pointer was met.                         *)
Fresh(place, r, d) ==
  [pc |-> place, req |-> r, dst |-> None, meant |-> d, held |-> None, completed |-> 0,
   result |-> 0, valid |-> TRUE, due |-> {}, moved |-> 0, faulted |-> FALSE]
Idle == Fresh("idle", None, None)

Running(c) == task[c].pc \notin {"idle", "done"}
Served     == {d \in Destination : forward[d] # None}

(* Replies are the values a system call returns: errors are negative. *)
EINTR        == -4
EAGAIN       == -11
EFAULT       == -14
EDESTADDRREQ == -89
ENETUNREACH  == -101
ENOBUFS      == -105
ECONNREFUSED == -111
Error == {EINTR, EAGAIN, EFAULT, EDESTADDRREQ, ENETUNREACH, ENOBUFS, ECONNREFUSED}

(* Dns::new serves the virtual resolver. *)
Init ==
  /\ \E l \in Local :
       /\ forward = [d \in Destination |-> IF d = Virtual THEN l ELSE None]
       /\ reverse = [k \in Local |-> IF k = l THEN Virtual ELSE None]
  /\ peer = None /\ named = None
  /\ asked = <<>> /\ inbox = {} /\ rx = <<>> /\ delivered = {}
  /\ task = [c \in Call |-> Idle]

-----------------------------------------------------------------------------
(* The server table. *)

Full == Cardinality(Served) >= MAX_SERVERS

(* bind(2) with port 0: an endpoint no socket has. *)
Unbound == {l \in Local : reverse[l] = None}

(* server_for(d) answers l, from the table or from a new server. *)
Bug_ReuseWhenFull(d, l) ==
  /\ d \in Port53
  /\ \/ forward[d] = l /\ UNCHANGED servers
     \/ /\ forward[d] = None /\ l \in IF Full THEN Local \ Unbound ELSE Unbound
        /\ forward' = [forward EXCEPT ![d] = l]
        /\ reverse' = [reverse EXCEPT ![l] = d]
server_for(d, l) ==
  /\ d \in Port53
  /\ \/ forward[d] = l /\ UNCHANGED servers
     \/ /\ forward[d] = None /\ ~Full /\ l \in Unbound
        /\ forward' = [forward EXCEPT ![d] = l]
        /\ reverse' = [reverse EXCEPT ![l] = d]

(* server_for(d) fails with e: the table is full, or bind(2) failed. *)
refused(d, e) ==
  \/ d \notin Port53 /\ e = ENETUNREACH
  \/ d \in Port53 /\ forward[d] = None /\ e = ENOBUFS

original_server(l) == reverse[l]

(* serve_udp answers a query, or drops what it cannot parse; the kernel    *)
(* passes a connected socket only what comes from its peer.                *)
serve_udp(m) ==
  /\ inbox' = inbox \ {m}
  /\ \/ peer \in {None, m.at} /\ rx' = Append(rx, [q |-> m.q, src |-> m.at])
     \/ UNCHANGED rx
  /\ UNCHANGED <<servers, socket, asked, delivered, task>>

-----------------------------------------------------------------------------
(* The application. *)

Begin(c, t) ==
  /\ task[c].pc = "idle"
  /\ task' = [task EXCEPT ![c] = t]
  /\ UNCHANGED <<servers, socket, traffic>>

Transmit(c) ==
  \E r \in Requests : Begin(c, Fresh(IF r.count = 0 THEN "tail" ELSE "message", r, None))

Connect(c) == \E d \in Destination : Begin(c, Fresh("connect", None, d))

(* The caller takes the reply; what the task held is gone. *)
Collect(c) ==
  /\ task[c].pc = "done"
  /\ task' = [task EXCEPT ![c] = Idle]
  /\ UNCHANGED <<servers, socket, traffic>>

(* connect(2) with AF_UNSPEC runs natively. *)
Disconnect ==
  /\ peer # None
  /\ peer' = None /\ named' = None
  /\ UNCHANGED <<servers, traffic, task>>

(* A signal or an exit of the thread withdraws the notification. *)
Abandon(c) ==
  /\ Running(c) /\ task[c].valid
  /\ task' = [task EXCEPT ![c].valid = FALSE]
  /\ UNCHANGED <<servers, socket, traffic>>

(* SO_RCVTIMEO, SO_SNDTIMEO or recvmmsg's timeout runs out. *)
Expire(c) ==
  /\ Running(c) /\ task[c].req # None
  /\ \E x \in task[c].req.timed \ task[c].due : task' = [task EXCEPT ![c].due = @ \cup {x}]
  /\ UNCHANGED <<servers, socket, traffic>>

-----------------------------------------------------------------------------
(* One task.  Each step gives the task its next record. *)

Step(c, place, t) == task[c].pc = place /\ task' = [task EXCEPT ![c] = t]
Goto(t, place)    == [t EXCEPT !.pc = place]
Reply(t, value)   == [t EXCEPT !.pc = "done", !.result = value]

(* An error of one message ends a batch, which still reports what was      *)
(* completed; a single call just returns it.                               *)
Stop(t, error) == [t EXCEPT !.pc = IF t.req.batch THEN "tail" ELSE "done", !.result = error]
Fault(t)       == Stop([t EXCEPT !.faulted = TRUE], EFAULT)

ConnectServer(c) ==
  /\ \/ \E l \in Local :
          /\ Step(c, "connect", [task[c] EXCEPT !.pc = "connecting", !.dst = l])
          /\ server_for(task[c].meant, l)
     \/ \E e \in Error :
          /\ Step(c, "connect", Reply(task[c], e))
          /\ refused(task[c].meant, e) /\ UNCHANGED servers
  /\ UNCHANGED <<socket, traffic>>

ConnectNow(c) ==
  /\ Step(c, "connecting", Reply(task[c], IF task[c].valid THEN 0 ELSE EINTR))
  /\ IF task[c].valid THEN peer' = task[c].dst /\ named' = task[c].meant ELSE UNCHANGED socket
  /\ UNCHANGED <<servers, traffic>>

(* The message is read from the caller, and a send gets its destination:   *)
(* from the name, or from the socket's peer.                               *)
Addressed(t, l, d) == [t EXCEPT !.pc = "check", !.dst = l, !.meant = d]
Named(c) ==
  /\ ~task[c].req.receive /\ task[c].req.to # None
  /\ \/ \E l \in Local :
          /\ Step(c, "message", Addressed(task[c], l, task[c].req.to))
          /\ server_for(task[c].req.to, l)
     \/ \E e \in Error :
          /\ Step(c, "message", Stop(task[c], e))
          /\ refused(task[c].req.to, e) /\ UNCHANGED servers
Message(c) ==
  /\ task[c].pc = "message"
  /\ \/ Named(c)
     \/ /\ UNCHANGED servers
        /\ \/ task[c].req.receive /\ Step(c, "message", Goto(task[c], "check"))
           \/ Step(c, "message", Fault(task[c]))
           \/ /\ ~task[c].req.receive /\ task[c].req.to = None
              /\ Step(c, "message", IF peer = None THEN Stop(task[c], EDESTADDRREQ)
                                    ELSE Addressed(task[c], peer, named))
  /\ UNCHANGED <<socket, traffic>>

(* The first statement of transfer's loop. *)
Bug_NoCheck(c) ==
  /\ Step(c, "check", Goto(task[c], "transfer"))
  /\ UNCHANGED <<servers, socket, traffic>>
Check(c) ==
  /\ Step(c, "check", IF task[c].valid THEN Goto(task[c], "transfer") ELSE Stop(task[c], EINTR))
  /\ UNCHANGED <<servers, socket, traffic>>

(* After its first message a MSG_WAITFORONE batch has MSG_DONTWAIT. *)
nonblocking(t) == t.req.nonblock \/ (t.req.waitone /\ t.completed > 0)

Bug_NoDeadline(t) == FALSE
expired(t) == t.due # {}

(* A batch goes on to write the message's length; a single call is done. *)
Moved(t) == IF t.req.batch THEN Goto(t, "count") ELSE Reply(t, 1)

(* transfer_now sends, receives, would block (an empty receive queue, a    *)
(* full send buffer) or fails.                                             *)
Send(c) ==
  /\ ~task[c].req.receive /\ Len(asked) < MaxQueries
  /\ Step(c, "transfer", Moved([task[c] EXCEPT !.moved = @ + 1]))
  /\ asked' = Append(asked, task[c].meant)
  /\ inbox' = inbox \cup {[q |-> Len(asked) + 1, at |-> task[c].dst]}
  /\ UNCHANGED <<servers, socket, rx, delivered>>

Receive(c) ==
  /\ task[c].req.receive /\ rx # <<>>
  /\ Step(c, "transfer", [task[c] EXCEPT !.pc = "copy", !.held = Head(rx), !.moved = @ + 1])
  /\ rx' = Tail(rx)
  /\ UNCHANGED <<servers, socket, asked, inbox, delivered>>

WouldBlock(c) ==
  /\ task[c].req.receive => rx = <<>>
  /\ Step(c, "transfer", IF nonblocking(task[c]) \/ expired(task[c])
                         THEN Stop(task[c], EAGAIN) ELSE Goto(task[c], "wait"))
  /\ UNCHANGED <<servers, socket, traffic>>

Refuse(c) ==
  /\ Step(c, "transfer", Stop(task[c], ECONNREFUSED))
  /\ UNCHANGED <<servers, socket, traffic>>

Transfer(c) == task[c].pc = "transfer" /\ (Send(c) \/ Receive(c) \/ WouldBlock(c) \/ Refuse(c))

(* The wait ends with readiness or, at the latest, with the 10 ms tick. *)
Wait(c) ==
  /\ Step(c, "wait", Goto(task[c], "check"))
  /\ UNCHANGED <<servers, socket, traffic>>

(* A received datagram is written to the caller with its source address. *)
Source(l) == IF original_server(l) = None THEN l ELSE original_server(l)
Copy(c) ==
  LET t == [task[c] EXCEPT !.held = None] IN
  /\ \/ /\ Step(c, "copy", Stop(t, EINTR))
        /\ ~t.valid /\ UNCHANGED delivered
     \/ /\ Step(c, "copy", Fault(t))
        /\ t.valid /\ UNCHANGED delivered
     \/ /\ Step(c, "copy", Moved(t))
        /\ t.valid
        /\ delivered' = delivered \cup {[q |-> task[c].held.q, from |-> Source(task[c].held.src)]}
  /\ UNCHANGED <<servers, socket, asked, inbox, rx>>

(* A batch writes the length into the message's header. *)
Count(c) ==
  LET t == task[c] IN
  /\ \/ ~t.valid /\ Step(c, "count", Reply(t, EINTR))
     \/ t.valid /\ Step(c, "count", Fault(t))
     \/ /\ t.valid
        /\ Step(c, "count", [t EXCEPT !.completed = @ + 1,
             !.pc = IF t.completed + 1 = t.req.count THEN "tail" ELSE "message"])
  /\ UNCHANGED <<servers, socket, traffic>>

(* What dispatch returns after the loop. *)
Bug_ErrorFirst(t) == IF t.result # 0 THEN t.result ELSE t.completed
outcome(t) == IF t.completed > 0 THEN t.completed ELSE t.result

(* The remaining time is written back first; a recvmmsg that ran into its  *)
(* own timeout without a message returns 0.                                *)
TimedOut(t) == t.completed = 0 /\ "batch" \in t.due /\ t.result = EAGAIN
Finish(c) ==
  LET t == task[c] IN
  /\ t.pc = "tail"
  /\ \/ "batch" \notin t.req.timed /\ Step(c, "tail", Reply(t, outcome(t)))
     \/ /\ "batch" \in t.req.timed
        /\ \/ ~t.valid /\ Step(c, "tail", Reply(t, EINTR))
           \/ t.valid /\ Step(c, "tail", [Reply(t, EFAULT) EXCEPT !.faulted = TRUE])
           \/ t.valid /\ Step(c, "tail", Reply(t, IF TimedOut(t) THEN 0 ELSE outcome(t)))
  /\ UNCHANGED <<servers, socket, traffic>>

Task(c) ==
  \/ ConnectServer(c) \/ ConnectNow(c) \/ Message(c) \/ Check(c) \/ Transfer(c)
  \/ Wait(c) \/ Copy(c) \/ Count(c) \/ Finish(c)

Next ==
  \/ \E c \in Call :
       Transmit(c) \/ Connect(c) \/ Collect(c) \/ Abandon(c) \/ Expire(c) \/ Task(c)
  \/ Disconnect
  \/ \E m \in inbox : serve_udp(m)

Spec == Init /\ [][Next]_vars

(* Tasks are polled and clocks advance; applications and datagrams need not. *)
FairSpec == Spec /\ \A c \in Call : WF_vars(Task(c)) /\ WF_vars(Expire(c))

-----------------------------------------------------------------------------
Place == {"idle", "connect", "connecting", "message", "check", "transfer", "wait", "copy",
          "count", "tail", "done"}

(* The tables never exceed the limit, a datagram is held exactly between   *)
(* recvmsg and the copy, and a call moves no more than it was asked for.   *)
TypeOK ==
  /\ forward \in [Destination -> Local \cup {None}]
  /\ reverse \in [Local -> Destination \cup {None}]
  /\ Cardinality(Served) <= MAX_SERVERS
  /\ peer \in Local \cup {None} /\ named \in Destination \cup {None}
  /\ asked \in Seq(Destination) /\ Len(asked) <= MaxQueries
  /\ inbox \subseteq [q : 1..MaxQueries, at : Local]
  /\ rx \in Seq([q : 1..MaxQueries, src : Local])
  /\ delivered \subseteq [q : 1..MaxQueries, from : Destination \cup Local]
  /\ \A c \in Call :
       LET t == task[c] IN
       /\ t.pc \in Place
       /\ t.req \in Request \cup {None} /\ t.result \in Error \cup 0..MaxBatch
       /\ t.dst \in Local \cup {None} /\ t.meant \in Destination \cup {None}
       /\ (t.held # None) <=> (t.pc = "copy")
       /\ t.req # None => t.completed <= t.moved /\ t.moved <= t.req.count

(* A reply reaches the application with the address its query was sent to  *)
(* as source, also when queries to several resolvers overlap on one socket *)
(* and when threads reconnect it meanwhile (dns.rs, the comment in         *)
(* server_for: distinct local endpoints preserve the source).              *)
SourcePreserved == \A m \in delivered : m.from = asked[m.q]

(* What makes it so: the tables are inverse, entries are never changed,    *)
(* and wherever an endpoint travels (the socket's peer, a task, a queue)   *)
(* it stands for the address the application named.                        *)
TaskSet ==
  [pc : Place, req : Request \cup {None}, dst : Local \cup {None},
   meant : Destination \cup {None}, held : [q : Nat, src : Local] \cup {None},
   completed : Nat, result : Int, valid : BOOLEAN, due : SUBSET {"socket", "batch"},
   moved : Nat, faulted : BOOLEAN]
StandsFor(l, d) == l \in Local /\ d \in Destination /\ reverse[l] = d
Genuine(q, l)   == q \in 1..Len(asked) /\ StandsFor(l, asked[q])
Sending(t)      == \/ t.pc = "connecting"
                   \/ t.pc \in {"check", "transfer", "wait"} /\ ~t.req.receive
TaskGenuine(t)  == /\ Sending(t) => StandsFor(t.dst, t.meant)
                   /\ t.pc = "copy" => Genuine(t.held.q, t.held.src)
SourcesIInv ==
  /\ forward \in [Destination -> Local \cup {None}]
  /\ reverse \in [Local -> Destination \cup {None}]
  /\ \A d \in Destination : forward[d] # None => reverse[forward[d]] = d
  /\ peer # None => StandsFor(peer, named)
  /\ asked \in Seq(Destination)
  /\ inbox \subseteq [q : Nat, at : Local] /\ \A m \in inbox : Genuine(m.q, m.at)
  /\ rx \in Seq([q : Nat, src : Local]) /\ \A i \in 1..Len(rx) : Genuine(rx[i].q, rx[i].src)
  /\ \A m \in delivered : m.q \in 1..Len(asked) /\ m.from = asked[m.q]
  /\ task \in [Call -> TaskSet] /\ \A c \in Call : TaskGenuine(task[c])

(* A call that was not abandoned and met no bad pointer reports exactly    *)
(* the datagrams the kernel moved for it: an error after the first message *)
(* of a batch hides none, and an error reply means that none was moved     *)
(* (dispatch's loop and its return).                                       *)
CountExact ==
  \A c \in Call : LET t == task[c] IN
    t.pc = "done" /\ t.valid /\ ~t.faulted /\ t.req # None
      => t.moved = IF t.result < 0 THEN 0 ELSE t.result

(* What makes it so: between two messages a call has counted what was      *)
(* moved, between a transfer and the count it is one behind, only a batch  *)
(* gets to the tail, and nothing but an error ends a batch early.          *)
Counted(t) ==
  /\ ~t.req.batch => t.completed = 0 /\ t.pc \notin {"count", "tail"}
  /\ t.valid /\ ~t.faulted =>
       /\ t.pc \in {"message", "check", "transfer", "wait"} => t.moved = t.completed
       /\ t.pc \in {"copy", "count"} => t.moved = t.completed + 1
       /\ t.pc = "tail" => t.moved = t.completed /\ (t.completed = 0 => t.result <= 0)
       /\ t.pc = "done" => t.moved = IF t.result < 0 THEN 0 ELSE t.result
Exact(t) == IF t.pc \in {"connect", "connecting"} THEN t.req = None
            ELSE t.req # None => Counted(t)
CountsIInv == \A c \in Call : Exact(task[c])

(* An abandoned call ends, though its socket stays idle, and so gives back *)
(* the descriptor it duplicated (the comment in transfer's wait).          *)
Released == \A c \in Call : Running(c) /\ ~task[c].valid ~> ~Running(c)

(* A call with a deadline ends, whatever arrives meanwhile (transfer's     *)
(* deadline is set once for the whole batch).                              *)
Timed(c) == Running(c) /\ task[c].req # None /\ task[c].req.timed # {}
TimesOut == \A c \in Call : Timed(c) ~> ~Running(c)
=============================================================================
