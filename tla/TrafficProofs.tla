----------------------------- MODULE TrafficProofs ----------------------------
(***************************************************************************)
(* Proofs about what is carried.  Datagrams: a reply carries the address    *)
(* its query was sent to, and a batch call reports the datagrams it moved,  *)
(* for any number of resolvers, endpoints, threads and queries.  Streams:   *)
(* relay::run cuts nothing short when it closes after an EOF, for every     *)
(* buffer size and every amount of data.                                    *)
(***************************************************************************)
EXTENDS Datagram, Relay, TLAPS

(* No entry of the tables and no query of the history is ever changed. *)
Grows ==
  /\ \A l \in Local : reverse[l] \in Destination => reverse'[l] = reverse[l]
  /\ \A q \in 1..Len(asked) : q \in 1..Len(asked') /\ asked'[q] = asked[q]

Tables ==
  /\ forward \in [Destination -> Local \cup {None}]
  /\ reverse \in [Local -> Destination \cup {None}]
  /\ \A d \in Destination : forward[d] # None => reverse[forward[d]] = d

(* server_for keeps the tables inverse, changes no entry, and its answer   *)
(* stands for the destination asked for.                                   *)
LEMMA ServerFor ==
  ASSUME Tables, NEW d \in Destination, NEW l \in Local, server_for(d, l)
  PROVE  /\ Tables'
         /\ StandsFor(l, d)'
         /\ \A k \in Local : reverse[k] \in Destination => reverse'[k] = reverse[k]
BY DatagramAssumption DEF Tables, server_for, StandsFor, Unbound, servers

(* What an endpoint stands for survives any growth of the tables. *)
LEMMA GenuineKept ==
  ASSUME Grows, NEW q, NEW l, NEW d
  PROVE  /\ StandsFor(l, d) => StandsFor(l, d)'
         /\ Genuine(q, l) => Genuine(q, l)'
BY Zenon DEF Grows, StandsFor, Genuine

(* A task's endpoints stay genuine when the tables grow. *)
LEMMA TaskKept ==
  ASSUME Grows, NEW t, TaskGenuine(t)
  PROVE  TaskGenuine(t)'
BY GenuineKept, Zenon DEF TaskGenuine, Sending

(* A step of one task keeps the invariant if the tables only grow, the     *)
(* queues are left alone and the task's new record is genuine.             *)
LEMMA TaskStep ==
  ASSUME SourcesIInv, Grows, Tables', asked' = asked, NEW c \in Call, NEW t \in TaskSet,
         TaskGenuine(t)', task' = [task EXCEPT ![c] = t], UNCHANGED <<peer, named>>,
         UNCHANGED <<inbox, rx, delivered>>
  PROVE  SourcesIInv'
<1>1. task' \in [Call -> TaskSet]
  BY Zenon DEF SourcesIInv
<1>2. ASSUME NEW k \in Call
      PROVE  TaskGenuine(task[k])'
  <2>1. PICK u : u = task[k]
    BY Zenon
  <2>2. PICK w : w = task'[k]
    BY Zenon
  <2>3. TaskGenuine(u)'
    <3>1. TaskGenuine(u)
      BY <2>1, Zenon DEF SourcesIInv
    <3>2. QED
      BY <3>1, TaskKept, Zenon
  <2>4. w \in {t, u}
    BY <2>1, <2>2, Zenon DEF SourcesIInv
  <2>5. TaskGenuine(w)'
    BY <2>3, <2>4, Zenon
  <2>6. QED
    BY <2>2, <2>5, Zenon DEF TaskGenuine, Sending, Genuine, StandsFor
<1>3. peer' # None => StandsFor(peer, named)'
  BY Zenon DEF SourcesIInv, StandsFor, Grows
<1>4. \A m \in inbox' : Genuine(m.q, m.at)'
  BY ZenonT(60) DEF SourcesIInv, StandsFor, Genuine, Grows
<1>5. \A i \in 1..Len(rx') : Genuine(rx[i].q, rx[i].src)'
  BY DEF SourcesIInv, StandsFor, Genuine, Grows
<1>6. QED
  BY <1>1, <1>2, <1>3, <1>4, <1>5, Zenon DEF SourcesIInv, Tables

(* The same for a step that changes nothing but the task. *)
LEMMA QuietStep ==
  ASSUME SourcesIInv, UNCHANGED <<servers, socket, traffic>>, NEW c \in Call, NEW t \in TaskSet,
         TaskGenuine(t), task' = [task EXCEPT ![c] = t]
  PROVE  SourcesIInv'
<1>1. Grows /\ Tables'
  BY Zenon DEF Grows, Tables, SourcesIInv, servers, traffic
<1>2. TaskGenuine(t)'
  BY <1>1, TaskKept, Zenon
<1>3. QED
  BY <1>1, <1>2, TaskStep, Zenon DEF servers, socket, traffic

(* Setting one field of a task's record. *)
LEMMA SetField ==
  ASSUME NEW t \in TaskSet
  PROVE  /\ \A p \in Place : [t EXCEPT !.pc = p] \in TaskSet /\ [t EXCEPT !.pc = p].pc = p
         /\ \A e \in Int : [t EXCEPT !.result = e] \in TaskSet
                            /\ [t EXCEPT !.result = e].pc = t.pc
         /\ [t EXCEPT !.faulted = TRUE] \in TaskSet /\ [t EXCEPT !.faulted = TRUE].pc = t.pc
         /\ [t EXCEPT !.held = None] \in TaskSet /\ [t EXCEPT !.held = None].pc = t.pc
         /\ [t EXCEPT !.moved = @ + 1] \in TaskSet
         /\ [t EXCEPT !.completed = @ + 1] \in TaskSet
<1>1. \A p \in Place : [t EXCEPT !.pc = p] \in TaskSet /\ [t EXCEPT !.pc = p].pc = p
  BY Zenon DEF TaskSet
<1>2. \A e \in Int : [t EXCEPT !.result = e] \in TaskSet /\ [t EXCEPT !.result = e].pc = t.pc
  BY Zenon DEF TaskSet
<1>3. [t EXCEPT !.faulted = TRUE] \in TaskSet /\ [t EXCEPT !.faulted = TRUE].pc = t.pc
  BY Zenon DEF TaskSet
<1>4. [t EXCEPT !.held = None] \in TaskSet /\ [t EXCEPT !.held = None].pc = t.pc
  BY Zenon DEF TaskSet
<1>5. [t EXCEPT !.moved = @ + 1] \in TaskSet /\ [t EXCEPT !.completed = @ + 1] \in TaskSet
  BY DEF TaskSet
<1>6. QED
  BY <1>1, <1>2, <1>3, <1>4, <1>5, Zenon

(* Setting the place and the result. *)
LEMMA SetOutcome ==
  ASSUME NEW t \in TaskSet, NEW p \in Place, NEW e \in Int
  PROVE  /\ [t EXCEPT !.pc = p, !.result = e] \in TaskSet
         /\ [t EXCEPT !.pc = p, !.result = e].pc = p
<1>1. PICK u : u = [t EXCEPT !.pc = p]
  BY Zenon
<1>2. u \in TaskSet /\ u.pc = p
  BY <1>1, SetField, ZenonT(40)
<1>3. [t EXCEPT !.pc = p, !.result = e] = [u EXCEPT !.result = e]
  BY <1>1, Zenon
<1>4. QED
  BY <1>2, <1>3, SetField, Zenon

(* The records with which a message or a call ends are past any endpoint. *)
Past(t) == t \in TaskSet /\ t.pc \in {"count", "tail", "done"}

(* Such a record is genuine. *)
LEMMA PastGenuine == ASSUME NEW t, Past(t) PROVE t \in TaskSet /\ TaskGenuine(t)
BY Zenon DEF Past, TaskGenuine, Sending

(* Stop, Reply, Moved and Fault make such records. *)
LEMMA Exits ==
  ASSUME NEW t \in TaskSet, NEW e \in Int
  PROVE  Past(Stop(t, e)) /\ Past(Reply(t, e)) /\ Past(Moved(t)) /\ Past(Fault(t))
<1>1. ASSUME NEW s \in TaskSet, NEW x \in Int PROVE Past(Stop(s, x))
  <2>1. PICK p \in {"tail", "done"} : p = IF s.req.batch THEN "tail" ELSE "done"
    BY Zenon
  <2>2. Stop(s, x) = [s EXCEPT !.pc = p, !.result = x]
    BY <2>1, Zenon DEF Stop
  <2>3. p \in Place
    BY Zenon DEF Place
  <2>4. [s EXCEPT !.pc = p, !.result = x] \in TaskSet /\ [s EXCEPT !.pc = p, !.result = x].pc = p
    BY <2>3, SetOutcome, Zenon
  <2>5. QED
    BY <2>2, <2>4, Zenon DEF Past
<1>2. ASSUME NEW s \in TaskSet, NEW x \in Int PROVE Past(Reply(s, x))
  <2>1. "done" \in Place
    BY Zenon DEF Place
  <2>2. /\ [s EXCEPT !.pc = "done", !.result = x] \in TaskSet
        /\ [s EXCEPT !.pc = "done", !.result = x].pc = "done"
    BY <2>1, SetOutcome, Zenon
  <2>3. QED
    BY <2>2, Zenon DEF Past, Reply
<1>3. Past(Moved(t))
  <2>1. "count" \in Place
    BY Zenon DEF Place
  <2>2. [t EXCEPT !.pc = "count"] \in TaskSet /\ [t EXCEPT !.pc = "count"].pc = "count"
    BY <2>1, SetField, Zenon
  <2>3. Past(Goto(t, "count"))
    BY <2>2, Zenon DEF Past, Goto
  <2>4. Past(Reply(t, 1))
    BY <1>2
  <2>5. QED
    BY <2>3, <2>4, Zenon DEF Moved
<1>4. Past(Fault(t))
  <2>1. PICK u : u = [t EXCEPT !.faulted = TRUE]
    BY Zenon
  <2>2. u \in TaskSet
    BY <2>1, SetField, Zenon
  <2>3. QED
    BY <1>1, <2>1, <2>2 DEF Fault, EFAULT
<1>5. QED
  BY <1>1, <1>2, <1>3, <1>4, Zenon

(* So is the record of an idle task. *)
LEMMA IdleGenuine == Idle \in TaskSet /\ TaskGenuine(Idle)
BY DEF Idle, Fresh, TaskSet, Place, TaskGenuine, Sending

(* The application's steps: only a fresh or finished record appears. *)
LEMMA ApplicationStep ==
  ASSUME SourcesIInv, NEW c \in Call,
         Transmit(c) \/ Connect(c) \/ Collect(c) \/ Abandon(c) \/ Expire(c)
  PROVE  SourcesIInv'
<1>0. task[c] \in TaskSet /\ TaskGenuine(task[c])
  BY Zenon DEF SourcesIInv
<1>1. CASE Transmit(c)
  <2>1. PICK r \in Requests :
          Begin(c, Fresh(IF r.count = 0 THEN "tail" ELSE "message", r, None))
    BY <1>1, Zenon DEF Transmit
  <2>2. PICK t : t = Fresh(IF r.count = 0 THEN "tail" ELSE "message", r, None)
    BY Zenon
  <2>3. t \in TaskSet /\ TaskGenuine(t)
    BY <2>2, DatagramAssumption DEF Fresh, TaskSet, Place, TaskGenuine, Sending
  <2>4. QED
    BY <2>1, <2>2, <2>3, QuietStep, Zenon DEF Begin
<1>2. CASE Connect(c)
  <2>1. PICK d \in Destination :
          Begin(c, Fresh("connect", None, d))
    BY <1>2, Zenon DEF Connect
  <2>2. PICK t : t = Fresh("connect", None, d)
    BY Zenon
  <2>3. t \in TaskSet /\ TaskGenuine(t)
    BY <2>2 DEF Fresh, TaskSet, Place, TaskGenuine, Sending
  <2>4. QED
    BY <2>1, <2>2, <2>3, QuietStep, Zenon DEF Begin
<1>3. CASE Collect(c)
  BY <1>3, IdleGenuine, QuietStep, Zenon DEF Collect
<1>4. CASE Abandon(c)
  <2>1. PICK t : t = [task[c] EXCEPT !.valid = FALSE]
    BY Zenon
  <2>2. t \in TaskSet /\ TaskGenuine(t)
    BY <1>0, <2>1, Zenon DEF TaskSet, Place, TaskGenuine, Sending
  <2>3. task' = [task EXCEPT ![c] = t]
    BY <1>4, <2>1, Zenon DEF Abandon
  <2>4. QED
    BY <1>4, <2>2, <2>3, QuietStep, Zenon DEF Abandon
<1>5. CASE Expire(c)
  <2>1. PICK x \in task[c].req.timed \ task[c].due : task' = [task EXCEPT ![c].due = @ \cup {x}]
    BY <1>5, Zenon DEF Expire
  <2>2. PICK t : t = [task[c] EXCEPT !.due = @ \cup {x}]
    BY Zenon
  <2>3. x \in {"socket", "batch"}
    BY <1>0, <1>5, <2>1, Zenon DEF Expire, TaskSet, Place, Request
  <2>4. t \in TaskSet /\ TaskGenuine(t)
    BY <1>0, <2>2, <2>3, ZenonT(60) DEF TaskSet, Place, TaskGenuine, Sending
  <2>5. task' = [task EXCEPT ![c] = t]
    BY <2>1, <2>2, Zenon
  <2>6. QED
    BY <1>5, <2>4, <2>5, QuietStep, Zenon DEF Expire
<1>6. QED
  BY <1>1, <1>2, <1>3, <1>4, <1>5, Zenon

(* Errors are integers, so that a reply always is one. *)
LEMMA ErrorInt == Error \subseteq Int
BY DEF Error, EINTR, EAGAIN, EFAULT, EDESTADDRREQ, ENETUNREACH, ENOBUFS, ECONNREFUSED

(* A step that asks the server table and keeps the answer in its task. *)
LEMMA LookupStep ==
  ASSUME SourcesIInv, NEW c \in Call, NEW d \in Destination, NEW l \in Local, NEW t \in TaskSet,
         server_for(d, l), t.dst = l, t.meant = d, t.pc \in {"connecting", "check"},
         task' = [task EXCEPT ![c] = t], UNCHANGED <<socket, traffic>>
  PROVE  SourcesIInv'
<1>1. Tables
  BY Zenon DEF SourcesIInv, Tables
<1>2. Tables' /\ StandsFor(l, d)' /\ Grows
  BY <1>1, ServerFor, Zenon DEF Grows, traffic
<1>3. TaskGenuine(t)'
  BY <1>2, Zenon DEF TaskGenuine
<1>4. QED
  BY <1>2, <1>3, TaskStep, Zenon DEF socket, traffic

(* connect(2) asks for the server of its destination. *)
LEMMA ConnectServerStep ==
  ASSUME SourcesIInv, NEW c \in Call, ConnectServer(c)
  PROVE  SourcesIInv'
<1>0. task[c] \in TaskSet
  BY Zenon DEF SourcesIInv
<1>1. CASE \E l \in Local :
             /\ Step(c, "connect", [task[c] EXCEPT !.pc = "connecting", !.dst = l])
             /\ server_for(task[c].meant, l)
  <2>1. PICK l \in Local :
          /\ Step(c, "connect", [task[c] EXCEPT !.pc = "connecting", !.dst = l])
          /\ server_for(task[c].meant, l)
    BY <1>1, Zenon
  <2>2. PICK t : t = [task[c] EXCEPT !.pc = "connecting", !.dst = l]
    BY Zenon
  <2>3. PICK d : d = task[c].meant
    BY Zenon
  <2>4. d \in Destination
    BY <2>1, <2>3, DatagramAssumption, Zenon DEF server_for
  <2>5. t \in TaskSet /\ t.dst = l /\ t.meant = d /\ t.pc = "connecting"
    BY <1>0, <2>2, <2>3, Zenon DEF TaskSet, Place
  <2>6. server_for(d, l) /\ task' = [task EXCEPT ![c] = t]
    BY <2>1, <2>2, <2>3, Zenon DEF Step
  <2>7. QED
    BY <2>4, <2>5, <2>6, LookupStep, ZenonT(40) DEF ConnectServer
<1>2. CASE \E e \in Error :
             /\ Step(c, "connect", Reply(task[c], e))
             /\ refused(task[c].meant, e) /\ UNCHANGED servers
  <2>1. PICK e \in Error : Step(c, "connect", Reply(task[c], e)) /\ UNCHANGED servers
    BY <1>2, Zenon
  <2>2. PICK t : t = Reply(task[c], e)
    BY Zenon
  <2>3. t \in TaskSet /\ TaskGenuine(t)
    BY <1>0, <2>2, Exits, PastGenuine, ErrorInt, Zenon
  <2>4. QED
    BY <2>1, <2>2, <2>3, QuietStep, Zenon DEF ConnectServer, Step
<1>3. QED
  BY <1>1, <1>2, Zenon DEF ConnectServer

(* A send gets its endpoint from the table or from the socket's peer. *)
LEMMA MessageStep ==
  ASSUME SourcesIInv, NEW c \in Call, Message(c)
  PROVE  SourcesIInv'
<1>0. task[c] \in TaskSet /\ UNCHANGED <<socket, traffic>>
  BY Zenon DEF SourcesIInv, Message
<1>1. CASE \E l \in Local :
             /\ Step(c, "message", Addressed(task[c], l, task[c].req.to))
             /\ server_for(task[c].req.to, l)
  <2>1. PICK l \in Local :
          /\ Step(c, "message", Addressed(task[c], l, task[c].req.to))
          /\ server_for(task[c].req.to, l)
    BY <1>1, Zenon
  <2>2. PICK d : d = task[c].req.to
    BY Zenon
  <2>3. PICK t : t = Addressed(task[c], l, d)
    BY Zenon
  <2>4. d \in Destination
    BY <2>1, <2>2, DatagramAssumption, Zenon DEF server_for
  <2>5. t \in TaskSet /\ t.dst = l /\ t.meant = d /\ t.pc = "check"
    BY <1>0, <2>3, <2>4, Zenon DEF TaskSet, Place, Addressed
  <2>6. server_for(d, l) /\ task' = [task EXCEPT ![c] = t]
    BY <2>1, <2>2, <2>3, Zenon DEF Step
  <2>7. QED
    BY <1>0, <2>4, <2>5, <2>6, LookupStep, Zenon
<1>2. CASE \E e \in Error : Step(c, "message", Stop(task[c], e)) /\ UNCHANGED servers
  <2>1. PICK e \in Error : Step(c, "message", Stop(task[c], e)) /\ UNCHANGED servers
    BY <1>2, Zenon
  <2>2. PICK t : t = Stop(task[c], e)
    BY Zenon
  <2>3. t \in TaskSet /\ TaskGenuine(t)
    BY <1>0, <2>2, Exits, PastGenuine, ErrorInt, Zenon
  <2>4. QED
    BY <1>0, <2>1, <2>2, <2>3, QuietStep, Zenon DEF Step
<1>3. CASE /\ UNCHANGED servers /\ task[c].req.receive
           /\ Step(c, "message", Goto(task[c], "check"))
  <2>1. PICK t : t = Goto(task[c], "check")
    BY Zenon
  <2>2. t \in TaskSet /\ TaskGenuine(t)
    BY <1>0, <1>3, <2>1, ZenonT(60) DEF TaskSet, Place, TaskGenuine, Sending, Goto
  <2>3. QED
    BY <1>0, <1>3, <2>1, <2>2, QuietStep, Zenon DEF Step
<1>4. CASE UNCHANGED servers /\ Step(c, "message", Fault(task[c]))
  <2>1. PICK t : t = Fault(task[c])
    BY Zenon
  <2>2. t \in TaskSet /\ TaskGenuine(t)
    BY <1>0, <2>1, Exits, PastGenuine
  <2>3. QED
    BY <1>0, <1>4, <2>1, <2>2, QuietStep, Zenon DEF Step
<1>5. CASE /\ UNCHANGED servers /\ peer # None
           /\ Step(c, "message", Addressed(task[c], peer, named))
  <2>1. PICK t : t = Addressed(task[c], peer, named)
    BY Zenon
  <2>2. StandsFor(peer, named)
    BY <1>5, Zenon DEF SourcesIInv
  <2>3. t \in TaskSet /\ TaskGenuine(t)
    BY <1>0, <2>1, <2>2, Zenon DEF TaskSet, Place, TaskGenuine, Addressed, StandsFor
  <2>4. QED
    BY <1>0, <1>5, <2>1, <2>3, QuietStep, Zenon DEF Step
<1>6. QED
  <2>1. EDESTADDRREQ \in Error
    BY Zenon DEF Error
  <2>2. QED
    BY <2>1, <1>1, <1>2, <1>3, <1>4, <1>5, Zenon DEF Message, Named

(* The steps of a task that touch neither tables nor queues. *)
LEMMA PrivateStep ==
  ASSUME SourcesIInv, NEW c \in Call,
         Check(c) \/ WouldBlock(c) \/ Refuse(c) \/ Wait(c) \/ Count(c) \/ Finish(c)
  PROVE  SourcesIInv'
<1>0. /\ task[c] \in TaskSet /\ TaskGenuine(task[c])
      /\ UNCHANGED <<servers, socket, traffic>>
  BY Zenon DEF SourcesIInv, Check, WouldBlock, Refuse, Wait, Count, Finish
<1>1. CASE \E e \in Error : \E p \in Place : Step(c, p, Stop(task[c], e))
  <2>0. PICK e \in Error : \E p \in Place : Step(c, p, Stop(task[c], e))
    BY <1>1, Zenon
  <2>1. PICK t : t = Stop(task[c], e)
    BY Zenon
  <2>2. t \in TaskSet /\ TaskGenuine(t)
    BY <1>0, <2>1, Exits, PastGenuine, ErrorInt, Zenon
  <2>3. QED
    BY <1>0, <2>0, <2>1, <2>2, QuietStep, Zenon DEF Step
<1>2. CASE \E v \in Int : \E p \in Place : Step(c, p, Reply(task[c], v))
  <2>0. PICK v \in Int : \E p \in Place : Step(c, p, Reply(task[c], v))
    BY <1>2, Zenon
  <2>1. PICK t : t = Reply(task[c], v)
    BY Zenon
  <2>2. t \in TaskSet /\ TaskGenuine(t)
    BY <1>0, <2>1, Exits, PastGenuine, Zenon
  <2>3. QED
    BY <1>0, <2>0, <2>1, <2>2, QuietStep, Zenon DEF Step
<1>3. CASE Step(c, "check", Goto(task[c], "transfer"))
  <2>1. PICK t : t = Goto(task[c], "transfer")
    BY Zenon
  <2>2. t \in TaskSet /\ TaskGenuine(t)
    BY <1>0, <1>3, <2>1, ZenonT(60) DEF TaskSet, Place, TaskGenuine, Sending, Goto, Step
  <2>3. QED
    BY <1>0, <1>3, <2>1, <2>2, QuietStep, Zenon DEF Step
<1>4. CASE Step(c, "transfer", Goto(task[c], "wait"))
  <2>1. PICK t : t = Goto(task[c], "wait")
    BY Zenon
  <2>2. t \in TaskSet /\ TaskGenuine(t)
    BY <1>0, <1>4, <2>1, Zenon DEF TaskSet, Place, TaskGenuine, Sending, Goto, Step
  <2>3. QED
    BY <1>0, <1>4, <2>1, <2>2, QuietStep, Zenon DEF Step
<1>5. CASE Step(c, "wait", Goto(task[c], "check"))
  <2>1. PICK t : t = Goto(task[c], "check")
    BY Zenon
  <2>2. t \in TaskSet /\ TaskGenuine(t)
    BY <1>0, <1>5, <2>1, Zenon DEF TaskSet, Place, TaskGenuine, Sending, Goto, Step
  <2>3. QED
    BY <1>0, <1>5, <2>1, <2>2, QuietStep, Zenon DEF Step
<1>6. CASE Step(c, "count", Fault(task[c]))
  <2>1. PICK t : t = Fault(task[c])
    BY Zenon
  <2>2. t \in TaskSet /\ TaskGenuine(t)
    BY <1>0, <2>1, Exits, PastGenuine
  <2>3. QED
    BY <1>0, <1>6, <2>1, <2>2, QuietStep, Zenon DEF Step
<1>7. CASE /\ Count(c) /\ task[c].valid
           /\ Step(c, "count", [task[c] EXCEPT !.completed = @ + 1,
                !.pc = IF task[c].completed + 1 = task[c].req.count THEN "tail" ELSE "message"])
  <2>1. PICK t : t = [task[c] EXCEPT !.completed = @ + 1,
                !.pc = IF task[c].completed + 1 = task[c].req.count THEN "tail" ELSE "message"]
    BY Zenon
  <2>2. PICK u : u = [task[c] EXCEPT !.completed = @ + 1]
    BY Zenon
  <2>3. PICK p \in {"tail", "message"} :
          p = IF task[c].completed + 1 = task[c].req.count THEN "tail" ELSE "message"
    BY Zenon
  <2>4. t = [u EXCEPT !.pc = p]
    BY <2>1, <2>2, <2>3, Zenon
  <2>5. t \in TaskSet /\ t.pc = p
    <3>1. u \in TaskSet
      BY <1>0, <2>2, SetField, Zenon
    <3>2. p \in Place
      BY Zenon DEF Place
    <3>3. QED
      BY <2>4, <3>1, <3>2, SetField, Zenon
  <2>6. TaskGenuine(t)
    BY <2>3, <2>5, Zenon DEF TaskGenuine, Sending
  <2>7. QED
    BY <1>0, <1>7, <2>1, <2>5, <2>6, QuietStep, Zenon DEF Step
<1>8. CASE Step(c, "tail", [Reply(task[c], EFAULT) EXCEPT !.faulted = TRUE])
  <2>1. PICK t : t = [Reply(task[c], EFAULT) EXCEPT !.faulted = TRUE]
    BY Zenon
  <2>2. t \in TaskSet /\ TaskGenuine(t)
    <3>1. PICK u : u = Reply(task[c], EFAULT)
      BY Zenon
    <3>2. Past(u)
      BY <1>0, <3>1, Exits DEF EFAULT
    <3>3. t = [u EXCEPT !.faulted = TRUE]
      BY <2>1, <3>1, Zenon
    <3>4. Past(t)
      BY <3>2, <3>3, SetField, Zenon DEF Past
    <3>5. QED
      BY <3>4, PastGenuine, Zenon
  <2>3. QED
    BY <1>0, <1>8, <2>1, <2>2, QuietStep, Zenon DEF Step
<1>9. {EINTR, EAGAIN, ECONNREFUSED} \subseteq Error /\ EINTR \in Int /\ 0 \in Int
  BY DEF Error, EINTR
<1>10. outcome(task[c]) \in Int
  BY <1>0 DEF outcome, TaskSet, Place
<1>11. CASE Check(c)
  BY <1>11, <1>1, <1>3, <1>9, Zenon DEF Check, Place
<1>12. CASE WouldBlock(c)
  BY <1>12, <1>1, <1>4, <1>9, Zenon DEF WouldBlock, Place
<1>13. CASE Refuse(c)
  BY <1>13, <1>1, <1>9, Zenon DEF Refuse, Place
<1>14. CASE Wait(c)
  BY <1>14, <1>5, Zenon DEF Wait
<1>15. CASE Count(c)
  BY <1>15, <1>2, <1>6, <1>7, <1>9, Zenon DEF Count, Place
<1>16. CASE Finish(c)
  BY <1>16, <1>2, <1>8, <1>9, <1>10, Zenon DEF Finish, Place
<1>17. QED
  BY <1>11, <1>12, <1>13, <1>14, <1>15, <1>16, Zenon

(* The peer of the socket changes. *)
LEMMA PeerStep ==
  ASSUME SourcesIInv, Disconnect \/ \E c \in Call : ConnectNow(c)
  PROVE  SourcesIInv'
<1>1. CASE Disconnect
  BY <1>1, ZenonT(60) DEF SourcesIInv, Disconnect, servers, traffic, StandsFor, Genuine, TaskGenuine, Sending
<1>2. ASSUME NEW c \in Call, ConnectNow(c)
      PROVE  SourcesIInv'
  <2>0. task[c] \in TaskSet /\ TaskGenuine(task[c]) /\ task[c].pc = "connecting"
    BY <1>2, Zenon DEF SourcesIInv, ConnectNow, Step
  <2>1. PICK t : t = Reply(task[c], IF task[c].valid THEN 0 ELSE EINTR)
    BY Zenon
  <2>2. t \in TaskSet /\ TaskGenuine(t) /\ t.pc \in {"count", "tail", "done"}
    <3>1. (IF task[c].valid THEN 0 ELSE EINTR) \in Int
      BY DEF EINTR
    <3>2. Past(t)
      BY <2>0, <2>1, <3>1, Exits, Zenon
    <3>3. QED
      BY <3>2, PastGenuine, Zenon DEF Past
  <2>3. task' = [task EXCEPT ![c] = t]
    BY <1>2, <2>1, Zenon DEF ConnectNow, Step
  <2>4. peer' # None => StandsFor(peer, named)'
    BY <1>2, <2>0, Zenon DEF ConnectNow, TaskGenuine, Sending, StandsFor, SourcesIInv, servers, socket
  <2>5. task' \in [Call -> TaskSet] /\ \A k \in Call : TaskGenuine(task[k])'
    BY <1>2, <2>2, <2>3, ZenonT(60)
    DEF ConnectNow, SourcesIInv, TaskGenuine, Sending, StandsFor, Genuine, servers, traffic
  <2>6. QED
    BY <1>2, <2>4, <2>5, ZenonT(60) DEF ConnectNow, SourcesIInv, StandsFor, Genuine, servers, traffic
<1>3. QED
  BY <1>1, <1>2, Zenon

(* A server answers from the endpoint the query was sent to. *)
LEMMA ServeStep ==
  ASSUME SourcesIInv, NEW m \in inbox, serve_udp(m)
  PROVE  SourcesIInv'
<1>1. Genuine(m.q, m.at) /\ m.q \in Nat /\ m.at \in Local
  BY Zenon DEF SourcesIInv
<1>2. /\ rx' \in Seq([q : Nat, src : Local])
      /\ \A i \in 1..Len(rx') : Genuine(rx'[i].q, rx'[i].src)
  <2>1. CASE UNCHANGED rx
    BY <2>1, Zenon DEF SourcesIInv
  <2>2. CASE rx' = Append(rx, [q |-> m.q, src |-> m.at])
    <3> DEFINE S == [q : Nat, src : Local]
               d == [q |-> m.q, src |-> m.at]
    <3>1. rx \in Seq(S) /\ \A i \in 1..Len(rx) : Genuine(rx[i].q, rx[i].src)
      BY Zenon DEF SourcesIInv
    <3>2. d \in S /\ d.q = m.q /\ d.src = m.at
      BY <1>1, Zenon
    <3> HIDE DEF S, d
    <3>3. /\ rx' \in Seq(S) /\ Len(rx') = Len(rx) + 1 /\ Len(rx) \in Nat
          /\ \A i \in 1..Len(rx') : IF i = Len(rx) + 1 THEN rx'[i] = d
                                   ELSE i \in 1..Len(rx) /\ rx'[i] = rx[i]
      BY <2>2, <3>1, <3>2 DEF d
    <3>4. ASSUME NEW i \in 1..Len(rx') PROVE Genuine(rx'[i].q, rx'[i].src)
      <4>1. CASE rx'[i] = d
        BY <1>1, <3>2, <4>1, Zenon
      <4>2. CASE i \in 1..Len(rx) /\ rx'[i] = rx[i]
        BY <3>1, <4>2, Zenon
      <4> QED BY <3>3, <4>1, <4>2, Zenon
    <3> QED BY <3>3, <3>4, Zenon DEF S
  <2>3. QED
    BY <2>1, <2>2, Zenon DEF serve_udp
<1>3. QED
  BY <1>2, ZenonT(60)
  DEF SourcesIInv, serve_udp, servers, socket, Genuine, StandsFor, TaskGenuine, Sending

(* A query is sent to the endpoint that stands for the address it is       *)
(* meant for.                                                              *)
LEMMA SendStep ==
  ASSUME SourcesIInv, NEW c \in Call, Send(c)
  PROVE  SourcesIInv'
<1>0. /\ task[c] \in TaskSet /\ StandsFor(task[c].dst, task[c].meant)
      /\ asked \in Seq(Destination) /\ task[c].meant \in Destination
  BY Zenon DEF SourcesIInv, Send, Step, TaskGenuine, Sending, StandsFor
<1>1. /\ asked' \in Seq(Destination) /\ Len(asked') = Len(asked) + 1
      /\ asked'[Len(asked) + 1] = task[c].meant
      /\ \A q \in 1..Len(asked) : asked'[q] = asked[q]
  BY <1>0 DEF Send
<1>2. Grows /\ UNCHANGED <<servers, socket, rx, delivered>>
  BY <1>0, <1>1 DEF Grows, Send, servers
<1>3. PICK t : t = Moved([task[c] EXCEPT !.moved = @ + 1])
  BY Zenon
<1>4. t \in TaskSet /\ t.pc \in {"count", "tail", "done"}
  <2>1. PICK u : u = [task[c] EXCEPT !.moved = @ + 1]
    BY Zenon
  <2>2. u \in TaskSet
    BY <1>0, <2>1, SetField, Zenon
  <2>3. Past(t)
    BY <1>3, <2>1, <2>2, Exits
  <2>4. QED
    BY <2>3, Zenon DEF Past
<1>5. task' = [task EXCEPT ![c] = t]
  BY <1>3, Zenon DEF Send, Step
<1>6. task' \in [Call -> TaskSet]
  BY <1>4, <1>5, Zenon DEF SourcesIInv
<1>7. ASSUME NEW k \in Call
      PROVE  TaskGenuine(task[k])'
  <2>1. CASE k = c
    BY <1>4, <1>5, <2>1, Zenon DEF SourcesIInv, TaskGenuine, Sending
  <2>2. CASE k # c
    <3>1. PICK u : u = task[k]
      BY Zenon
    <3>2. TaskGenuine(u) /\ task'[k] = u
      BY <1>5, <2>2, <3>1, Zenon DEF SourcesIInv
    <3>3. TaskGenuine(u)'
      BY <1>2, <3>2, TaskKept, Zenon
    <3>4. QED
      BY <3>2, <3>3, Zenon DEF TaskGenuine, Sending, Genuine, StandsFor
  <2>3. QED
    BY <2>1, <2>2, Zenon
<1>8. /\ inbox' \subseteq [q : Nat, at : Local]
      /\ \A m \in inbox' : Genuine(m.q, m.at)'
  <2>1. PICK n : n = [q |-> Len(asked) + 1, at |-> task[c].dst]
    BY Zenon
  <2>2. inbox' = inbox \cup {n}
    BY <2>1, Zenon DEF Send
  <2>3. n \in [q : Nat, at : Local] /\ Genuine(n.q, n.at)'
    BY <1>0, <1>1, <1>2, <2>1 DEF Genuine, StandsFor, servers
  <2>4. \A m \in inbox : Genuine(m.q, m.at) /\ m \in [q : Nat, at : Local]
    BY Zenon DEF SourcesIInv
  <2>5. ASSUME NEW m \in inbox
        PROVE  Genuine(m.q, m.at)'
    BY <1>2, <2>4, GenuineKept, Zenon
  <2>6. QED
    BY <2>2, <2>3, <2>4, <2>5, Zenon
<1>9. \A i \in 1..Len(rx') : Genuine(rx[i].q, rx[i].src)'
  BY <1>2 DEF SourcesIInv, Genuine, StandsFor, Grows, servers
<1>10. \A m \in delivered' : m.q \in 1..Len(asked') /\ m.from = asked'[m.q]
  BY <1>2, Zenon DEF SourcesIInv, Grows
<1>11. QED
  BY <1>1, <1>2, <1>6, <1>7, <1>8, <1>9, <1>10, Zenon DEF SourcesIInv, StandsFor, servers, socket

(* Taking the first element of a sequence moves the others up by one. *)
LEMMA HeadAndTail ==
  ASSUME NEW S, NEW s \in Seq(S), s # <<>>
  PROVE  /\ Head(s) = s[1] /\ 1 \in 1..Len(s) /\ Head(s) \in S
         /\ Tail(s) \in Seq(S) /\ Len(Tail(s)) = Len(s) - 1
         /\ \A i \in 1..Len(Tail(s)) : Tail(s)[i] = s[i + 1]
OBVIOUS

(* A datagram keeps its source from the queue to the task. *)
LEMMA ReceiveStep ==
  ASSUME SourcesIInv, NEW c \in Call, Receive(c)
  PROVE  SourcesIInv'
<1>0. task[c] \in TaskSet /\ rx \in Seq([q : Nat, src : Local]) /\ rx # <<>>
  BY Zenon DEF SourcesIInv, Receive
<1>1. /\ Head(rx) = rx[1] /\ 1 \in 1..Len(rx) /\ Head(rx) \in [q : Nat, src : Local]
      /\ rx' \in Seq([q : Nat, src : Local]) /\ Len(rx') = Len(rx) - 1
      /\ \A i \in 1..Len(rx') : rx'[i] = rx[i + 1]
  <2>1. rx' = Tail(rx)
    BY Zenon DEF Receive
  <2>2. QED
    BY <1>0, <2>1, HeadAndTail, Zenon
<1>2. Genuine(Head(rx).q, Head(rx).src)
  BY <1>1, Zenon DEF SourcesIInv
<1>3. UNCHANGED <<servers, socket, asked, inbox, delivered>>
  BY Zenon DEF Receive
<1>4. PICK t : t = [task[c] EXCEPT !.pc = "copy", !.held = Head(rx), !.moved = @ + 1]
  BY Zenon
<1>5. t \in TaskSet /\ TaskGenuine(t)
  <2>1. PICK h : h = Head(rx)
    BY Zenon
  <2>2. PICK u : u = [task[c] EXCEPT !.moved = @ + 1]
    BY Zenon
  <2>3. PICK v : v = [u EXCEPT !.pc = "copy"]
    BY Zenon
  <2>4. u \in TaskSet
    BY <1>0, <2>2, SetField, Zenon
  <2>5. v \in TaskSet /\ v.pc = "copy"
    BY <2>3, <2>4, SetField, Zenon DEF Place
  <2>6. t = [v EXCEPT !.held = h]
    BY <1>0, <1>4, <2>1, <2>2, <2>3, Zenon DEF TaskSet
  <2>7. t \in TaskSet /\ t.pc = "copy" /\ t.held = h
    BY <1>1, <2>1, <2>5, <2>6, ZenonT(40) DEF TaskSet
  <2>8. QED
    BY <1>2, <2>1, <2>7, Zenon DEF TaskGenuine, Sending
<1>6. task' = [task EXCEPT ![c] = t]
  BY <1>4, Zenon DEF Receive, Step
<1>7. task' \in [Call -> TaskSet] /\ \A k \in Call : TaskGenuine(task[k])'
  <2>1. task' \in [Call -> TaskSet]
    BY <1>5, <1>6, Zenon DEF SourcesIInv
  <2>2. ASSUME NEW k \in Call PROVE TaskGenuine(task[k])'
    <3>1. PICK u : u = task'[k]
      BY Zenon
    <3>2. TaskGenuine(u)
      BY <1>5, <1>6, <3>1, Zenon DEF SourcesIInv
    <3>3. TaskGenuine(u)'
      BY <1>3, <3>2, Zenon DEF TaskGenuine, Sending, StandsFor, Genuine, servers
    <3>4. QED
      BY <3>1, <3>3, Zenon DEF TaskGenuine, Sending, Genuine, StandsFor
  <2>3. QED
    BY <2>1, <2>2, Zenon
<1>8. \A i \in 1..Len(rx') : Genuine(rx[i].q, rx[i].src)'
  <2>1. Len(rx) \in Nat
    BY <1>0
  <2>2. ASSUME NEW i \in 1..Len(rx')
        PROVE  Genuine(rx[i].q, rx[i].src)'
    <3>1. i + 1 \in 1..Len(rx) /\ rx'[i] = rx[i + 1]
      BY <1>1, <2>1
    <3>2. Genuine(rx[i + 1].q, rx[i + 1].src)
      BY <3>1, Zenon DEF SourcesIInv
    <3>3. QED
      BY <1>3, <3>1, <3>2, Zenon DEF Genuine, StandsFor, servers
  <2>3. QED
    BY <2>2, Zenon
<1>9. QED
  BY <1>1, <1>3, <1>7, <1>8, ZenonT(60) DEF SourcesIInv, StandsFor, Genuine, servers, socket

(* A datagram is handed over with the address its endpoint stands for. *)
LEMMA CopyStep ==
  ASSUME SourcesIInv, NEW c \in Call, Copy(c)
  PROVE  SourcesIInv'
<1>0. /\ task[c] \in TaskSet /\ task[c].pc = "copy"
      /\ Genuine(task[c].held.q, task[c].held.src)
  BY Zenon DEF SourcesIInv, Copy, Step, TaskGenuine
<1>1. PICK r : r = [task[c] EXCEPT !.held = None]
  BY Zenon
<1>2. r \in TaskSet
  BY <1>0, <1>1, ZenonT(60) DEF TaskSet, Place
<1>3. \E t \in TaskSet : t.pc \in {"count", "tail", "done"} /\ task' = [task EXCEPT ![c] = t]
  <2>1. \E t \in {Stop(r, EINTR), Fault(r), Moved(r)} : task' = [task EXCEPT ![c] = t]
    BY <1>1, Zenon DEF Copy, Step
  <2>2. \A t \in {Stop(r, EINTR), Fault(r), Moved(r)} :
          t \in TaskSet /\ t.pc \in {"count", "tail", "done"}
    BY <1>2, Exits DEF Past, EINTR
  <2>3. QED
    BY <2>1, <2>2, Zenon
<1>4. PICK t \in TaskSet : t.pc \in {"count", "tail", "done"} /\ task' = [task EXCEPT ![c] = t]
  BY <1>3, Zenon
<1>5. UNCHANGED <<servers, socket, asked, inbox, rx>>
  BY Zenon DEF Copy
<1>6. task' \in [Call -> TaskSet] /\ \A k \in Call : TaskGenuine(task[k])'
  BY <1>4, <1>5, ZenonT(60) DEF SourcesIInv, TaskGenuine, Sending, StandsFor, Genuine, servers
<1>7. Source(task[c].held.src) = asked[task[c].held.q]
  BY <1>0, DatagramAssumption, Zenon DEF Source, original_server, Genuine, StandsFor
<1>8. \A m \in delivered' : m.q \in 1..Len(asked') /\ m.from = asked'[m.q]
  BY <1>0, <1>5, <1>7 DEF Copy, SourcesIInv, Genuine
<1>9. QED
  BY <1>5, <1>6, <1>8, ZenonT(60) DEF SourcesIInv, StandsFor, Genuine, servers, socket

(* At the start the virtual resolver is served and nothing is under way. *)
LEMMA SourcesInit == Init => SourcesIInv
<1> SUFFICES ASSUME Init PROVE SourcesIInv
  BY Zenon
<1>1. Virtual \in Destination
  BY DatagramAssumption, Zenon
<1>2. task \in [Call -> TaskSet] /\ \A c \in Call : TaskGenuine(task[c])
  BY IdleGenuine, Zenon DEF Init
<1>3. Tables
  BY <1>1, DatagramAssumption DEF Init, Tables
<1>4. asked = <<>> /\ rx = <<>> /\ inbox = {} /\ delivered = {} /\ peer = None
  BY Zenon DEF Init
<1>5. QED
  BY <1>2, <1>3, <1>4 DEF SourcesIInv, Tables

(* Every step keeps the endpoints genuine. *)
LEMMA SourcesStep == SourcesIInv /\ [Next]_vars => SourcesIInv'
<1> SUFFICES ASSUME SourcesIInv, [Next]_vars PROVE SourcesIInv'
  BY Zenon
<1>1. CASE UNCHANGED vars
  BY <1>1, ZenonT(60)
  DEF vars, servers, socket, traffic, SourcesIInv, StandsFor, Genuine, TaskGenuine, Sending
<1>2. ASSUME NEW c \in Call, Task(c)
      PROVE  SourcesIInv'
  BY <1>2, ConnectServerStep, PeerStep, MessageStep, PrivateStep, SendStep, ReceiveStep, CopyStep, Zenon
  DEF Task, Transfer
<1>3. QED
  BY <1>1, <1>2, ApplicationStep, PeerStep, ServeStep, Zenon DEF Next

(* The endpoints are always genuine. *)
THEOREM SourcesInvariant == Spec => []SourcesIInv
BY SourcesInit, SourcesStep, PTL DEF Spec

(* A reply always reaches the application with the address its query was   *)
(* sent to, for any number of resolvers, endpoints, threads and queries    *)
(* (server_for and the source address written by transfer).                *)
THEOREM SourcesAlwaysPreserved == Spec => []SourcePreserved
<1>1. SourcesIInv => SourcePreserved
  BY Zenon DEF SourcesIInv, SourcePreserved
<1>2. QED
  BY <1>1, SourcesInvariant, PTL

-----------------------------------------------------------------------------
(* What counting looks at in a task's record. *)
Same(u, t) ==
  /\ u.req = t.req /\ u.completed = t.completed /\ u.moved = t.moved
  /\ u.valid = t.valid /\ u.faulted = t.faulted

(* A task is a record of these fields. *)
LEMMA Fields ==
  ASSUME NEW t \in TaskSet
  PROVE  /\ DOMAIN t = {"pc", "req", "dst", "meant", "held", "completed", "result", "valid",
                        "due", "moved", "faulted"}
         /\ t.completed \in Nat /\ t.moved \in Nat /\ t.result \in Int
         /\ t.valid \in BOOLEAN /\ t.faulted \in BOOLEAN
BY Zenon DEF TaskSet

(* Goto and Reply change the place, and Reply the result. *)
LEMMA Replying ==
  ASSUME NEW t \in TaskSet, NEW p, NEW e
  PROVE  /\ Same(Goto(t, p), t) /\ Goto(t, p).pc = p /\ Goto(t, p).result = t.result
         /\ Same(Reply(t, e), t) /\ Reply(t, e).pc = "done" /\ Reply(t, e).result = e
BY Fields, Zenon DEF Same, Goto, Reply

(* A finished task is what Reply says, whatever its result. *)
LEMMA Replied ==
  ASSUME NEW t \in TaskSet
  PROVE  \A e : Same(Reply(t, e), t) /\ Reply(t, e).pc = "done" /\ Reply(t, e).result = e
BY Fields, Zenon DEF Same, Reply

(* So does Stop, with the place of a batch or of a single call. *)
LEMMA Stopping ==
  ASSUME NEW t \in TaskSet, NEW e
  PROVE  /\ Same(Stop(t, e), t) /\ Stop(t, e).result = e
         /\ Stop(t, e).pc = IF t.req.batch THEN "tail" ELSE "done"
BY Fields, Zenon DEF Same, Stop

(* Errors are negative, so that a caller can tell them from a count. *)
LEMMA ErrorNegative == \A e \in Error : e \in Int /\ e < 0
BY DEF Error, EINTR, EAGAIN, EFAULT, EDESTADDRREQ, ENETUNREACH, ENOBUFS, ECONNREFUSED

(* An error before the transfer of a message leaves the count right: a     *)
(* single call has moved nothing, a batch returns what it completed.       *)
LEMMA CountStop ==
  ASSUME NEW t \in TaskSet, Exact(t), NEW e \in Error,
         t.pc \in {"message", "check", "transfer"}
  PROVE  Exact(Stop(t, e))
BY Stopping, Fields, ErrorNegative DEF Same, Counted, Exact

(* A bad pointer is recorded, and excuses the count. *)
LEMMA CountFault ==
  ASSUME NEW t \in TaskSet, Exact(t)
  PROVE  Exact(Fault(t))
<1> DEFINE u == [t EXCEPT !.faulted = TRUE]
<1>0. u \in TaskSet
  BY SetField, Zenon
<1>1. u \in TaskSet /\ u.req = t.req /\ u.completed = t.completed /\ u.faulted
  BY <1>0, Fields, Zenon
<1> HIDE DEF u
<1>2. Fault(t) = Stop(u, EFAULT)
  BY Zenon DEF Fault, u
<1>3. Same(Stop(u, EFAULT), u) /\ Stop(u, EFAULT).pc = IF u.req.batch THEN "tail" ELSE "done"
  BY <1>1, Stopping, Zenon
<1> QED BY <1>1, <1>2, <1>3, Zenon DEF Counted, Same, Exact

(* After a transfer a batch is one message ahead of its count, and a       *)
(* single call returns 1.                                                  *)
LEMMA CountMoved ==
  ASSUME NEW t \in TaskSet, ~t.req.batch => t.completed = 0,
         t.valid /\ ~t.faulted => t.moved = t.completed + 1
  PROVE  Exact(Moved(t))
<1>0. t.completed \in Nat /\ t.moved \in Nat
  BY Fields, Zenon
<1>1. CASE t.req.batch
  <2> DEFINE u == Goto(t, "count")
  <2>1. Same(u, t) /\ u.pc = "count"
    BY Replying
  <2>2. Moved(t) = u
    BY <1>1, Zenon DEF Moved
  <2> HIDE DEF u
  <2>3. Exact(u)
    BY <1>1, <2>1, Zenon DEF Counted, Same, Exact
  <2> QED BY <2>2, <2>3, Zenon
<1>2. CASE ~t.req.batch
  <2> DEFINE u == Reply(t, 1)
  <2>1. Same(u, t) /\ u.pc = "done" /\ u.result = 1
    BY Replying
  <2>2. Moved(t) = u
    BY <1>2, Zenon DEF Moved
  <2> HIDE DEF u
  <2>3. Exact(u)
    BY <1>0, <1>2, <2>1 DEF Counted, Same, Exact
  <2> QED BY <2>2, <2>3, Zenon
<1> QED BY <1>1, <1>2, Zenon

(* Without a request there is nothing to count.                            *)
LEMMA MovedAlone ==
  ASSUME NEW t \in TaskSet, t.req = None
  PROVE  Exact(Moved(t))
<1>1. /\ Goto(t, "count").req = None /\ Goto(t, "count").pc = "count"
      /\ Reply(t, 1).req = None /\ Reply(t, 1).pc = "done"
  BY Replying DEF Same
<1> QED BY <1>1, Zenon DEF Moved, Exact

(* A step of one task that keeps its request and counts right.             *)
LEMMA CountStep ==
  ASSUME SourcesIInv, CountsIInv, NEW c \in Call, NEW t, task' = [task EXCEPT ![c] = t],
         Exact(t)
  PROVE  CountsIInv'
BY Zenon DEF SourcesIInv, CountsIInv

(* The application's steps: a call starts with nothing moved or counted,   *)
(* and an abandoned one is excused.                                        *)
LEMMA CountApplication ==
  ASSUME SourcesIInv, CountsIInv, NEW c \in Call,
         Transmit(c) \/ Connect(c) \/ Collect(c) \/ Abandon(c) \/ Expire(c)
  PROVE  CountsIInv'
<1>0. task[c] \in TaskSet /\ Exact(task[c])
  BY Zenon DEF SourcesIInv, CountsIInv
<1>1. CASE Transmit(c)
  <2>1. PICK r \in Requests :
          Begin(c, Fresh(IF r.count = 0 THEN "tail" ELSE "message", r, None))
    BY <1>1, Zenon DEF Transmit
  <2>2. ~r.batch => r.count = 1
    BY DatagramAssumption, Zenon DEF Request
  <2>3. Exact(Fresh(IF r.count = 0 THEN "tail" ELSE "message", r, None))
    BY <2>2 DEF Exact, Counted, Fresh
  <2> QED BY <2>1, <2>3, CountStep, Zenon DEF Begin
<1>2. CASE Connect(c)
  <2>1. PICK d \in Destination : Begin(c, Fresh("connect", None, d))
    BY <1>2, Zenon DEF Connect
  <2>2. Exact(Fresh("connect", None, d))
    BY Zenon DEF Fresh, Exact
  <2> QED BY <2>1, <2>2, CountStep, Zenon DEF Begin
<1>3. CASE Collect(c)
  <2>1. Exact(Idle)
    BY Zenon DEF Idle, Fresh, Exact
  <2> QED BY <1>3, <2>1, CountStep, Zenon DEF Collect
<1>4. CASE Abandon(c)
  <2> DEFINE t == [task[c] EXCEPT !.valid = FALSE]
  <2>1. task' = [task EXCEPT ![c] = t]
    BY <1>4, Zenon DEF Abandon
  <2>2. /\ t.req = task[c].req /\ t.completed = task[c].completed /\ t.pc = task[c].pc
        /\ ~t.valid
    BY <1>0, Fields, Zenon
  <2> HIDE DEF t
  <2>3. Exact(t)
    BY <1>0, <2>2, Zenon DEF Exact, Counted
  <2> QED BY <2>1, <2>3, CountStep, Zenon
<1>5. CASE Expire(c)
  <2>1. PICK x \in task[c].req.timed \ task[c].due : task' = [task EXCEPT ![c].due = @ \cup {x}]
    BY <1>5, ZenonT(60) DEF Expire
  <2> DEFINE t == [task[c] EXCEPT !.due = @ \cup {x}]
  <2>2. task' = [task EXCEPT ![c] = t]
    BY <2>1, Zenon
  <2>3. Same(t, task[c]) /\ t.pc = task[c].pc /\ t.result = task[c].result
    BY <1>0, Fields, Zenon DEF Same
  <2> HIDE DEF t
  <2>4. Exact(t)
    BY <1>0, <2>3, ZenonT(60) DEF Exact, Counted, Same
  <2> QED BY <2>2, <2>4, CountStep, Zenon
<1> QED BY <1>1, <1>2, <1>3, <1>4, <1>5, Zenon

(* A connect call has no request, and none of its steps gives it one.      *)
LEMMA CountConnect ==
  ASSUME SourcesIInv, CountsIInv, NEW c \in Call, ConnectServer(c) \/ ConnectNow(c)
  PROVE  CountsIInv'
<1>0. task[c] \in TaskSet /\ task[c].req = None
  BY Zenon DEF SourcesIInv, CountsIInv, Exact, ConnectServer, ConnectNow, Step
<1>1. ASSUME NEW p, NEW e, Step(c, p, Reply(task[c], e)) PROVE CountsIInv'
  <2>1. Same(Reply(task[c], e), task[c]) /\ Reply(task[c], e).pc = "done"
    BY <1>0, Replying, ZenonT(60)
  <2>2. Exact(Reply(task[c], e))
    BY <1>0, <2>1, Zenon DEF Same, Exact
  <2> QED BY <1>1, <2>2, CountStep, Zenon DEF Step
<1>2. ASSUME NEW l, Step(c, "connect", [task[c] EXCEPT !.pc = "connecting", !.dst = l])
      PROVE  CountsIInv'
  <2>1. Exact([task[c] EXCEPT !.pc = "connecting", !.dst = l])
    BY <1>0, Fields, Zenon DEF Exact
  <2> QED BY <1>2, <2>1, CountStep, ZenonT(60) DEF Step
<1> QED BY <1>1, <1>2, ZenonT(60) DEF ConnectServer, ConnectNow

(* Reading a message from the caller moves nothing.                        *)
LEMMA CountMessage ==
  ASSUME SourcesIInv, CountsIInv, NEW c \in Call, Message(c)
  PROVE  CountsIInv'
<1>0. /\ task[c] \in TaskSet /\ task[c].pc = "message"
      /\ Exact(task[c])
  BY Zenon DEF SourcesIInv, CountsIInv, Message
<1>1. ASSUME NEW e \in Error, Step(c, "message", Stop(task[c], e)) PROVE CountsIInv'
  BY <1>0, <1>1, CountStop, CountStep, Zenon DEF Step
<1>2. ASSUME Step(c, "message", Fault(task[c])) PROVE CountsIInv'
  BY <1>0, <1>2, CountFault, CountStep, Zenon DEF Step
<1>3. ASSUME NEW l, NEW d, Step(c, "message", Addressed(task[c], l, d)) PROVE CountsIInv'
  <2> DEFINE t == Addressed(task[c], l, d)
  <2>1. Same(t, task[c]) /\ t.pc = "check"
    BY <1>0, Fields, Zenon DEF Same, Addressed
  <2> HIDE DEF t
  <2>2. Exact(t)
    BY <1>0, <2>1, Zenon DEF Exact, Counted, Same
  <2> QED BY <1>3, <2>2, CountStep, Zenon DEF Step, t
<1>4. ASSUME Step(c, "message", Goto(task[c], "check")) PROVE CountsIInv'
  <2>1. Same(Goto(task[c], "check"), task[c]) /\ Goto(task[c], "check").pc = "check"
    BY <1>0, Replying
  <2>2. Exact(Goto(task[c], "check"))
    BY <1>0, <2>1, Zenon DEF Same, Exact, Counted
  <2> QED BY <1>4, <2>2, CountStep, Zenon DEF Step
<1>5. EDESTADDRREQ \in Error
  BY Zenon DEF Error
<1> QED BY <1>1, <1>2, <1>3, <1>4, <1>5, Zenon DEF Message, Named

(* The steps of a transfer up to the kernel's answer, with the call's own  *)
(* waits: only Send and Receive move a datagram.                           *)
LEMMA CountTransfer ==
  ASSUME SourcesIInv, CountsIInv, NEW c \in Call,
         Check(c) \/ Transfer(c) \/ Wait(c)
  PROVE  CountsIInv'
<1>0. task[c] \in TaskSet /\ Exact(task[c])
  BY Zenon DEF SourcesIInv, CountsIInv
<1>1. ASSUME NEW p \in {"check", "transfer"}, NEW e \in Error, Step(c, p, Stop(task[c], e))
      PROVE  CountsIInv'
  BY <1>0, <1>1, CountStop, CountStep, Zenon DEF Step
<1>2. ASSUME NEW p \in {"check", "transfer", "wait"}, NEW q \in {"check", "transfer", "wait"},
             Step(c, p, Goto(task[c], q))
      PROVE  CountsIInv'
  <2> DEFINE t == Goto(task[c], q)
  <2>1. Same(t, task[c]) /\ t.pc = q /\ task[c].pc = p /\ Step(c, p, t)
    BY <1>0, <1>2, Replying DEF Step
  <2> HIDE DEF t
  <2>2. Exact(t)
    BY <1>0, <2>1, Zenon DEF Same, Exact, Counted
  <2> QED BY <2>1, <2>2, CountStep, Zenon DEF Step
<1>3. CASE Check(c)
  BY <1>1, <1>2, <1>3, Zenon DEF Check, Step, Error
<1>4. CASE Wait(c)
  BY <1>2, <1>4, Zenon DEF Wait
<1>5. CASE WouldBlock(c) \/ Refuse(c)
  BY <1>1, <1>2, <1>5, Zenon DEF WouldBlock, Refuse, Step, Error
<1>6. CASE Send(c)
  <2> DEFINE t == [task[c] EXCEPT !.moved = @ + 1]
  <2>1. /\ t \in TaskSet /\ t.req = task[c].req /\ t.completed = task[c].completed
        /\ t.valid = task[c].valid /\ t.faulted = task[c].faulted
        /\ t.moved = task[c].moved + 1
    BY <1>0, Fields, SetField, ZenonT(60)
  <2> HIDE DEF t
  <2>2. CASE task[c].req # None
    <3>1. Exact(Moved(t))
      BY <1>0, <1>6, <2>1, <2>2, CountMoved DEF Send, Step, Exact, Counted
    <3> QED BY <1>6, <3>1, CountStep, Zenon DEF Send, Step, t
  <2>3. CASE task[c].req = None
    <3>1. Exact(Moved(t))
      BY <2>1, <2>3, MovedAlone, Zenon
    <3> QED BY <1>6, <3>1, CountStep, Zenon DEF Send, Step, t
  <2> QED BY <2>2, <2>3, Zenon
<1>7. CASE Receive(c)
  <2> DEFINE t == [task[c] EXCEPT !.pc = "copy", !.held = Head(rx), !.moved = @ + 1]
  <2>1. /\ t.req = task[c].req /\ t.completed = task[c].completed /\ t.pc = "copy"
        /\ t.valid = task[c].valid /\ t.faulted = task[c].faulted
        /\ t.moved = task[c].moved + 1
    BY <1>0, Fields, Zenon
  <2> HIDE DEF t
  <2>2. Exact(t)
    BY <1>0, <1>7, <2>1, Zenon DEF Receive, Step, Exact, Counted
  <2> QED BY <1>7, <2>2, CountStep, Zenon DEF Receive, Step, t
<1> QED BY <1>3, <1>4, <1>5, <1>6, <1>7, Zenon DEF Transfer

(* Copying a datagram to the caller, and writing its length, count what    *)
(* was moved; a withdrawn call and a bad pointer are excused.              *)
LEMMA CountCopied ==
  ASSUME SourcesIInv, CountsIInv, NEW c \in Call, Copy(c) \/ Count(c)
  PROVE  CountsIInv'
<1>0. task[c] \in TaskSet /\ Exact(task[c])
  BY Zenon DEF SourcesIInv, CountsIInv
<1>1. CASE Copy(c)
  <2> DEFINE t == [task[c] EXCEPT !.held = None]
  <2>1. t \in TaskSet
    BY <1>0, SetField, Zenon
  <2>2. Same(t, task[c]) /\ t.pc = "copy" /\ task[c].pc = "copy"
    BY <1>0, <1>1, Fields, Zenon DEF Same, Copy, Step
  <2> HIDE DEF t
  <2>3. Exact(t)
    BY <1>0, <2>2, Zenon DEF Exact, Counted, Same
  <2>4. ASSUME ~t.valid, Step(c, "copy", Stop(t, EINTR)) PROVE CountsIInv'
    <3> DEFINE u == Stop(t, EINTR)
    <3>1. Same(u, t) /\ u.pc = IF t.req.batch THEN "tail" ELSE "done"
      BY <2>1, Stopping, Zenon
    <3>2. Step(c, "copy", u)
      BY <2>4, Zenon
    <3> HIDE DEF u
    <3>3. Exact(u)
      BY <2>2, <2>3, <2>4, <3>1, Zenon DEF Exact, Counted, Same
    <3> QED BY <3>2, <3>3, CountStep, Zenon DEF Step
  <2>5. ASSUME Step(c, "copy", Fault(t)) PROVE CountsIInv'
    BY <2>1, <2>3, <2>5, CountFault, CountStep, Zenon DEF Step
  <2>6. ASSUME Step(c, "copy", Moved(t)) PROVE CountsIInv'
    <3>1. CASE t.req # None
      <4>1. Exact(Moved(t))
        BY <2>1, <2>2, <2>3, <3>1, CountMoved, ZenonT(60) DEF Exact, Counted
      <4> QED BY <2>6, <4>1, CountStep, Zenon DEF Step
    <3>2. CASE t.req = None
      <4>1. Exact(Moved(t))
        BY <2>1, <3>2, MovedAlone, Zenon
      <4> QED BY <2>6, <4>1, CountStep, Zenon DEF Step
    <3> QED BY <3>1, <3>2, Zenon
  <2> QED BY <1>1, <2>4, <2>5, <2>6, Zenon DEF Copy, t
<1>2. CASE Count(c)
  <2>1. ASSUME ~task[c].valid, Step(c, "count", Reply(task[c], EINTR)) PROVE CountsIInv'
    <3> DEFINE t == Reply(task[c], EINTR)
    <3>1. Same(t, task[c]) /\ t.pc = "done" /\ task[c].pc = "count" /\ Step(c, "count", t)
      BY <1>0, <2>1, Replying DEF Step
    <3> HIDE DEF t
    <3>2. Exact(t)
      BY <1>0, <2>1, <3>1, Zenon DEF Exact, Counted, Same
    <3> QED BY <3>1, <3>2, CountStep, Zenon DEF Step
  <2>2. ASSUME Step(c, "count", Fault(task[c])) PROVE CountsIInv'
    BY <1>0, <2>2, CountFault, CountStep, Zenon DEF Step
  <2>3. ASSUME NEW p \in {"tail", "message"}, task[c].pc = "count",
               task' = [task EXCEPT ![c] = [task[c] EXCEPT !.completed = @ + 1, !.pc = p]]
        PROVE  CountsIInv'
    <3> DEFINE t == [task[c] EXCEPT !.completed = @ + 1, !.pc = p]
    <3>1. /\ t.req = task[c].req /\ t.completed = task[c].completed + 1 /\ t.pc = p
          /\ t.valid = task[c].valid /\ t.faulted = task[c].faulted /\ t.moved = task[c].moved
      BY <1>0, Fields, Zenon
    <3>2. task[c].completed \in Nat
      BY <1>0, Fields, Zenon
    <3>3. task' = [task EXCEPT ![c] = t]
      BY <2>3, Zenon
    <3> HIDE DEF t
    <3>4. Exact(t)
      BY <1>0, <2>3, <3>1, <3>2 DEF Exact, Counted
    <3> QED BY <3>3, <3>4, CountStep, Zenon
  <2> QED BY <1>2, <2>1, <2>2, <2>3, Zenon DEF Count, Step
<1> QED BY <1>1, <1>2, Zenon

(* dispatch's return: a batch reports what it completed, and an error only *)
(* if that is nothing.                                                     *)
LEMMA CountFinish ==
  ASSUME SourcesIInv, CountsIInv, NEW c \in Call, Finish(c)
  PROVE  CountsIInv'
<1>0. task[c] \in TaskSet /\ Exact(task[c]) /\ task[c].pc = "tail"
  BY Zenon DEF SourcesIInv, CountsIInv, Finish
<1>4. \A x : /\ Same(Reply(task[c], x), task[c])
             /\ Reply(task[c], x).pc = "done" /\ Reply(task[c], x).result = x
  BY <1>0, Replied, Zenon
<1>1. ASSUME NEW e \in {outcome(task[c]), IF TimedOut(task[c]) THEN 0 ELSE outcome(task[c])},
             Step(c, "tail", Reply(task[c], e))
      PROVE  CountsIInv'
  <2> DEFINE t == Reply(task[c], e)
  <2>1. Same(t, task[c]) /\ t.pc = "done" /\ t.result = e
    BY <1>4, Zenon
  <2>2. task[c].completed \in Nat /\ task[c].result \in Int
    BY <1>0, Fields, Zenon
  <2>3. Step(c, "tail", t)
    BY <1>1, Zenon
  <2> HIDE DEF t
  <2>4. Exact(t)
    BY <1>0, <1>1, <2>1, <2>2 DEF Exact, Counted, Same, outcome, TimedOut
  <2> QED BY <2>3, <2>4, CountStep, Zenon DEF Step
<1>2. ASSUME ~task[c].valid, Step(c, "tail", Reply(task[c], EINTR)) PROVE CountsIInv'
  <2> DEFINE t == Reply(task[c], EINTR)
  <2>1. Same(t, task[c]) /\ t.pc = "done" /\ Step(c, "tail", t)
    BY <1>2, <1>4, Zenon
  <2> HIDE DEF t
  <2>2. Exact(t)
    BY <1>0, <1>2, <2>1, Zenon DEF Exact, Counted, Same
  <2> QED BY <2>1, <2>2, CountStep, Zenon DEF Step
<1>3. ASSUME Step(c, "tail", [Reply(task[c], EFAULT) EXCEPT !.faulted = TRUE])
      PROVE  CountsIInv'
  <2> DEFINE t == [Reply(task[c], EFAULT) EXCEPT !.faulted = TRUE]
  <2>1. /\ t.req = task[c].req /\ t.completed = task[c].completed /\ t.pc = "done"
        /\ t.faulted
    BY <1>0, Fields, Zenon DEF Reply
  <2> HIDE DEF t
  <2>2. Exact(t)
    BY <1>0, <2>1, Zenon DEF Exact, Counted
  <2> QED BY <1>3, <2>2, CountStep, Zenon DEF Step, t
<1> QED BY <1>1, <1>2, <1>3, Zenon DEF Finish

(* Every step keeps the counts. *)
LEMMA CountsStep == SourcesIInv /\ CountsIInv /\ [Next]_vars => CountsIInv'
<1> SUFFICES ASSUME SourcesIInv, CountsIInv, [Next]_vars PROVE CountsIInv'
  BY Zenon
<1>1. ASSUME UNCHANGED task PROVE CountsIInv'
  BY <1>1, Zenon DEF CountsIInv
<1>2. ASSUME NEW c \in Call, Task(c) PROVE CountsIInv'
  BY <1>2, CountConnect, CountMessage, CountTransfer, CountCopied, CountFinish, Zenon DEF Task
<1>3. CASE Disconnect \/ (\E m \in inbox : serve_udp(m)) \/ UNCHANGED vars
  BY <1>1, <1>3, Zenon DEF Disconnect, serve_udp, vars
<1> QED BY <1>2, <1>3, CountApplication, Zenon DEF Next

(* For every batch size and any number of calls and threads: a call that   *)
(* was not abandoned and met no bad pointer reports exactly the datagrams  *)
(* the kernel moved for it (dispatch's loop and its return).               *)
THEOREM CountsAlwaysExact == Spec => []CountExact
<1>1. Init => CountsIInv
  BY DEF Init, CountsIInv, Exact, Idle, Fresh
<1>2. CountsIInv => CountExact
  BY Zenon DEF CountsIInv, Exact, Counted, CountExact
<1> QED BY <1>1, <1>2, CountsStep, SourcesInvariant, PTL DEF Spec

-------------------------------------------------------------------------------
(***************************************************************************)
(* run starts with empty buffers and no EOF.                                *)
(***************************************************************************)
LEMMA RelayStarts == RelayInit => RelayIInv
<1> SUFFICES ASSUME RelayInit PROVE RelayIInv
    BY Zenon
<1>1. RelayTypeOK
  <2>1. /\ fin \in [Dir -> BOOLEAN]
        /\ reset \in [{"app", "host"} -> BOOLEAN]
        /\ progress \in BOOLEAN /\ queued \in BOOLEAN
    BY Zenon DEF RelayInit
  <2>2. /\ sent \in [Dir -> Nat] /\ read \in [Dir -> Nat]
        /\ flushed \in [Dir -> Nat] /\ got \in [Dir -> Nat]
    BY Zenon DEF RelayInit
  <2>3. BUFFER \in Nat
    BY RelayAssumption, Zenon
  <2>4. \A d \in Dir : sent[d] = 0 /\ read[d] = 0 /\ flushed[d] = 0 /\ got[d] = 0
    BY Zenon DEF RelayInit
  <2> QED BY <2>1, <2>2, <2>3, <2>4 DEF RelayInit, RelayTypeOK
<1>2. pc = "done" <=> result # "none"
      BY Zenon DEF RelayInit
<1> QED BY <1>1, <1>2
           DEF RelayInit, RelayIInv, Dir, Closing, HostEndDelivered, ApplicationForwarded

(***************************************************************************)
(* A peer may send, end, receive or reset between any two system calls of   *)
(* run: none of these undoes what the relay has established.                *)
(***************************************************************************)
LEMMA EndpointStep ==
    ASSUME RelayIInv,
           \/ \E d \in Dir : PeerSend(d) \/ PeerEnd(d) \/ PeerGet(d)
           \/ \E x \in {"app", "host"} : PeerReset(x)
    PROVE  RelayIInv'
<1> USE RelayAssumption DEF RelayIInv, RelayTypeOK, Dir, Closing, HostEndDelivered,
                            ApplicationForwarded, counts
<1>1. ASSUME NEW d \in Dir, PeerSend(d) PROVE RelayIInv'
      BY <1>1 DEF PeerSend, Sender
<1>2. ASSUME NEW d \in Dir, PeerEnd(d) PROVE RelayIInv'
      BY <1>2 DEF PeerEnd
<1>3. ASSUME NEW d \in Dir, PeerGet(d) PROVE RelayIInv'
      BY <1>3 DEF PeerGet
<1>4. ASSUME NEW x \in {"app", "host"}, PeerReset(x) PROVE RelayIInv'
      BY <1>4 DEF PeerReset
<1> QED BY <1>1, <1>2, <1>3, <1>4, ZenonT(60)

(***************************************************************************)
(* Moving on, or returning an error, changes no queue.                      *)
(***************************************************************************)
LEMMA MoveStep ==
    ASSUME RelayIInv, result = "none",
           \/ ReturnError
           \/ \E l \in {"host", "flush_app", "queue", "app", "flush_host", "error", "outq",
                        "select"} : Skip(l)
    PROVE  RelayIInv'
BY ZenonT(60) DEF RelayIInv, RelayTypeOK, Dir, Closing, HostEndDelivered, ApplicationForwarded, counts,
       ReturnError, Skip, Proceed

(***************************************************************************)
(* try_read keeps to the free space of its buffer, and notices the EOF of a *)
(* peer only after the last of its bytes.                                   *)
(***************************************************************************)
LEMMA ReadStep ==
    ASSUME RelayIInv, result = "none", NEW d \in Dir, Space(d) > 0,
           d = "down" => ~Closing,
           NEW l \in {"flush_app", "flush_host"}, TryRead(d, l)
    PROVE  RelayIInv'
<1> USE RelayAssumption DEF RelayIInv, RelayTypeOK, Dir, Closing, HostEndDelivered,
                            ApplicationForwarded, counts, Proceed, Sender, Unread
<1> DEFINE n == Lesser(Unread(d), Space(d))
<1>1. CASE /\ Unread(d) > 0
           /\ read' = [read EXCEPT ![d] = @ + n]
           /\ progress' = TRUE
           /\ Proceed(l)
           /\ UNCHANGED <<queued, eof, mark, sent, fin, flushed, got, reset, result>>
  <2>1. /\ n \in Nat
        /\ read[d] + n <= sent[d]
        /\ read[d] + n - flushed[d] <= BUFFER
    BY <1>1 DEF Lesser, Space, Pending
  <2> HIDE DEF n
  <2> QED BY <1>1, <2>1
<1>2. CASE /\ Unread(d) = 0 /\ fin[d] /\ ~reset[Sender(d)]
           /\ eof' = IF Closing THEN eof ELSE Sender(d)
           /\ mark' = IF Closing THEN mark ELSE sent["up"]
           /\ progress' = TRUE
           /\ Proceed(l)
           /\ UNCHANGED <<queued, counts, fin, reset, result>>
      BY <1>2
<1>3. CASE /\ Proceed(l)
           /\ UNCHANGED <<progress, queued, eof, mark, counts, fin, reset, result>>
      BY <1>3, Zenon
<1>4. CASE ReturnError
      BY <1>4, MoveStep, Zenon
<1> QED BY <1>1, <1>2, <1>3, <1>4, Zenon DEF TryRead

(***************************************************************************)
(* flush writes no more than is pending.                                    *)
(***************************************************************************)
LEMMA FlushStep ==
    ASSUME RelayIInv, result = "none", NEW d \in Dir,
           NEW l \in {"queue", "error"}, Flush(d, l)
    PROVE  RelayIInv'
<1>1. CASE Skip(l) \/ ReturnError
      BY <1>1, MoveStep, Zenon
<1>2. CASE /\ Pending(d) > 0 /\ ~reset[Sink(d)] /\ OutQueue(d) < SockBuf
           /\ \E n \in 1..Lesser(Pending(d), SockBuf - OutQueue(d)) :
                 flushed' = [flushed EXCEPT ![d] = @ + n]
           /\ progress' = TRUE
           /\ Proceed(l)
           /\ UNCHANGED <<queued, eof, mark, sent, fin, read, got, reset, result>>
  <2>1. PICK n \in 1..Lesser(Pending(d), SockBuf - OutQueue(d)) :
               flushed' = [flushed EXCEPT ![d] = @ + n]
    BY <1>2, Zenon
  <2>2. n \in Nat /\ flushed[d] + n <= read[d]
    BY <2>1, RelayAssumption DEF RelayIInv, RelayTypeOK, Lesser, Pending, OutQueue
  <2> QED BY <1>2, <2>1, <2>2, RelayAssumption
             DEF RelayIInv, RelayTypeOK, Dir, Closing, HostEndDelivered, ApplicationForwarded, Proceed
<1> QED BY <1>1, <1>2, Zenon DEF Flush

(***************************************************************************)
(* Every step of the loop.  CheckOut and CheckIn establish, one system call *)
(* at a time, what Drop relies on.                                          *)
(***************************************************************************)
LEMMA LoopStep == RelayIInv /\ RelayStep => RelayIInv'
<1> SUFFICES ASSUME RelayIInv, RelayStep PROVE RelayIInv'
    BY Zenon
<1>0. pc # "done" => result = "none"
      BY Zenon DEF RelayIInv
<1>1. CASE ReadHost
  <2>1. result = "none"
    BY <1>0, <1>1, Zenon DEF ReadHost
  <2>2. CASE ~Closing /\ Space("down") > 0 /\ TryRead("down", "flush_app")
    BY <2>1, <2>2, ReadStep, Zenon DEF Dir
  <2>3. CASE Skip("flush_app")
    BY <2>1, <2>3, MoveStep, Zenon
  <2> QED BY <1>1, <2>2, <2>3, Zenon DEF ReadHost
<1>2. CASE FlushApp \/ FlushHost
  <2>1. result = "none"
    BY <1>0, <1>2, Zenon DEF FlushApp, FlushHost
  <2>2. CASE Flush("down", "queue")
    BY <2>1, <2>2, FlushStep, Zenon DEF Dir
  <2>3. CASE Flush("up", "error")
    BY <2>1, <2>3, FlushStep, Zenon DEF Dir
  <2> QED BY <1>2, <2>2, <2>3, Zenon DEF FlushApp, FlushHost
<1>3. CASE QueueLen
      BY <1>3 DEF QueueLen, Proceed, RelayIInv, RelayTypeOK, Dir, Closing, HostEndDelivered,
                  ApplicationForwarded, counts
<1>4. CASE ReadApp
  <2>1. result = "none"
    BY <1>0, <1>4, Zenon DEF ReadApp
  <2>2. CASE Space("up") > 0 /\ TryRead("up", "flush_host")
    BY <2>1, <2>2, ReadStep, Zenon DEF Dir
  <2>3. CASE Skip("flush_host")
    BY <2>1, <2>3, MoveStep, Zenon
  <2> QED BY <1>4, <2>2, <2>3, Zenon DEF ReadApp
<1>5. CASE TakeError \/ Select
      BY <1>0, <1>5, MoveStep, Zenon DEF TakeError, Select
<1>6. CASE CheckOut
  <2>1. CASE Drained /\ Skip("inq")
    BY <1>0, <1>6, <2>1
       DEF CheckOut, Drained, Skip, Proceed, Pending, OutQueue, RelayIInv, RelayTypeOK, Dir, Closing,
           HostEndDelivered, ApplicationForwarded, counts
  <2>2. CASE Skip("select")
    BY <1>0, <1>6, <2>2, MoveStep, Zenon DEF CheckOut
  <2>3. CASE /\ Proceed("host") /\ progress' = FALSE
             /\ UNCHANGED <<queued, eof, mark, counts, fin, reset, result>>
    BY <1>0, <1>6, <2>3, Zenon
       DEF CheckOut, Proceed, RelayIInv, RelayTypeOK, Dir, Closing, HostEndDelivered,
           ApplicationForwarded, counts
  <2> QED BY <1>6, <2>1, <2>2, <2>3, Zenon DEF CheckOut
<1>7. CASE CheckIn
  <2>1. CASE Unread("up") = 0 /\ Skip("drop")
    BY <1>0, <1>7, <2>1
       DEF CheckIn, Skip, Proceed, Unread, RelayIInv, RelayTypeOK, Dir, Closing, HostEndDelivered,
           ApplicationForwarded, counts
  <2>2. CASE Skip("select")
    BY <1>0, <1>7, <2>2, MoveStep, Zenon DEF CheckIn
  <2>3. CASE /\ Proceed("host") /\ progress' = FALSE
             /\ UNCHANGED <<queued, eof, mark, counts, fin, reset, result>>
    BY <1>0, <1>7, <2>3, Zenon
       DEF CheckIn, Proceed, RelayIInv, RelayTypeOK, Dir, Closing, HostEndDelivered,
           ApplicationForwarded, counts
  <2> QED BY <1>7, <2>1, <2>2, <2>3, Zenon DEF CheckIn
<1>8. CASE Drop
      BY <1>8, Zenon DEF Drop, Proceed, RelayIInv, RelayTypeOK, Dir, Closing, HostEndDelivered,
                  ApplicationForwarded, counts
<1> QED BY <1>1, <1>2, <1>3, <1>4, <1>5, <1>6, <1>7, <1>8, Zenon DEF RelayStep

(***************************************************************************)
(* The inductive invariant of relay::run.                                   *)
(***************************************************************************)
THEOREM RelayInvariant == RelaySpec => []RelayIInv
<1>1. RelayIInv /\ UNCHANGED relayVars => RelayIInv'
      BY ZenonT(60) DEF relayVars, RelayIInv, RelayTypeOK, Dir, Closing, HostEndDelivered, ApplicationForwarded
<1>2. RelayIInv /\ [RelayNext]_relayVars => RelayIInv'
      BY <1>1, EndpointStep, LoopStep, Zenon DEF RelayNext
<1> QED BY <1>2, RelayStarts, PTL DEF RelaySpec

(***************************************************************************)
(* When relay::run closes after the host's EOF, the application has         *)
(* received every byte the host sent, whatever the sizes of the buffers.    *)
(***************************************************************************)
THEOREM HostEndAlwaysDelivered == RelaySpec => []HostEndDelivered
BY RelayInvariant, PTL DEF RelayIInv

(***************************************************************************)
(* When relay::run closes, it has written to the host everything the        *)
(* application had sent when the EOF was noticed.                           *)
(***************************************************************************)
THEOREM ApplicationAlwaysForwarded == RelaySpec => []ApplicationForwarded
BY RelayInvariant, PTL DEF RelayIInv
===============================================================================
