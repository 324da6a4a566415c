---------------------------- MODULE IngressProofs -----------------------------
(***************************************************************************)
(* Proofs about the shared ingress listener (tcp_ingress.rs).  First its    *)
(* invariant: a registration belongs to one call or one relay task, and is  *)
(* listed while it waits for its stream.  Then where the streams go: one is *)
(* delivered to the registration of its own connect, and relayed as that    *)
(* connect asked.  Last the permits that bound the listener: no path of     *)
(* connect_tcp or of a relay task loses or doubles one, so that no more     *)
(* than MaxPending registrations wait.                                      *)
(***************************************************************************)
EXTENDS TcpConnectProofs

(***************************************************************************)
(* Registration::drop removes one entry of a list without repetitions, the  *)
(* right one (tcp_ingress.rs:133-144).                                      *)
(***************************************************************************)
LEMMA Removed ==
    ASSUME NEW S, NEW w \in Seq(S), IsInjective(w), NEW r
    PROVE  /\ without(w, r) \in Seq(S) /\ IsInjective(without(w, r))
           /\ \A i \in 1..Len(without(w, r)) :
                 /\ without(w, r)[i] # r
                 /\ \E j \in 1..Len(w) : without(w, r)[i] = w[j]
<1> DEFINE I == {i \in 1..Len(w) : w[i] = r}
           v == without(w, r)
<1>1. CASE I = {}
  <2>1. v = w
    BY <1>1, Zenon DEF without
  <2> QED BY <1>1, <2>1, Zenon
<1>2. CASE I # {}
  <2> DEFINE k == Min(I)
  <2>1. v = SubSeq(w, 1, k - 1) \o SubSeq(w, k + 1, Len(w))
    BY <1>2, Zenon DEF without
  <2>2. k \in I
    <3>1. PICK n \in I : TRUE
      BY <1>2, Zenon
    <3>2. I = {n} /\ n \in Nat
      BY DEF IsInjective
    <3> HIDE DEF I
    <3>3. \E z \in I : \A y \in I : z <= y
      BY <3>2
    <3> QED BY <3>3, Zenon DEF Min
  <2> HIDE DEF v, k
  <2>3. /\ k \in 1..Len(w) /\ w[k] = r /\ Len(w) \in Nat
        /\ \A j \in 1..Len(w) : w[j] = r => j = k
    BY <2>2 DEF IsInjective
  <2>4. /\ v \in Seq(S) /\ Len(v) = Len(w) - 1
        /\ \A i \in 1..Len(v) : v[i] = IF i < k THEN w[i] ELSE w[i + 1]
    <3> DEFINE a == SubSeq(w, 1, k - 1)
               b == SubSeq(w, k + 1, Len(w))
    <3>1. /\ a \in Seq(S) /\ Len(a) = k - 1
          /\ \A i \in 1..(k - 1) : a[i] = w[i]
      BY <2>3
    <3>2. /\ b \in Seq(S) /\ Len(b) = Len(w) - k
          /\ \A i \in 1..(Len(w) - k) : b[i] = w[i + k]
      BY <2>3
    <3>3. v = a \o b
      BY <2>1, Zenon
    <3> HIDE DEF a, b
    <3>4. /\ v \in Seq(S) /\ Len(v) = Len(a) + Len(b)
          /\ \A i \in 1..Len(v) : v[i] = IF i <= Len(a) THEN a[i] ELSE b[i - Len(a)]
      BY <3>1, <3>2, <3>3
    <3>5. ASSUME NEW i \in 1..Len(v) PROVE v[i] = IF i < k THEN w[i] ELSE w[i + 1]
      <4>1. CASE i < k
        BY <2>3, <3>1, <3>4, <4>1
      <4>2. CASE ~(i < k)
        <5>1. i - (k - 1) \in 1..(Len(w) - k) /\ (i - (k - 1)) + k = i + 1
          BY <2>3, <3>1, <3>2, <3>4, <4>2
        <5>2. v[i] = b[i - (k - 1)]
          <6>1. ~(i <= Len(a))
            BY <2>3, <3>1, <4>2
          <6>2. v[i] = b[i - Len(a)]
            BY <3>4, <6>1, Zenon
          <6> QED BY <3>1, <6>2, Zenon
        <5> QED BY <3>2, <4>2, <5>1, <5>2, Zenon
      <4> QED BY <4>1, <4>2, Zenon
    <3> QED BY <2>3, <3>1, <3>2, <3>4, <3>5
  <2>5. IsInjective(v)
    <3>1. DOMAIN v = 1..Len(v) /\ DOMAIN w = 1..Len(w)
      BY <2>4
    <3>2. ASSUME NEW i \in 1..Len(v), NEW j \in 1..Len(v), v[i] = v[j] PROVE i = j
      <4> DEFINE f(n) == IF n < k THEN n ELSE n + 1
      <4>1. f(i) \in 1..Len(w) /\ f(j) \in 1..Len(w) /\ v[i] = w[f(i)] /\ v[j] = w[f(j)]
        BY <2>3, <2>4
      <4>2. f(i) = f(j)
        BY <3>1, <3>2, <4>1, ZenonT(60) DEF IsInjective
      <4> QED BY <2>3, <4>2
    <3> QED BY <3>1, <3>2, Zenon DEF IsInjective
  <2>6. \A i \in 1..Len(v) : v[i] # r /\ \E j \in 1..Len(w) : v[i] = w[j]
    <3> SUFFICES ASSUME NEW i \in 1..Len(v) 
                 PROVE  v[i] # r /\ \E j \in 1..Len(w) : v[i] = w[j]
      BY Zenon
    <3>1. CASE i < k
      BY <2>3, <2>4, <3>1
    <3>2. CASE ~(i < k)
      <4>1. i + 1 \in 1..Len(w) /\ i + 1 # k /\ v[i] = w[i + 1]
        BY <2>3, <2>4, <3>2
      <4> QED BY <2>3, <4>1, Zenon
    <3> QED BY <3>1, <3>2, Zenon
  <2> QED BY <2>4, <2>5, <2>6, Zenon DEF v
<1> QED BY <1>1, <1>2, Zenon
-------------------------------------------------------------------------------
(***************************************************************************)
(* What the end of a connection does to the registrations that wait for its *)
(* stream: no more than to mark them.                                       *)
(***************************************************************************)
LEMMA Abandoned ==
    ASSUME IngressTyped, NEW s
    PROVE  /\ abandon(s) \in [Reg -> Registration \cup {None}]
           /\ \A r \in Reg :
                 /\ abandon(s)[r] = None <=> reg[r] = None
                 /\ reg[r] # None =>
                       LET a == abandon(s)[r]
                       IN  /\ a.sock = reg[r].sock /\ a.port = reg[r].port /\ a.tgt = reg[r].tgt
                           /\ a.phase = reg[r].phase /\ a.sender = reg[r].sender
                           /\ a.stream = reg[r].stream
                           /\ reg[r].lost => a.lost
                           /\ reg[r].sock = s /\ reg[r].sender => a.lost
<1> DEFINE Like(t, a) ==
              /\ a.sock = t.sock /\ a.port = t.port /\ a.tgt = t.tgt /\ a.phase = t.phase
              /\ a.sender = t.sender /\ a.stream = t.stream /\ (t.lost => a.lost)
              /\ t.sock = s /\ t.sender => a.lost
<1>1. ASSUME NEW t \in Registration
      PROVE  LET a == [t EXCEPT !.lost = TRUE] IN a \in Registration /\ Like(t, a)
  <2> DEFINE a == [t EXCEPT !.lost = TRUE]
  <2>1. DOMAIN t = {"sock", "port", "tgt", "phase", "sender", "stream", "lost"}
    BY Zenon DEF Registration
  <2>2. Like(t, a)
    BY <2>1, Zenon
  <2>3. a \in Registration
    BY ZenonT(60) DEF Registration
  <2> QED BY <2>2, <2>3, Zenon
<1>2. ASSUME NEW r \in Reg
      PROVE  /\ abandon(s)[r] \in Registration \cup {None}
             /\ abandon(s)[r] = None <=> reg[r] = None
             /\ reg[r] # None => Like(reg[r], abandon(s)[r])
  <2>1. /\ reg[r] \in Registration \cup {None} /\ None \notin Registration
        /\ abandon(s)[r] = IF reg[r] # None /\ reg[r].sock = s /\ reg[r].sender
                           THEN [reg[r] EXCEPT !.lost = TRUE] ELSE reg[r]
    BY IngressAssumption, Zenon DEF IngressTyped, abandon
  <2>2. CASE reg[r] # None /\ reg[r].sock = s /\ reg[r].sender
    <3>1. abandon(s)[r] = [reg[r] EXCEPT !.lost = TRUE] /\ reg[r] \in Registration
      BY <2>1, <2>2, Zenon
    <3> HIDE DEF Like
    <3>2. [reg[r] EXCEPT !.lost = TRUE] \in Registration /\ Like(reg[r], [reg[r] EXCEPT !.lost = TRUE])
      BY <1>1, <3>1, Zenon
    <3> QED BY <2>1, <2>2, <3>1, <3>2, Zenon
  <2>3. CASE ~(reg[r] # None /\ reg[r].sock = s /\ reg[r].sender)
    <3>1. abandon(s)[r] = reg[r]
      BY <2>1, <2>3, Zenon
    <3> QED BY <2>1, <2>3, <3>1, Zenon
  <2> QED BY <2>2, <2>3, Zenon
<1>3. abandon(s) = [r \in Reg |-> abandon(s)[r]]
  BY Zenon DEF abandon
<1>4. abandon(s) \in [Reg -> Registration \cup {None}]
  BY <1>2, <1>3, Zenon
<1> QED BY <1>2, <1>4, Zenon

(***************************************************************************)
(* ... and to its streams in the accept queue.                              *)
(***************************************************************************)
LEMMA Resets ==
    ASSUME IngressTyped, NEW s
    PROVE  /\ reset(s) \in Seq(Stream) /\ Len(reset(s)) = Len(backlog)
           /\ \A i \in 1..Len(backlog) :
                 /\ reset(s)[i].sock = backlog[i].sock
                 /\ reset(s)[i].open => reset(s)[i] = backlog[i] /\ backlog[i].sock # s
<1>1. ASSUME NEW t \in Stream
      PROVE  LET a == [t EXCEPT !.open = FALSE] IN a \in Stream /\ a.sock = t.sock /\ ~a.open
  <2>1. DOMAIN t = {"sock", "port", "tgt", "open"}
    BY Zenon DEF Stream
  <2> QED BY <2>1, Zenon DEF Stream
<1>2. Len(backlog) \in Nat /\ \A i \in 1..Len(backlog) : backlog[i] \in Stream
  BY DEF IngressTyped
<1>3. ASSUME NEW i \in 1..Len(backlog)
      PROVE  /\ reset(s)[i] \in Stream
             /\ reset(s)[i].sock = backlog[i].sock
             /\ reset(s)[i].open => reset(s)[i] = backlog[i] /\ backlog[i].sock # s
  <2>1. reset(s)[i] = IF backlog[i].sock = s THEN [backlog[i] EXCEPT !.open = FALSE] ELSE backlog[i]
    BY Zenon DEF reset
  <2>2. CASE backlog[i].sock = s
    <3>1. reset(s)[i] = [backlog[i] EXCEPT !.open = FALSE]
      BY <2>1, <2>2, Zenon
    <3> QED BY <1>1, <1>2, <3>1, Zenon
  <2>3. CASE backlog[i].sock # s
    <3>1. reset(s)[i] = backlog[i]
      BY <2>1, <2>3, Zenon
    <3> QED BY <1>2, <2>3, <3>1, Zenon
  <2> QED BY <2>2, <2>3, Zenon
<1>4. reset(s) = [i \in 1..Len(backlog) |-> reset(s)[i]]
  BY Zenon DEF reset
<1>5. reset(s) \in [1..Len(backlog) -> Stream]
  BY <1>3, <1>4, Zenon
<1> HIDE DEF reset
<1>6. reset(s) \in Seq(Stream) /\ Len(reset(s)) = Len(backlog)
  BY <1>2, <1>5
<1> QED BY <1>3, <1>6, Zenon
-------------------------------------------------------------------------------
(***************************************************************************)
(* bind and connect take a port that exists.                                *)
(***************************************************************************)
LEMMA Ports ==
    ASSUME SocketsIInv, NamesIInv, NEW s \in Socket
    PROVE  SourcePorts(s) \subseteq Port /\ prepare(s) \subseteq Port
BY Zenon DEF SocketsIInv, NamesIInv, SourcePorts, prepare, TcpSocket

(***************************************************************************)
(* What a step makes of a socket: it keeps its connection or stays without  *)
(* one, takes a port, starts a connection, or loses the one it had.  A      *)
(* registration that waits for the stream of a lost one is marked, and of   *)
(* the streams in the accept queue none is left open.                       *)
(***************************************************************************)
Down(e) == e.state \in {"close", "failed", "dead"}

Keeps(z, e) ==
    /\ e.name = tcp[z].name /\ e.held = tcp[z].held /\ e.to = tcp[z].to /\ e.tgt = tcp[z].tgt
    /\ \/ e.state = tcp[z].state
       \/ Closed(z) /\ Down(e)
       \/ tcp[z].state = "syn" /\ e.state = "estab"
       \/ tcp[z].state = "estab" /\ e.state = "shut"

Binds(z, e) ==
    Closed(z) /\ Down(e) /\ e.name \in SourcePorts(z) /\ (z \in Pinned => e.held)

Opens(z, e) ==
    /\ Closed(z) /\ e.name \in SourcePorts(z) /\ e.held /\ e.tgt \in Target
    /\ \/ e.state = "syn" /\ e.to = "ingress"
       \/ e.state = "estab"

Ends(z, e) ==
    /\ ~Closed(z) /\ Down(e) /\ e.name = tcp[z].name /\ (e.held <=> z \in Pinned)
    /\ reg' = abandon(z)
    /\ \/ tcp[z].state = "syn"
       \/ \A i \in 1..Len(backlog') : backlog'[i].sock = z => ~backlog'[i].open

SocketMoves ==
    \/ UNCHANGED tcp
    \/ \E z \in Socket, e \in TcpSocket :
          /\ tcp' = [tcp EXCEPT ![z] = e]
          /\ Keeps(z, e) \/ Binds(z, e) \/ Opens(z, e) \/ Ends(z, e)

(***************************************************************************)
(* Nothing else happens to a socket, whoever takes the step.                *)
(***************************************************************************)
LEMMA SocketStep ==
    ASSUME ConnectsIInv, NamesIInv, IngressTyped, [Next]_vars
    PROVE  SocketMoves
<1>0. /\ CallsIInv /\ SocketsIInv /\ tcp \in [Socket -> TcpSocket]
      /\ \A z \in Socket : tcp[z].state \in State
  BY Zenon DEF ConnectsIInv, SocketsIInv, TcpSocket
<1>1. ASSUME UNCHANGED tcp PROVE SocketMoves
  BY <1>1, Zenon DEF SocketMoves
<1>2. ASSUME NEW z \in Socket, NEW st \in {"close", "failed", "dead"}, ~Closed(z),
             tcp' = [tcp EXCEPT ![z] = closed(z, st)], reg' = abandon(z),
             \/ tcp[z].state = "syn"
             \/ \A i \in 1..Len(backlog') : backlog'[i].sock = z => ~backlog'[i].open
      PROVE  SocketMoves
  <2>1. PICK e : e = closed(z, st)
    BY Zenon
  <2>2. e \in TcpSocket /\ e.state = st /\ e.name = tcp[z].name /\ e.held = (z \in Pinned)
    BY <1>0, <2>1, ClosedSocket DEF State
  <2>3. Ends(z, e)
    BY <1>2, <2>2, ZenonT(60) DEF Ends, Down
  <2> QED BY <1>2, <2>1, <2>2, <2>3, Zenon DEF SocketMoves
<1>3. ASSUME NEW z \in Socket, NEW st \in State, tcp' = [tcp EXCEPT ![z] = [tcp[z] EXCEPT !.state = st]],
             \/ Closed(z) /\ st \in {"close", "failed", "dead"}
             \/ tcp[z].state = "syn" /\ st = "estab"
             \/ tcp[z].state = "estab" /\ st = "shut"
      PROVE  SocketMoves
  <2>1. PICK e : e = [tcp[z] EXCEPT !.state = st]
    BY Zenon
  <2>2. /\ e \in TcpSocket /\ e.state = st /\ e.name = tcp[z].name /\ e.held = tcp[z].held
        /\ e.to = tcp[z].to /\ e.tgt = tcp[z].tgt
    BY <1>0, <2>1, StateSocket
  <2>3. Keeps(z, e)
    BY <1>3, <2>2, Zenon DEF Keeps, Down
  <2> QED BY <1>3, <2>1, <2>2, <2>3, Zenon DEF SocketMoves
<1>4. ASSUME NEW z \in Socket, Closed(z), NEW p \in SourcePorts(z), NEW t \in Target,
             NEW st \in {"syn", "estab"}, NEW to \in {"ingress", "native"},
             st = "syn" => to = "ingress",
             tcp' = [tcp EXCEPT ![z] = [state |-> st, name |-> p, held |-> TRUE, to |-> to,
                                        tgt |-> t, committed |-> None]]
      PROVE  SocketMoves
  <2> DEFINE e == [state |-> st, name |-> p, held |-> TRUE, to |-> to, tgt |-> t,
                   committed |-> None]
  <2>1. /\ e.state = st /\ e.name = p /\ e.held /\ e.to = to /\ e.tgt = t
        /\ tcp' = [tcp EXCEPT ![z] = e]
    BY <1>4, Zenon
  <2>2. e \in TcpSocket
    BY <1>0, <1>4, Ports, Zenon DEF TcpSocket, State
  <2> HIDE DEF e
  <2>3. Opens(z, e)
    BY <1>4, <2>1, Zenon DEF Opens
  <2> QED BY <2>1, <2>2, <2>3, Zenon DEF SocketMoves
<1>5. ASSUME NEW c \in Call, Register(c) PROVE SocketMoves
  <2> DEFINE z == call[c].sock
             t == tcp[z]
  <2>1. z \in Socket /\ t \in TcpSocket
    BY <1>0, <1>5, Zenon DEF Register, CallsIInv
  <2>2. ASSUME NEW p \in prepare(z), t.name = None,
               tcp' = [tcp EXCEPT ![z].name = p, ![z].held = TRUE]
        PROVE  SocketMoves
    <3> DEFINE e == [t EXCEPT !.name = p, !.held = TRUE]
    <3>1. Closed(z) /\ t.state \in {"close", "failed", "dead"}
      BY <2>1, <2>2, IngressAssumption, Zenon DEF NamesIInv, Closed
    <3>2. p \in SourcePorts(z) /\ p \in Port
      BY <1>0, <2>1, <2>2, Ports, Zenon DEF prepare
    <3>3. DOMAIN t = {"state", "name", "held", "to", "tgt", "committed"}
      BY <2>1, Zenon DEF TcpSocket
    <3>4. tcp' = [tcp EXCEPT ![z] = e]
      BY <1>0, <2>1, <2>2, Zenon
    <3> HIDE DEF t
    <3>5. e.state = t.state /\ e.name = p /\ e.held
      BY <3>3, Zenon
    <3>6. e \in TcpSocket
      BY <2>1, <3>2, Zenon DEF TcpSocket
    <3> HIDE DEF e
    <3>7. Binds(z, e)
      BY <3>1, <3>2, <3>5, Zenon DEF Binds, Down
    <3> QED BY <2>1, <3>4, <3>6, <3>7, Zenon DEF SocketMoves
  <2>3. tcp' = tcp \/ \E p \in prepare(z) :
                          t.name = None /\ tcp' = [tcp EXCEPT ![z].name = p, ![z].held = TRUE]
    BY <1>5, Zenon DEF Register
  <2> QED BY <1>1, <2>2, <2>3, Zenon
<1>6. ASSUME NEW c \in Call, CancelShutdown(c) PROVE SocketMoves
  <2> DEFINE z == call[c].sock
  <2>1. z \in Socket /\ shutdown(z) /\ UNCHANGED backlog
    BY <1>0, <1>6, Zenon DEF CancelShutdown, CallsIInv
  <2>2. CASE tcp[z].state = "syn" /\ tcp' = [tcp EXCEPT ![z] = closed(z, "close")]
    <3>1. ~Closed(z) /\ reg' = abandon(z)
      BY <2>1, <2>2, Zenon DEF Closed, shutdown
    <3> QED BY <1>2, <2>1, <2>2, <3>1, Zenon
  <2>3. ASSUME NEW st \in State, tcp' = [tcp EXCEPT ![z] = [tcp[z] EXCEPT !.state = st]],
               \/ tcp[z].state = "estab" /\ st = "shut"
               \/ tcp[z].state = "failed" /\ st = "dead"
        PROVE  SocketMoves
    BY <1>3, <2>1, <2>3, Zenon DEF Closed
  <2> QED BY <1>0, <1>1, <2>1, <2>2, <2>3, ShutSocket, Zenon
<1>7. ASSUME NEW c \in Call, Commit(c) PROVE SocketMoves
  <2> DEFINE z == call[c].sock
             t == tcp[z]
             v == IF Closed(z) THEN None ELSE call[c].tgt
             e == [t EXCEPT !.committed = v]
  <2>1. z \in Socket /\ t \in TcpSocket /\ v \in Target \cup {None}
    BY <1>0, <1>7, Zenon DEF Commit, CallsIInv, ConnectsIInv, HoldsIInv, Holds, Unlocked
  <2>2. DOMAIN t = {"state", "name", "held", "to", "tgt", "committed"}
    BY <2>1, Zenon DEF TcpSocket
  <2>3. tcp' = [tcp EXCEPT ![z] = e]
    BY <1>0, <1>7, <2>1, Zenon DEF Commit
  <2>4. t = tcp[z]
    BY Zenon
  <2> HIDE DEF t, v
  <2>5. /\ e.state = t.state /\ e.to = t.to /\ e.tgt = t.tgt /\ e.name = t.name
        /\ e.held = t.held
    BY <2>2, Zenon
  <2>6. e \in TcpSocket
    BY <2>1, Zenon DEF TcpSocket
  <2> HIDE DEF e
  <2>7. Keeps(z, e)
    BY <2>4, <2>5, Zenon DEF Keeps
  <2> QED BY <2>1, <2>3, <2>6, <2>7, Zenon DEF SocketMoves
<1>8. ASSUME NEW c \in Call, Task(c) PROVE SocketMoves
  <2>1. UNCHANGED tcp \/ Register(c) \/ CancelShutdown(c) \/ Commit(c)
    BY <1>8, ZenonT(60) DEF Task, Dispatch, Acquire, ReadState, Route, InsertPeer, Run, WaitDone, WaitCancel,
                CancelDone, kernel
  <2> QED BY <1>1, <1>5, <1>6, <1>7, <2>1, Zenon
<1>9. ASSUME NEW c \in Call, NativeCall(c) PROVE SocketMoves
  <2> DEFINE z == call[c].sock
  <2>1. z \in Socket /\ call[c].tgt \in Target \cup {Unspec}
    BY <1>0, <1>9, Zenon DEF NativeCall, CallsIInv
  <2>2. CASE /\ tcp' = [tcp EXCEPT ![z] = IF Closed(z) THEN [@ EXCEPT !.state = "close"]
                                          ELSE closed(z, "close")]
             /\ reg' = IF Closed(z) THEN reg ELSE abandon(z)
             /\ backlog' = reset(z)
    <3>1. CASE Closed(z)
      <4>1. tcp' = [tcp EXCEPT ![z] = [tcp[z] EXCEPT !.state = "close"]]
        BY <1>0, <2>1, <2>2, <3>1, Zenon
      <4> QED BY <1>3, <2>1, <3>1, <4>1, Zenon DEF State
    <3>2. CASE ~Closed(z)
      <4>1. tcp' = [tcp EXCEPT ![z] = closed(z, "close")] /\ reg' = abandon(z)
        BY <2>2, <3>2, Zenon
      <4>2. \A i \in 1..Len(backlog') : backlog'[i].sock = z => ~backlog'[i].open
        <5>1. /\ Len(reset(z)) = Len(backlog)
              /\ \A i \in 1..Len(backlog) : reset(z)[i].sock = z => ~reset(z)[i].open
          BY Resets, Zenon
        <5>2. Len(backlog') = Len(backlog)
          BY <2>2, <5>1, Zenon
        <5> QED BY <2>2, <5>1, <5>2, Zenon
      <4> QED BY <1>2, <2>1, <3>2, <4>1, <4>2, Zenon
    <3> QED BY <3>1, <3>2, Zenon
  <2>3. ASSUME NEW p \in SourcePorts(z), call[c].tgt # Unspec, tcp[z].state = "close",
               tcp' = [tcp EXCEPT ![z] = [state |-> "estab", name |-> p, held |-> TRUE,
                                          to |-> "native", tgt |-> call[c].tgt,
                                          committed |-> None]]
        PROVE  SocketMoves
    BY <1>4, <2>1, <2>3, ZenonT(60) DEF Closed
  <2>4. ASSUME NEW p \in SourcePorts(z), tcp[z].state = "close",
               tcp' = [tcp EXCEPT ![z] = [closed(z, "close") EXCEPT !.name = p]]
        PROVE  SocketMoves
    <3> DEFINE t == closed(z, "close")
               e == [t EXCEPT !.name = p]
    <3>1. t \in TcpSocket /\ t.state = "close" /\ t.held = (z \in Pinned)
      BY <1>0, <2>1, ClosedSocket DEF State
    <3>2. /\ DOMAIN t = {"state", "name", "held", "to", "tgt", "committed"} /\ p \in Port
          /\ tcp' = [tcp EXCEPT ![z] = e] /\ Closed(z)
      BY <1>0, <2>1, <2>4, <3>1, Ports, ZenonT(60) DEF TcpSocket, Closed
    <3> HIDE DEF t
    <3>3. e.state = "close" /\ e.name = p /\ e.held = (z \in Pinned)
      BY <3>1, <3>2, Zenon
    <3>4. e \in TcpSocket
      BY <3>1, <3>2, Zenon DEF TcpSocket
    <3> HIDE DEF e
    <3>5. Binds(z, e)
      BY <2>4, <3>2, <3>3, Zenon DEF Binds, Down
    <3> QED BY <2>1, <3>2, <3>4, <3>5, Zenon DEF SocketMoves
  <2>5. CASE tcp[z].state = "failed" /\ tcp' = [tcp EXCEPT ![z].state = "close"]
    <3>1. tcp' = [tcp EXCEPT ![z] = [tcp[z] EXCEPT !.state = "close"]] /\ Closed(z)
      BY <1>0, <2>1, <2>5, Zenon DEF Closed
    <3> QED BY <1>3, <2>1, <3>1, Zenon DEF State
  <2> QED BY <1>1, <1>9, <2>2, <2>3, <2>4, <2>5, ZenonT(60) DEF NativeCall
<1>10. ASSUME NEW c \in Call, WorkerEnter(c) PROVE SocketMoves
  <2> DEFINE z == call[c].sock
  <2>1. z \in Socket /\ call[c].tgt \in Target
    BY <1>10, Zenon DEF WorkerEnter, ConnectsIInv, WorkersIInv, HoldsIInv, Holds, Unlocked, CallsIInv
  <2>2. ASSUME NEW p \in SourcePorts(z), tcp[z].state = "close",
               tcp' = [tcp EXCEPT ![z] = [state |-> "syn", name |-> p, held |-> TRUE,
                                          to |-> "ingress", tgt |-> call[c].tgt,
                                          committed |-> None]]
        PROVE  SocketMoves
    BY <1>4, <2>1, <2>2, ZenonT(60) DEF Closed
  <2>3. CASE tcp[z].state = "failed" /\ tcp' = [tcp EXCEPT ![z].state = "close"]
    <3>1. tcp' = [tcp EXCEPT ![z] = [tcp[z] EXCEPT !.state = "close"]] /\ Closed(z)
      BY <1>0, <2>1, <2>3, Zenon DEF Closed
    <3> QED BY <1>3, <2>1, <3>1, Zenon DEF State
  <2> QED BY <1>1, <1>10, <2>2, <2>3, ZenonT(60) DEF WorkerEnter
<1>11. ASSUME NEW c \in Call, WorkerReturn(c) PROVE SocketMoves
  <2> DEFINE z == call[c].sock
  <2>1. z \in Socket
    BY <1>11, Zenon DEF WorkerReturn, ConnectsIInv, WorkersIInv, HoldsIInv, Holds, Unlocked, CallsIInv
  <2>2. CASE Closed(z) /\ tcp' = [tcp EXCEPT ![z].state = "close"]
    <3>1. tcp' = [tcp EXCEPT ![z] = [tcp[z] EXCEPT !.state = "close"]]
      BY <1>0, <2>1, <2>2, Zenon
    <3> QED BY <1>3, <2>1, <2>2, <3>1, Zenon DEF State
  <2> QED BY <1>1, <1>11, <2>2, ZenonT(60) DEF WorkerReturn
<1>12. ASSUME NEW z \in Socket, Handshake(z) PROVE SocketMoves
  <2>1. tcp' = [tcp EXCEPT ![z] = [tcp[z] EXCEPT !.state = "estab"]] /\ tcp[z].state = "syn"
    BY <1>0, <1>12, Zenon DEF Handshake
  <2> QED BY <1>3, <2>1, Zenon DEF State
<1>13. ASSUME NEW z \in Socket, ConnectionLost(z) PROVE SocketMoves
  <2>1. /\ ~Closed(z) /\ reg' = abandon(z)
        /\ \A i \in 1..Len(backlog') : backlog'[i].sock = z => ~backlog'[i].open
    BY <1>13, Zenon DEF ConnectionLost
  <2>2. \E st \in {"failed", "dead"} : tcp' = [tcp EXCEPT ![z] = closed(z, st)]
    BY <1>13, Zenon DEF ConnectionLost
  <2> QED BY <1>2, <2>1, <2>2, Zenon
<1>14. ASSUME NEW c \in Call, NEW z \in Socket, NEW t \in Target \cup {Unspec}, Connect(c, z, t)
       PROVE  SocketMoves
  BY <1>1, <1>14, Zenon DEF Connect, kernel
<1>15. ASSUME NEW c \in Call, WorkerStart(c) \/ WorkerFinish(c) PROVE SocketMoves
  BY <1>1, <1>15, Zenon DEF WorkerStart, WorkerFinish, kernel
<1>16. ASSUME NEW r \in Reg, RelayAccept(r) \/ RelayConnected(r) PROVE SocketMoves
  BY <1>1, <1>16, Zenon DEF RelayAccept, RelayConnected, kernel
<1>17. CASE Accept \/ Tick \/ Snapshot
  BY <1>1, <1>17, Zenon DEF Accept, Tick, Snapshot, kernel
<1>18. CASE UNCHANGED vars
  BY <1>1, <1>18, Zenon DEF vars
<1> QED BY <1>8, <1>9, <1>10, <1>11, <1>12, <1>13, <1>14, <1>15, <1>16, <1>17, <1>18, ZenonT(60) DEF Next

(***************************************************************************)
(* A socket keeps reporting the port it has (tcp_bind.rs reads it back),    *)
(* and the kernel gives no other socket the same address and port.          *)
(***************************************************************************)
LEMMA NamesNext ==
    ASSUME ConnectsIInv, NamesIInv, IngressTyped, [Next]_vars
    PROVE  NamesIInv'
<1>0. SocketsIInv /\ tcp \in [Socket -> TcpSocket]
  BY Zenon DEF ConnectsIInv, SocketsIInv
<1>1. CASE UNCHANGED tcp
  BY <1>1, Zenon DEF NamesIInv, Closed
<1>2. ASSUME NEW z \in Socket, NEW e \in TcpSocket, tcp' = [tcp EXCEPT ![z] = e],
             Keeps(z, e) \/ Binds(z, e) \/ Opens(z, e) \/ Ends(z, e)
      PROVE  NamesIInv'
  <2>1. tcp'[z] = e /\ \A s \in Socket \ {z} : tcp'[s] = tcp[s]
    BY <1>0, <1>2, Zenon
  <2>2. /\ z \in Pinned \/ ~Closed(z) => tcp[z].held
        /\ tcp[z].held => tcp[z].name \in Port
        /\ ~Closed(z) => tcp[z].tgt \in Target
        /\ tcp[z].state = "syn" => tcp[z].to = "ingress"
        /\ SourcePorts(z) \subseteq Port
    BY <1>0, Ports, Zenon DEF NamesIInv
  <2>3. /\ z \in Pinned \/ ~Down(e) => e.held
        /\ e.held => e.name \in Port
        /\ ~Down(e) => e.tgt \in Target
        /\ e.state = "syn" => e.to = "ingress"
    <3>1. CASE Keeps(z, e)
      BY <2>2, <3>1, ZenonT(60) DEF Keeps, Down, Closed
    <3>2. CASE Binds(z, e)
      BY <2>2, <3>2, ZenonT(60) DEF Binds, Down
    <3>3. CASE Opens(z, e)
      BY <2>2, <3>3, ZenonT(60) DEF Opens, Down
    <3>4. CASE Ends(z, e)
      BY <2>2, <3>4, ZenonT(60) DEF Ends, Down
    <3> QED BY <1>2, <3>1, <3>2, <3>3, <3>4, Zenon
  <2>4. ASSUME NEW u \in Socket \ {z}, e.held, tcp[u].held, e.name = tcp[u].name
        PROVE  {z, u} \subseteq Pinned
    <3>1. tcp[z].held /\ tcp[z].name = tcp[u].name
      <4>1. CASE Keeps(z, e)
        BY <2>4, <4>1, Zenon DEF Keeps
      <4>2. CASE e.name \in SourcePorts(z)
        BY <2>4, <4>2, Zenon DEF SourcePorts, FreePort
      <4>3. CASE Ends(z, e)
        BY <2>2, <2>4, <4>3, Zenon DEF Ends
      <4> QED BY <1>2, <4>1, <4>2, <4>3, Zenon DEF Binds, Opens
    <3> QED BY <2>4, <3>1, Zenon DEF NamesIInv
  <2>5. ASSUME NEW s \in Socket
        PROVE  /\ s \in Pinned \/ ~Closed(s)' => tcp'[s].held
               /\ tcp'[s].held => tcp'[s].name \in Port
               /\ ~Closed(s)' => tcp'[s].tgt \in Target
               /\ tcp'[s].state = "syn" => tcp'[s].to = "ingress"
    <3>1. CASE s = z
      BY <2>1, <2>3, <3>1, Zenon DEF Closed, Down
    <3>2. CASE s # z
      BY <2>1, <3>2, Zenon DEF NamesIInv, Closed
    <3> QED BY <3>1, <3>2, Zenon
  <2>6. ASSUME NEW s \in Socket, NEW u \in Socket, tcp'[s].held, tcp'[u].held,
               tcp'[s].name = tcp'[u].name
        PROVE  s = u \/ {s, u} \subseteq Pinned
    <3>1. CASE s # z /\ u # z
      BY <2>1, <2>6, <3>1, Zenon DEF NamesIInv
    <3>2. CASE s = z /\ u # z
      BY <2>1, <2>4, <2>6, <3>2, Zenon
    <3>3. CASE s # z /\ u = z
      BY <2>1, <2>4, <2>6, <3>3, Zenon
    <3> QED BY <3>1, <3>2, <3>3, Zenon
  <2> QED BY <2>5, <2>6, Zenon DEF NamesIInv
<1> QED BY <1>1, <1>2, SocketStep, Zenon DEF SocketMoves
-------------------------------------------------------------------------------
(***************************************************************************)
(* Dropping a registration takes its entry, and no other, off its list.     *)
(***************************************************************************)
LEMMA Unregistered ==
    ASSUME IngressIInv, NEW r
    PROVE  LET w == unregister(waiting, r)
           IN  /\ w \in [Port -> Seq(Reg)]
               /\ \A p \in Port :
                     /\ IsInjective(w[p])
                     /\ \A i \in 1..Len(w[p]) :
                           /\ w[p][i] \in Reg \ {r}
                           /\ \E j \in 1..Len(waiting[p]) : w[p][i] = waiting[p][j]
<1> DEFINE w == unregister(waiting, r)
<1>1. ASSUME NEW p \in Port
      PROVE  /\ w[p] \in Seq(Reg) /\ IsInjective(w[p])
             /\ \A i \in 1..Len(w[p]) : /\ w[p][i] # r
                                        /\ \E j \in 1..Len(waiting[p]) : w[p][i] = waiting[p][j]
  <2>1. waiting[p] \in Seq(Reg) /\ IsInjective(waiting[p])
    BY Zenon DEF IngressIInv, IngressTyped, WaitersLive
  <2>2. w[p] = without(waiting[p], r)
    BY Zenon DEF unregister
  <2> HIDE DEF w
  <2> QED BY <2>1, <2>2, Removed
<1>2. w = [p \in Port |-> w[p]]
  BY Zenon DEF unregister
<1> HIDE DEF w
<1>3. w \in [Port -> Seq(Reg)]
  BY <1>1, <1>2, Zenon
<1>4. \A p \in Port : \A i \in 1..Len(w[p]) : w[p][i] \in Reg
  BY <1>1
<1> QED BY <1>1, <1>3, <1>4, ZenonT(60) DEF w

(***************************************************************************)
(* The calls as IngressIInv sees them: what each has registered.            *)
(***************************************************************************)
KeepsReg(d) == /\ call'[d].reg = call[d].reg
               /\ call[d].reg # None => /\ call'[d].sock = call[d].sock
                                        /\ call'[d].tgt = call[d].tgt

(***************************************************************************)
(* Steps that leave the registrations alone.                                *)
(***************************************************************************)
LEMMA IngressSame ==
    ASSUME IngressIInv, UNCHANGED <<reg, waiting>>, backlog' \in Seq(Stream),
           \A d \in Call : KeepsReg(d)
    PROVE  IngressIInv'
<1>1. /\ reg' \in [Reg -> Registration \cup {None}] /\ waiting' \in [Port -> Seq(Reg)]
      /\ \A p \in Port :
            /\ IsInjective(waiting'[p])
            /\ \A i \in 1..Len(waiting'[p]) :
                  reg'[waiting'[p][i]] # None /\ reg'[waiting'[p][i]].port = p
  BY ZenonT(60) DEF IngressIInv, IngressTyped, WaitersLive
<1>2. ASSUME NEW c \in Call, call'[c].reg # None
      PROVE  /\ reg'[call'[c].reg] # None /\ reg'[call'[c].reg].phase = "conn"
             /\ reg'[call'[c].reg].sock = call'[c].sock /\ reg'[call'[c].reg].tgt = call'[c].tgt
  <2>1. /\ call'[c].reg = call[c].reg /\ call'[c].sock = call[c].sock
        /\ call'[c].tgt = call[c].tgt /\ call[c].reg # None
    BY <1>2, Zenon DEF KeepsReg
  <2> QED BY <2>1, ZenonT(60) DEF IngressIInv, CallsRegistered
<1>3. \A c, d \in Call : call'[c].reg # None /\ call'[c].reg = call'[d].reg => c = d
  BY DEF IngressIInv, RegisteredOnce, KeepsReg
<1>4. \A r \in Reg : reg'[r] # None /\ reg'[r].phase = "conn" => \E c \in Call : call'[c].reg = r
  BY ZenonT(60) DEF IngressIInv, PendingOwned, KeepsReg
<1> QED BY <1>1, <1>2, <1>3, <1>4, ZenonT(60)
           DEF IngressIInv, IngressTyped, WaitersLive, CallsRegistered, RegisteredOnce, PendingOwned

(***************************************************************************)
(* A connection ends: its registrations are marked, and stay where they are.*)
(***************************************************************************)
LEMMA IngressAbandon ==
    ASSUME CallsIInv, IngressIInv, NEW s, reg' = abandon(s), UNCHANGED waiting,
           backlog' \in Seq(Stream), \A d \in Call : KeepsReg(d)
    PROVE  IngressIInv'
<1>0. IngressTyped /\ \A p \in Port : waiting[p] \in Seq(Reg)
  BY Zenon DEF IngressIInv, IngressTyped
<1>1. /\ reg' \in [Reg -> Registration \cup {None}] /\ waiting' \in [Port -> Seq(Reg)]
      /\ \A r \in Reg : /\ reg'[r] = None <=> reg[r] = None
                        /\ reg[r] # None =>
                              /\ reg'[r].sock = reg[r].sock /\ reg'[r].port = reg[r].port
                              /\ reg'[r].tgt = reg[r].tgt /\ reg'[r].phase = reg[r].phase
  <2>1. waiting' \in [Port -> Seq(Reg)]
    BY <1>0, Zenon DEF IngressTyped
  <2> QED BY <1>0, <2>1, Abandoned, Zenon
<1>2. \A p \in Port : \A i \in 1..Len(waiting[p]) : waiting[p][i] \in Reg
  BY <1>0
<1>3. \A p \in Port :
          /\ IsInjective(waiting'[p])
          /\ \A i \in 1..Len(waiting'[p]) :
                reg'[waiting'[p][i]] # None /\ reg'[waiting'[p][i]].port = p
  BY <1>1, <1>2, ZenonT(60) DEF IngressIInv, WaitersLive
<1>4. ASSUME NEW c \in Call, call'[c].reg # None
      PROVE  /\ reg'[call'[c].reg] # None /\ reg'[call'[c].reg].phase = "conn"
             /\ reg'[call'[c].reg].sock = call'[c].sock /\ reg'[call'[c].reg].tgt = call'[c].tgt
  <2>1. /\ call'[c].reg = call[c].reg /\ call'[c].sock = call[c].sock
        /\ call'[c].tgt = call[c].tgt /\ call[c].reg # None
    BY <1>4, Zenon DEF KeepsReg
  <2>2. call[c].reg \in Reg
    BY <2>1, Zenon DEF CallsIInv
  <2> QED BY <1>1, <2>1, <2>2, ZenonT(60) DEF IngressIInv, CallsRegistered
<1>5. \A c, d \in Call : call'[c].reg # None /\ call'[c].reg = call'[d].reg => c = d
  BY DEF IngressIInv, RegisteredOnce, KeepsReg
<1>6. \A r \in Reg : reg'[r] # None /\ reg'[r].phase = "conn" => \E c \in Call : call'[c].reg = r
  BY <1>1, ZenonT(60) DEF IngressIInv, PendingOwned, KeepsReg
<1> QED BY <1>1, <1>3, <1>4, <1>5, <1>6, ZenonT(60)
           DEF IngressIInv, IngressTyped, WaitersLive, CallsRegistered, RegisteredOnce, PendingOwned

(***************************************************************************)
(* A registration is dropped, by its call or by its relay task.             *)
(***************************************************************************)
LEMMA IngressDrop ==
    ASSUME IngressIInv, NEW r \in Reg, UNCHANGED backlog,
           reg' = [reg EXCEPT ![r] = None], waiting' = unregister(waiting, r),
           \A d \in Call : IF call[d].reg = r THEN call'[d].reg = None ELSE KeepsReg(d)
    PROVE  IngressIInv'
<1>1. /\ reg' \in [Reg -> Registration \cup {None}] /\ reg'[r] = None
      /\ \A q \in Reg \ {r} : reg'[q] = reg[q]
  BY ZenonT(60) DEF IngressIInv, IngressTyped
<1>2. /\ waiting' \in [Port -> Seq(Reg)]
      /\ \A p \in Port :
            /\ IsInjective(waiting'[p])
            /\ \A i \in 1..Len(waiting'[p]) :
                  /\ waiting'[p][i] \in Reg \ {r}
                  /\ \E j \in 1..Len(waiting[p]) : waiting'[p][i] = waiting[p][j]
  BY Unregistered
<1>3. \A p \in Port : \A i \in 1..Len(waiting'[p]) :
          reg'[waiting'[p][i]] # None /\ reg'[waiting'[p][i]].port = p
  BY <1>1, <1>2 DEF IngressIInv, WaitersLive
<1>4. None \notin Reg
  BY IngressAssumption, Zenon
<1>5. ASSUME NEW c \in Call, call'[c].reg # None
      PROVE  /\ call'[c].reg = call[c].reg /\ call[c].reg # r /\ reg'[call[c].reg] = reg[call[c].reg]
             /\ call'[c].sock = call[c].sock /\ call'[c].tgt = call[c].tgt
             /\ reg[call[c].reg] # None
  <2>1. call'[c].reg = call[c].reg /\ call[c].reg # r
    BY <1>5, Zenon DEF KeepsReg
  <2>2. reg[call[c].reg] # None /\ call'[c].sock = call[c].sock /\ call'[c].tgt = call[c].tgt
    BY <1>5, <2>1, ZenonT(60) DEF KeepsReg, IngressIInv, CallsRegistered
  <2>3. reg'[call[c].reg] = reg[call[c].reg]
    BY <2>1 DEF IngressIInv, IngressTyped
  <2> QED BY <2>1, <2>2, <2>3, ZenonT(60)
<1>6. \A c \in Call : call'[c].reg # None =>
          /\ reg'[call'[c].reg] # None /\ reg'[call'[c].reg].phase = "conn"
          /\ reg'[call'[c].reg].sock = call'[c].sock /\ reg'[call'[c].reg].tgt = call'[c].tgt
  BY <1>5 DEF IngressIInv, CallsRegistered
<1>7. \A c, d \in Call : call'[c].reg # None /\ call'[c].reg = call'[d].reg => c = d
  BY <1>5, SMTT(60) DEF IngressIInv, RegisteredOnce
<1>8. ASSUME NEW q \in Reg, reg'[q] # None, reg'[q].phase = "conn"
      PROVE  \E c \in Call : call'[c].reg = q
  <2>1. q # r /\ \E c \in Call : call[c].reg = q
    BY <1>1, <1>8, Zenon DEF IngressIInv, PendingOwned
  <2> QED BY <2>1, Zenon DEF KeepsReg
<1> QED BY <1>1, <1>2, <1>3, <1>6, <1>7, <1>8, ZenonT(60)
           DEF IngressIInv, IngressTyped, WaitersLive, CallsRegistered, RegisteredOnce, PendingOwned

(***************************************************************************)
(* A registration changes hands or gets its stream.                         *)
(***************************************************************************)
LEMMA IngressUpdate ==
    ASSUME IngressIInv, NEW r \in Reg, reg[r] # None, NEW e \in Registration,
           e.sock = reg[r].sock, e.port = reg[r].port, e.tgt = reg[r].tgt,
           e.phase = "conn" => reg[r].phase = "conn",
           reg' = [reg EXCEPT ![r] = e], backlog' \in Seq(Stream),
           waiting' = waiting \/ waiting' = unregister(waiting, r),
           \A d \in Call : IF call[d].reg = r /\ e.phase # "conn" THEN call'[d].reg = None
                           ELSE KeepsReg(d)
    PROVE  IngressIInv'
<1>1. /\ reg' \in [Reg -> Registration \cup {None}] /\ reg'[r] = e
      /\ \A q \in Reg \ {r} : reg'[q] = reg[q]
  BY ZenonT(60) DEF IngressIInv, IngressTyped
<1>2. e # None /\ None \notin Reg
  BY IngressAssumption, Zenon
<1>3. /\ waiting' \in [Port -> Seq(Reg)]
      /\ \A p \in Port :
            /\ IsInjective(waiting'[p])
            /\ \A i \in 1..Len(waiting'[p]) :
                  /\ waiting'[p][i] \in Reg
                  /\ \E j \in 1..Len(waiting[p]) : waiting'[p][i] = waiting[p][j]
  <2>1. CASE waiting' = waiting
    BY <2>1 DEF IngressIInv, IngressTyped, WaitersLive
  <2>2. CASE waiting' = unregister(waiting, r)
    BY <2>2, Unregistered
  <2> QED BY <2>1, <2>2, Zenon
<1>4. ASSUME NEW p \in Port, NEW i \in 1..Len(waiting'[p])
      PROVE  reg'[waiting'[p][i]] # None /\ reg'[waiting'[p][i]].port = p
  <2>1. PICK j \in 1..Len(waiting[p]) : waiting'[p][i] = waiting[p][j]
    BY <1>3, ZenonT(60)
  <2>2. reg[waiting[p][j]] # None /\ reg[waiting[p][j]].port = p /\ waiting[p][j] \in Reg
    BY <1>3, <2>1, ZenonT(60) DEF IngressIInv, IngressTyped, WaitersLive
  <2> QED BY <1>1, <1>2, <2>1, <2>2, ZenonT(60)
<1>5. ASSUME NEW c \in Call, call'[c].reg # None
      PROVE  /\ call[c].reg = r => e.phase = "conn"
             /\ call'[c].sock = call[c].sock /\ call'[c].tgt = call[c].tgt
             /\ reg[call[c].reg] # None /\ reg[call[c].reg].phase = "conn"
             /\ reg[call[c].reg].sock = call[c].sock /\ reg[call[c].reg].tgt = call[c].tgt
  <2>1. KeepsReg(c) /\ (call[c].reg = r => e.phase = "conn")
    BY <1>5, ZenonT(60)
  <2>2. call[c].reg # None
    BY <1>5, <2>1, Zenon DEF KeepsReg
  <2> QED BY <2>1, <2>2, ZenonT(60) DEF KeepsReg, IngressIInv, CallsRegistered
<1>6. ASSUME NEW c \in Call, call'[c].reg # None
      PROVE  /\ reg'[call'[c].reg] # None /\ reg'[call'[c].reg].phase = "conn"
             /\ reg'[call'[c].reg].sock = call'[c].sock /\ reg'[call'[c].reg].tgt = call'[c].tgt
  <2>1. KeepsReg(c)
    BY <1>6, Zenon
  <2>2. CASE call[c].reg = r
    BY <1>1, <1>2, <1>5, <1>6, <2>1, <2>2, ZenonT(60) DEF KeepsReg
  <2>3. CASE call[c].reg # r
    <3>1. reg'[call[c].reg] = reg[call[c].reg]
      BY <2>3 DEF IngressIInv, IngressTyped
    <3> QED BY <1>5, <1>6, <2>1, <3>1, ZenonT(60) DEF KeepsReg
  <2> QED BY <2>2, <2>3, ZenonT(60)
<1>7. \A c, d \in Call : call'[c].reg # None /\ call'[c].reg = call'[d].reg => c = d
  <2>1. \A c \in Call : call'[c].reg # None => call'[c].reg = call[c].reg
    BY Zenon DEF KeepsReg
  <2> QED BY <2>1, Zenon DEF IngressIInv, RegisteredOnce
<1>8. ASSUME NEW q \in Reg, reg'[q] # None, reg'[q].phase = "conn"
      PROVE  \E c \in Call : call'[c].reg = q
  <2>1. reg[q] # None /\ reg[q].phase = "conn" /\ (q = r => e.phase = "conn")
    BY <1>1, <1>8, Zenon
  <2>2. PICK c \in Call : call[c].reg = q
    BY <2>1, Zenon DEF IngressIInv, PendingOwned
  <2> QED BY <2>1, <2>2, Zenon DEF KeepsReg
<1> QED BY <1>1, <1>3, <1>4, <1>6, <1>7, <1>8, ZenonT(60)
           DEF IngressIInv, IngressTyped, WaitersLive, CallsRegistered, RegisteredOnce, PendingOwned

(***************************************************************************)
(* Ingress::register adds a registration of its own at the end of the list  *)
(* of its port (tcp_ingress.rs:36-77).                                      *)
(***************************************************************************)
LEMMA IngressNew ==
    ASSUME IngressIInv, NEW c \in Call, NEW r \in Reg, reg[r] = None, call[c].reg = None,
           NEW p \in Port, NEW e \in Registration, e.port = p, e.phase = "conn",
           e.sock = call'[c].sock, e.tgt = call'[c].tgt, call'[c].reg = r,
           reg' = [reg EXCEPT ![r] = e], waiting' = [waiting EXCEPT ![p] = Append(@, r)],
           UNCHANGED backlog, \A d \in Call \ {c} : KeepsReg(d)
    PROVE  IngressIInv'
<1>1. /\ reg' \in [Reg -> Registration \cup {None}] /\ reg'[r] = e
      /\ \A q \in Reg \ {r} : reg'[q] = reg[q]
  BY ZenonT(60) DEF IngressIInv, IngressTyped
<1>2. e # None /\ None \notin Reg
  BY IngressAssumption, Zenon
<1>3. /\ waiting[p] \in Seq(Reg) /\ waiting'[p] = Append(waiting[p], r)
      /\ \A o \in Port \ {p} : waiting'[o] = waiting[o]
      /\ waiting' \in [Port -> Seq(Reg)]
  BY DEF IngressIInv, IngressTyped
<1>4. \A o \in Port : \A i \in 1..Len(waiting[o]) : waiting[o][i] \in Reg \ {r}
  BY DEF IngressIInv, IngressTyped, WaitersLive
<1>5. /\ Len(waiting'[p]) = Len(waiting[p]) + 1 /\ waiting'[p][Len(waiting[p]) + 1] = r
      /\ \A i \in 1..Len(waiting[p]) : waiting'[p][i] = waiting[p][i]
      /\ Len(waiting[p]) \in Nat
  BY <1>3
<1>6. ASSUME NEW o \in Port
      PROVE  /\ IsInjective(waiting'[o])
             /\ \A i \in 1..Len(waiting'[o]) :
                   reg'[waiting'[o][i]] # None /\ reg'[waiting'[o][i]].port = o
  <2>1. CASE o # p
    BY <1>1, <1>3, <1>4, <2>1 DEF IngressIInv, WaitersLive
  <2>2. CASE o = p
    <3> DEFINE n == Len(waiting[p])
    <3>1. /\ DOMAIN waiting'[p] = 1..(n + 1) /\ DOMAIN waiting[p] = 1..n /\ n \in Nat
      BY <1>3, <1>5
    <3>2. \A i \in 1..(n + 1) : waiting'[p][i] = IF i = n + 1 THEN r ELSE waiting[p][i]
      BY <1>5, <3>1
    <3>3. \A i, j \in 1..n : waiting[p][i] = waiting[p][j] => i = j
      <4>1. IsInjective(waiting[p])
        BY ZenonT(60) DEF IngressIInv, WaitersLive
      <4> QED BY <3>1, <4>1, Zenon DEF IsInjective
    <3> HIDE DEF n
    <3>4. \A i \in 1..n : waiting[p][i] # r
      BY <1>4, ZenonT(60) DEF n
    <3>5. IsInjective(waiting'[p])
      BY <3>1, <3>2, <3>3, <3>4 DEF IsInjective
    <3>6. ASSUME NEW i \in 1..(n + 1)
          PROVE  reg'[waiting'[p][i]] # None /\ reg'[waiting'[p][i]].port = p
      <4>1. CASE i = n + 1
        BY <1>1, <1>2, <3>1, <3>2, <4>1, ZenonT(60)
      <4>2. CASE i # n + 1
        <5>1. i \in 1..n /\ waiting'[p][i] = waiting[p][i]
          BY <3>1, <3>2, <4>2
        <5>2. reg[waiting[p][i]] # None /\ reg[waiting[p][i]].port = p /\ waiting[p][i] \in Reg \ {r}
          BY <1>4, <5>1 DEF IngressIInv, WaitersLive, n
        <5> QED BY <1>1, <5>1, <5>2, ZenonT(60)
      <4> QED BY <4>1, <4>2, ZenonT(60)
    <3> QED BY <1>5, <2>2, <3>5, <3>6, ZenonT(60) DEF n
  <2> QED BY <2>1, <2>2, Zenon
<1>7. ASSUME NEW d \in Call \ {c}, call'[d].reg # None
      PROVE  /\ call'[d].reg # r /\ reg'[call'[d].reg] = reg[call[d].reg]
             /\ call'[d].sock = call[d].sock /\ call'[d].tgt = call[d].tgt
             /\ call'[d].reg = call[d].reg
  <2>1. KeepsReg(d) /\ call[d].reg # None
    BY <1>7, Zenon DEF KeepsReg
  <2>2. call[d].reg # r
    BY <2>1, Zenon DEF IngressIInv, CallsRegistered
  <2>3. reg'[call[d].reg] = reg[call[d].reg]
    BY <2>2 DEF IngressIInv, IngressTyped
  <2> QED BY <2>1, <2>2, <2>3, Zenon DEF KeepsReg
<1>8. ASSUME NEW d \in Call, call'[d].reg # None
      PROVE  /\ reg'[call'[d].reg] # None /\ reg'[call'[d].reg].phase = "conn"
             /\ reg'[call'[d].reg].sock = call'[d].sock /\ reg'[call'[d].reg].tgt = call'[d].tgt
  <2>1. CASE d = c
    BY <1>1, <1>2, <2>1, ZenonT(60)
  <2>2. CASE d # c
    BY <1>7, <1>8, <2>2, SMTT(60) DEF IngressIInv, CallsRegistered
  <2> QED BY <2>1, <2>2, ZenonT(60)
<1>9. \A a, b \in Call : call'[a].reg # None /\ call'[a].reg = call'[b].reg => a = b
  <2>1. \A a \in Call \ {c} : call'[a].reg # None => call'[a].reg = call[a].reg /\ call'[a].reg # r
    BY <1>7, Zenon
  <2> QED BY <1>2, <2>1, SMTT(60) DEF IngressIInv, RegisteredOnce
<1>10. ASSUME NEW q \in Reg, reg'[q] # None, reg'[q].phase = "conn"
       PROVE  \E d \in Call : call'[d].reg = q
  <2>1. CASE q # r
    <3>1. PICK d \in Call : call[d].reg = q
      BY <1>1, <1>10, <2>1, ZenonT(60) DEF IngressIInv, PendingOwned
    <3> QED BY <1>2, <3>1, Zenon DEF KeepsReg
  <2> QED BY <2>1, Zenon
<1> QED BY <1>1, <1>3, <1>6, <1>8, <1>9, <1>10, ZenonT(60)
           DEF IngressIInv, IngressTyped, WaitersLive, CallsRegistered, RegisteredOnce, PendingOwned

(***************************************************************************)
(* What the accept loop does with the stream at the head of the queue: it   *)
(* gives it to a registration that it matches, or drops it.                 *)
(***************************************************************************)
LEMMA Delivered ==
    ASSUME IngressIInv, Accept
    PROVE  /\ Head(backlog) \in Stream /\ backlog' = Tail(backlog) /\ backlog' \in Seq(Stream)
           /\ \/ reg' = reg
              \/ \E r \in Reg :
                    /\ reg[r] # None /\ Matches(r, Head(backlog))
                    /\ reg' = [reg EXCEPT ![r] = [reg[r] EXCEPT !.sender = FALSE,
                                                                !.stream = Head(backlog)]]
<1> DEFINE st == Head(backlog)
           w  == waiting[st.port]
           I  == {i \in 1..Len(w) : Matches(w[i], st)}
<1>1. st \in Stream /\ backlog' = Tail(backlog) /\ backlog' \in Seq(Stream)
  BY DEF Accept, IngressIInv, IngressTyped
<1>2. w \in Seq(Reg) /\ \A i \in 1..Len(w) : reg[w[i]] # None /\ w[i] \in Reg
  BY <1>1 DEF Stream, IngressIInv, IngressTyped, WaitersLive
<1>3. CASE UNCHANGED reg
  BY <1>1, <1>3, Zenon
<1>4. CASE \E k \in I : reg' = [reg EXCEPT ![w[k]] = [@ EXCEPT !.sender = FALSE, !.stream = st]]
  <2>1. PICK k \in I : reg' = [reg EXCEPT ![w[k]] = [@ EXCEPT !.sender = FALSE, !.stream = st]]
    BY <1>4, Zenon
  <2>2. w[k] \in Reg /\ reg[w[k]] # None /\ Matches(w[k], st)
    BY <1>2, Zenon
  <2>3. reg' = [reg EXCEPT ![w[k]] = [reg[w[k]] EXCEPT !.sender = FALSE, !.stream = st]]
    BY <2>1, <2>2, Zenon DEF IngressIInv, IngressTyped
  <2> QED BY <1>1, <2>2, <2>3, Zenon
<1>5. deliver(st)
  BY Zenon DEF Accept
<1> QED BY <1>3, <1>4, <1>5, Zenon DEF deliver

(***************************************************************************)
(* connect_tcp gives back what it registered, and only that.                *)
(***************************************************************************)
LEMMA IngressFail ==
    ASSUME ConnectsIInv, IngressIInv, NEW c \in Call, Fail(c), UNCHANGED backlog
    PROVE  IngressIInv'
<1> DEFINE r == call[c].reg
<1>1. /\ \A d \in Call \ {c} : KeepsReg(d)
      /\ call'[c].reg = None
  BY Zenon DEF Fail, ConnectsIInv, CallsIInv, NoCall, KeepsReg
<1>2. CASE r = None
  <2>1. KeepsReg(c) /\ UNCHANGED <<reg, waiting>> /\ backlog' \in Seq(Stream)
    BY <1>1, <1>2, ZenonT(60) DEF KeepsReg, Fail, IngressIInv, IngressTyped
  <2> QED BY <1>1, <2>1, IngressSame, Zenon
<1>3. CASE r # None
  <2>1. r \in Reg /\ reg' = [reg EXCEPT ![r] = None] /\ waiting' = unregister(waiting, r)
    BY <1>3, Zenon DEF Fail, ConnectsIInv, CallsIInv
  <2>2. \A d \in Call \ {c} : call[d].reg # r
    BY <1>3, ZenonT(60) DEF IngressIInv, RegisteredOnce
  <2> QED BY <1>1, <2>1, <2>2, IngressDrop, ZenonT(60)
<1> QED BY <1>2, <1>3, Zenon

(***************************************************************************)
(* Each step of a call's task.                                              *)
(***************************************************************************)
LEMMA IngressTask ==
    ASSUME ConnectsIInv, NamesIInv, IngressIInv, NEW c \in Call, Task(c)
    PROVE  IngressIInv'
<1> DEFINE s == call[c].sock
<1>0. CallsIInv /\ Holds(c) /\ SocketsIInv
  BY Zenon DEF ConnectsIInv, HoldsIInv
<1>1. ASSUME UNCHANGED <<call, reg, waiting, backlog>> PROVE IngressIInv'
  BY <1>1, ZenonT(60)
     DEF IngressIInv, IngressTyped, WaitersLive, CallsRegistered, RegisteredOnce, PendingOwned
<1>2. ASSUME call[c].reg = None, call' = [call EXCEPT ![c] = NoCall],
             UNCHANGED <<reg, waiting, backlog>>
      PROVE  IngressIInv'
  <2>1. \A d \in Call : KeepsReg(d)
    BY <1>0, <1>2, Zenon DEF CallsIInv, NoCall, KeepsReg
  <2> QED BY <1>2, <2>1, IngressSame, ZenonT(60) DEF IngressIInv, IngressTyped
<1>3. ASSUME NEW l, Return(c, l), call[c].reg = None, UNCHANGED <<reg, waiting, backlog>>
      PROVE  IngressIInv'
  <2>1. call' = [call EXCEPT ![c] = NoCall] \/ call' = call
    BY <1>0, <1>3, ZenonT(60) DEF Return, CallsIInv
  <2> QED BY <1>1, <1>2, <1>3, <2>1, Zenon
<1>4. CASE Dispatch(c)
  <2>1. call[c].reg = None
    BY <1>0, <1>4, ZenonT(60) DEF Dispatch, Holds
  <2> QED BY <1>1, <1>2, <1>4, <2>1, Zenon DEF Dispatch, Goto, ingress, kernel
<1>5. CASE Acquire(c)
  BY <1>1, <1>5, Zenon DEF Acquire, ingress, kernel
<1>6. CASE ReadState(c)
  <2>1. call[c].reg = None
    BY <1>0, <1>6, ZenonT(60) DEF ReadState, Holds
  <2> QED BY <1>1, <1>3, <1>6, <2>1, ZenonT(60) DEF ReadState, Goto, ingress, kernel
<1>7. CASE Route(c)
  <2>1. call[c].reg = None
    BY <1>0, <1>7, ZenonT(60) DEF Route, Holds
  <2> QED BY <1>1, <1>3, <1>7, <2>1, Zenon DEF Route, Goto, kernel
<1>8. CASE InsertPeer(c)
  BY <1>1, <1>8, IngressFail, Zenon DEF InsertPeer, Goto, ingress, kernel
<1>9. CASE Register(c) /\ ~Fail(c)
  <2>1. pc[c] = "register" /\ s \in Socket /\ call[c].reg = None /\ call[c].tgt \in Target
    BY <1>0, <1>9, Zenon DEF Register, CallsIInv, Holds, Unlocked
  <2> DEFINE new(p) == [sock |-> s, port |-> p, tgt |-> call[c].tgt, phase |-> "conn",
                        sender |-> TRUE, stream |-> None, lost |-> FALSE]
  <2>2. PICK p \in prepare(s), r \in {q \in Reg : reg[q] = None} :
            /\ call' = [call EXCEPT ![c].reg = r] /\ reg' = [reg EXCEPT ![r] = new(p)]
            /\ waiting' = [waiting EXCEPT ![p] = Append(@, r)]
    BY <1>9, Zenon DEF Register
  <2>3. p \in Port /\ r \in Reg /\ reg[r] = None /\ UNCHANGED backlog
    BY <1>0, <1>9, <2>1, Ports, Zenon DEF Register
  <2>4. /\ call'[c].reg = r /\ call'[c].sock = s /\ call'[c].tgt = call[c].tgt
        /\ \A d \in Call \ {c} : KeepsReg(d)
    BY <1>0, <2>2, Zenon DEF CallsIInv, KeepsReg
  <2> DEFINE e == new(p)
  <2>5. /\ e \in Registration /\ e.port = p /\ e.phase = "conn" /\ e.sock = s
        /\ e.tgt = call[c].tgt
    BY <2>1, <2>3, Zenon DEF Registration
  <2>6. reg' = [reg EXCEPT ![r] = e]
    BY <2>2, Zenon
  <2>7. waiting' = [waiting EXCEPT ![p] = Append(@, r)]
    BY <2>2, Zenon
  <2>8. e.sock = call'[c].sock /\ e.tgt = call'[c].tgt
    BY <2>4, <2>5, ZenonT(60)
  <2> HIDE DEF e
  <2> QED BY <2>1, <2>3, <2>4, <2>5, <2>6, <2>7, <2>8, IngressNew, Zenon
<1>10. CASE Run(c)
  BY <1>1, <1>10, IngressFail, Zenon DEF Run, ingress, kernel
<1>11. CASE WaitDone(c)
  BY <1>1, <1>3, <1>11, IngressFail, Zenon DEF WaitDone, Goto, ingress, kernel
<1>12. CASE WaitCancel(c)
  BY <1>1, <1>12, Zenon DEF WaitCancel, ingress, kernel
<1>13. CASE CancelShutdown(c)
  <2>1. UNCHANGED <<call, waiting, backlog>> /\ (reg' = reg \/ reg' = abandon(s))
    BY <1>13, Zenon DEF CancelShutdown, shutdown
  <2>2. backlog' \in Seq(Stream) /\ \A d \in Call : KeepsReg(d)
    BY <2>1, Zenon DEF KeepsReg, IngressIInv, IngressTyped
  <2> QED BY <1>0, <1>1, <2>1, <2>2, IngressAbandon, Zenon
<1>14. CASE CancelDone(c)
  BY <1>14, IngressFail, Zenon DEF CancelDone, kernel
<1>15. CASE Commit(c)
  <2> DEFINE r == call[c].reg
             t == reg[r]
             e == [t EXCEPT !.phase = "accept"]
  <2>1. r \in Reg /\ t # None /\ t \in Registration
    BY <1>0, <1>15, Zenon DEF Commit, CallsIInv, Holds, IngressIInv, IngressTyped, CallsRegistered
  <2>2. reg' = [reg EXCEPT ![r] = e] /\ UNCHANGED <<waiting, backlog>>
    BY <1>15, <2>1, Zenon DEF Commit, IngressIInv, IngressTyped
  <2>3. call'[c].reg = None /\ \A d \in Call \ {c} : KeepsReg(d) /\ call[d].reg # r
    <3>1. call'[c].reg = None /\ \A d \in Call \ {c} : KeepsReg(d)
      BY <1>0, <1>15, Zenon DEF Commit, CallsIInv, NoCall, KeepsReg
    <3>2. \A d \in Call \ {c} : call[d].reg # r
      BY <2>1, IngressAssumption, Zenon DEF IngressIInv, RegisteredOnce
    <3> QED BY <3>1, <3>2, Zenon
  <2>4. DOMAIN t = {"sock", "port", "tgt", "phase", "sender", "stream", "lost"}
    BY <2>1, Zenon DEF Registration
  <2> HIDE DEF t
  <2>5. /\ e \in Registration /\ e.sock = t.sock /\ e.port = t.port /\ e.tgt = t.tgt
        /\ e.phase = "accept"
    BY <2>1, <2>4, Zenon DEF Registration
  <2>6. backlog' \in Seq(Stream)
    BY <2>2, Zenon DEF IngressIInv, IngressTyped
  <2> HIDE DEF e
  <2> QED BY <2>1, <2>2, <2>3, <2>5, <2>6, IngressUpdate, ZenonT(60) DEF t
<1>16. CASE Register(c) /\ Fail(c)
  BY <1>16, IngressFail, Zenon DEF Register
<1> QED BY <1>4, <1>5, <1>6, <1>7, <1>8, <1>9, <1>10, <1>11, <1>12, <1>13, <1>14, <1>15, <1>16, ZenonT(60)
        DEF Task

(***************************************************************************)
(* What the relay tasks do with a registration that is theirs.              *)
(***************************************************************************)
LEMMA IngressRelay ==
    ASSUME IngressIInv, NEW r \in Reg, RelayAccept(r) \/ RelayConnected(r)
    PROVE  IngressIInv'
<1> DEFINE t == reg[r]
<1>1. /\ t # None /\ t.phase # "conn" /\ UNCHANGED <<call, backlog>>
      /\ waiting' = unregister(waiting, r)
  BY Zenon DEF RelayAccept, RelayConnected, kernel
<1>2. t \in Registration /\ \A d \in Call : call[d].reg # r
  BY <1>1, IngressAssumption, Zenon DEF IngressIInv, IngressTyped, CallsRegistered
<1>3. \A d \in Call : KeepsReg(d)
  BY <1>1, Zenon DEF KeepsReg
<1>4. CASE reg' = [reg EXCEPT ![r] = None]
  BY <1>1, <1>2, <1>3, <1>4, IngressDrop, Zenon
<1>5. CASE RelayAccept(r) /\ reg' = [reg EXCEPT ![r].phase = "upstream"]
  <2> DEFINE e == [t EXCEPT !.phase = "upstream"]
  <2>1. reg' = [reg EXCEPT ![r] = e]
    BY <1>5, Zenon DEF IngressIInv, IngressTyped
  <2>2. DOMAIN t = {"sock", "port", "tgt", "phase", "sender", "stream", "lost"}
    BY <1>2, Zenon DEF Registration
  <2>3. backlog' \in Seq(Stream)
    BY <1>1, ZenonT(60) DEF IngressIInv, IngressTyped
  <2> HIDE DEF t
  <2>4. /\ e \in Registration /\ e.sock = t.sock /\ e.port = t.port /\ e.tgt = t.tgt
        /\ e.phase = "upstream"
    BY <1>2, <2>2, Zenon DEF Registration
  <2> HIDE DEF e
  <2> QED BY <1>1, <1>2, <1>3, <2>1, <2>3, <2>4, IngressUpdate, ZenonT(60) DEF t
<1> QED BY <1>4, <1>5, Zenon DEF RelayAccept, RelayConnected

(***************************************************************************)
(* Each step of the program and of the kernel.                              *)
(***************************************************************************)
LEMMA IngressNext ==
    ASSUME ConnectsIInv, NamesIInv, IngressIInv, [Next]_vars
    PROVE  IngressIInv'
<1>0. CallsIInv /\ SocketsIInv /\ HoldsIInv
  BY Zenon DEF ConnectsIInv
<1>1. ASSUME UNCHANGED <<call, reg, waiting, backlog>> PROVE IngressIInv'
  BY <1>1, ZenonT(60)
     DEF IngressIInv, IngressTyped, WaitersLive, CallsRegistered, RegisteredOnce, PendingOwned
<1>2. ASSUME NEW c \in Call, pc[c] \in {"idle", "native"}, call'[c].reg = None,
             \A d \in Call \ {c} : call'[d] = call[d], UNCHANGED <<reg, waiting, backlog>>
      PROVE  IngressIInv'
  <2>1. call[c].reg = None
    BY <1>0, <1>2, ZenonT(60) DEF HoldsIInv, Holds
  <2>2. \A d \in Call : KeepsReg(d)
    BY <1>0, <1>2, <2>1, ZenonT(60) DEF CallsIInv, KeepsReg
  <2> QED BY <1>2, <2>2, IngressSame, ZenonT(60) DEF IngressIInv, IngressTyped
<1>3. ASSUME NEW c \in Call, NEW s \in Socket, NEW t \in Target \cup {Unspec}, Connect(c, s, t)
      PROVE  IngressIInv'
  <2>1. /\ pc[c] = "idle" /\ call'[c].reg = None /\ \A d \in Call \ {c} : call'[d] = call[d]
        /\ UNCHANGED <<reg, waiting, backlog>>
    BY <1>0, <1>3, Zenon DEF Connect, CallsIInv, ingress, kernel
  <2> QED BY <1>2, <2>1, Zenon
<1>4. ASSUME NEW c \in Call, NativeCall(c) PROVE IngressIInv'
  <2>1. /\ pc[c] = "native" /\ call'[c].reg = None /\ \A d \in Call \ {c} : call'[d] = call[d]
        /\ UNCHANGED waiting
    BY <1>0, <1>4, Zenon DEF NativeCall, CallsIInv, NoCall
  <2>2. /\ reg' = reg \/ reg' = abandon(call[c].sock)
        /\ backlog' = backlog \/ backlog' = reset(call[c].sock)
    BY <1>4, Zenon DEF NativeCall
  <2>3. backlog' \in Seq(Stream)
    BY <2>2, Resets, Zenon DEF IngressIInv, IngressTyped
  <2>4. call[c].reg = None
    BY <1>0, <2>1, ZenonT(60) DEF HoldsIInv, Holds
  <2>5. \A d \in Call : KeepsReg(d)
    BY <1>0, <2>1, <2>4, ZenonT(60) DEF CallsIInv, KeepsReg
  <2> QED BY <1>0, <2>1, <2>2, <2>3, <2>5, IngressSame, IngressAbandon, Zenon
<1>5. ASSUME NEW c \in Call,
             WorkerStart(c) \/ WorkerEnter(c) \/ WorkerReturn(c) \/ WorkerFinish(c)
      PROVE  IngressIInv'
  BY <1>1, <1>5, ZenonT(60) DEF WorkerStart, WorkerEnter, WorkerReturn, WorkerFinish, ingress, kernel
<1>6. ASSUME NEW s \in Socket, Handshake(s) PROVE IngressIInv'
  <2> DEFINE st == [sock |-> s, port |-> tcp[s].name, tgt |-> tcp[s].tgt, open |-> TRUE]
  <2>1. tcp[s].name \in Port /\ tcp[s].tgt \in Target
    BY <1>6, Zenon DEF Handshake, NamesIInv, Closed
  <2>2. st \in Stream /\ backlog' = Append(backlog, st) /\ UNCHANGED <<call, reg, waiting>>
    BY <1>6, <2>1, Zenon DEF Handshake, Stream, ingress
  <2> HIDE DEF st
  <2>3. backlog' \in Seq(Stream)
    BY <2>2 DEF IngressIInv, IngressTyped
  <2>4. \A d \in Call : KeepsReg(d)
    BY <2>2, Zenon DEF KeepsReg
  <2> QED BY <2>2, <2>3, <2>4, IngressSame, Zenon
<1>7. ASSUME NEW s \in Socket, ConnectionLost(s) PROVE IngressIInv'
  <2>1. UNCHANGED <<call, waiting, backlog>> /\ reg' = abandon(s)
    BY <1>7, Zenon DEF ConnectionLost
  <2>2. backlog' \in Seq(Stream) /\ \A d \in Call : KeepsReg(d)
    BY <2>1, Zenon DEF KeepsReg, IngressIInv, IngressTyped
  <2> QED BY <1>0, <2>1, <2>2, IngressAbandon, Zenon
<1>8. CASE Accept
  <2> DEFINE st == Head(backlog)
  <2>1. st \in Stream /\ backlog' \in Seq(Stream) /\ UNCHANGED <<call, waiting>>
    BY <1>8, Delivered, ZenonT(60) DEF Accept
  <2>2. \A d \in Call : KeepsReg(d)
    BY <2>1, Zenon DEF KeepsReg
  <2>3. CASE reg' = reg
    BY <2>1, <2>2, <2>3, IngressSame, Zenon
  <2>4. ASSUME NEW r \in Reg, reg[r] # None,
               reg' = [reg EXCEPT ![r] = [reg[r] EXCEPT !.sender = FALSE, !.stream = st]]
        PROVE  IngressIInv'
    <3> DEFINE t == reg[r]
               e == [t EXCEPT !.sender = FALSE, !.stream = st]
    <3>1. t \in Registration /\ DOMAIN t = {"sock", "port", "tgt", "phase", "sender", "stream", "lost"}
      BY <2>4, Zenon DEF IngressIInv, IngressTyped, Registration
    <3>2. reg' = [reg EXCEPT ![r] = e]
      BY <2>4, Zenon
    <3> HIDE DEF t, st
    <3>3. /\ e \in Registration /\ e.sock = t.sock /\ e.port = t.port /\ e.tgt = t.tgt
          /\ e.phase = t.phase
      BY <2>1, <3>1, ZenonT(60) DEF Registration
    <3> HIDE DEF e
    <3>4. t.phase # "conn" => \A d \in Call : call[d].reg # r
      BY IngressAssumption, Zenon DEF IngressIInv, CallsRegistered, t
    <3>5. \A d \in Call : ~(call[d].reg = r /\ e.phase # "conn")
      BY <3>3, <3>4, Zenon
    <3>6. t # None /\ t = reg[r]
      BY <2>4, Zenon DEF t
    <3>7. \A d \in Call : IF call[d].reg = r /\ e.phase # "conn" THEN call'[d].reg = None
                           ELSE KeepsReg(d)
      BY <2>2, <3>5, Zenon
    <3> QED BY <2>1, <3>2, <3>3, <3>6, <3>7, IngressUpdate, Zenon
  <2> QED BY <1>8, <2>3, <2>4, Delivered, ZenonT(60)
<1>9. CASE Tick \/ Snapshot
  BY <1>1, <1>9, Zenon DEF Tick, Snapshot, ingress, kernel
<1>10. CASE UNCHANGED vars
  BY <1>1, <1>10, Zenon DEF vars
<1> QED BY <1>3, <1>4, <1>5, <1>6, <1>7, <1>8, <1>9, <1>10, IngressTask, IngressRelay, ZenonT(60) DEF Next

(***************************************************************************)
(* Nothing waits at the ingress when the broker starts.                     *)
(***************************************************************************)
LEMMA IngressInit == ASSUME Init PROVE NamesIInv /\ IngressIInv
<1>1. NamesIInv
  BY TcpAssumption, ZenonT(60) DEF Init, NamesIInv, Closed
<1>2. /\ backlog = <<>> /\ waiting = [p \in Port |-> <<>>] /\ reg = [r \in Reg |-> None]
      /\ call = [c \in Call |-> NoCall] /\ pc = [c \in Call |-> "idle"]
  BY Zenon DEF Init
<1>3. IngressIInv
  BY <1>2
     DEF IngressIInv, IngressTyped, WaitersLive, CallsRegistered, RegisteredOnce, PendingOwned,
         NoCall, IsInjective
<1> QED BY <1>1, <1>3, Zenon

(***************************************************************************)
(* The ingress and its registrations always agree with the connects.        *)
(***************************************************************************)
LEMMA IngressInvariant == Spec => [](ConnectsIInv /\ NamesIInv /\ IngressIInv)
<1>1. Init => NamesIInv /\ IngressIInv
  BY IngressInit, Zenon
<1>2. ConnectsIInv /\ NamesIInv /\ IngressIInv /\ [Next]_vars
          => NamesIInv' /\ IngressIInv'
  BY NamesNext, IngressNext, Zenon DEF IngressIInv
<1> QED BY <1>1, <1>2, ConnectsInvariant, PTL DEF Spec
-------------------------------------------------------------------------------
(***************************************************************************)
(* What a step does to a registration that is there after it: it made it,   *)
(* gave it the stream at the head of the accept queue, committed its call,  *)
(* or left it alone but for a mark that its connection is lost.             *)
(***************************************************************************)
SameReg(r) == /\ reg[r] # None
              /\ reg'[r].sock = reg[r].sock /\ reg'[r].tgt = reg[r].tgt
              /\ reg[r].lost => reg'[r].lost

RegMoves(r) ==
    \/ reg[r] = None /\ reg'[r].stream = None /\ reg'[r].phase = "conn"
    \/ /\ SameReg(r) /\ ~reg'[r].sender
       /\ Accept /\ Matches(r, Head(backlog)) /\ reg'[r].stream = Head(backlog)
    \/ /\ SameReg(r) /\ reg'[r].stream = reg[r].stream /\ reg'[r].sender = reg[r].sender
       /\ \/ \E c \in Call : Commit(c) /\ call[c].reg = r
          \/ reg'[r].phase = "conn" <=> reg[r].phase = "conn"

(***************************************************************************)
(* A registration that a step does not touch.                               *)
(***************************************************************************)
LEMMA RegUntouched ==
    ASSUME NEW r, reg'[r] # None, reg'[r] = reg[r]
    PROVE  RegMoves(r)
BY Zenon DEF RegMoves, SameReg

(***************************************************************************)
(* Nothing else happens to a registration, whoever takes the step.          *)
(***************************************************************************)
LEMMA RegStep ==
    ASSUME ConnectsIInv, IngressIInv, [Next]_vars, NEW r \in Reg, reg'[r] # None
    PROVE  RegMoves(r)
<1>0. /\ CallsIInv /\ HoldsIInv /\ IngressTyped /\ reg \in [Reg -> Registration \cup {None}]
      /\ None \notin Registration \cup Reg
  BY IngressAssumption, Zenon DEF ConnectsIInv, IngressIInv, IngressTyped
<1>1. ASSUME UNCHANGED reg PROVE RegMoves(r)
  BY <1>1, RegUntouched, Zenon
<1>2. ASSUME NEW q, reg' = [reg EXCEPT ![q] = None] PROVE RegMoves(r)
  <2>1. reg'[r] = reg[r]
    BY <1>0, <1>2, Zenon
  <2> QED BY <2>1, RegUntouched, Zenon
<1>3. ASSUME NEW q \in Reg, NEW ph, reg[q] # None, reg' = [reg EXCEPT ![q].phase = ph]
      PROVE  /\ SameReg(q) /\ reg'[q].stream = reg[q].stream /\ reg'[q].phase = ph
             /\ reg'[q].sender = reg[q].sender
             /\ r # q => reg'[r] = reg[r]
  <2> DEFINE t == reg[q]
  <2>1. DOMAIN t = {"sock", "port", "tgt", "phase", "sender", "stream", "lost"}
    BY <1>0, <1>3, Zenon DEF Registration
  <2>2. reg' = [reg EXCEPT ![q] = [t EXCEPT !.phase = ph]]
    BY <1>0, <1>3, Zenon
  <2>3. reg'[q] = [t EXCEPT !.phase = ph] /\ (r # q => reg'[r] = reg[r])
    BY <1>0, <2>2, Zenon
  <2>4. t = reg[q]
    BY Zenon
  <2> HIDE DEF t
  <2>5. /\ reg'[q].sock = t.sock /\ reg'[q].tgt = t.tgt /\ reg'[q].stream = t.stream
        /\ reg'[q].phase = ph /\ reg'[q].sender = t.sender /\ reg'[q].lost = t.lost
    BY <2>1, <2>3, Zenon
  <2> QED BY <1>3, <2>3, <2>4, <2>5, Zenon DEF SameReg
<1>4. ASSUME NEW s, reg' = abandon(s) PROVE RegMoves(r)
  <2>1. /\ SameReg(r) /\ reg'[r].stream = reg[r].stream /\ reg'[r].sender = reg[r].sender
        /\ reg'[r].phase = reg[r].phase
    BY <1>0, <1>4, Abandoned, Zenon DEF SameReg
  <2> QED BY <2>1, Zenon DEF RegMoves
<1>5. ASSUME NEW c \in Call, Task(c) PROVE RegMoves(r)
  <2>1. CASE Fail(c)
    BY <1>1, <1>2, <2>1, ZenonT(60) DEF Fail
  <2>2. CASE Register(c) /\ ~Fail(c)
    <3>1. PICK q \in Reg : /\ reg[q] = None /\ reg'[q].phase = "conn" /\ reg'[q].stream = None
                           /\ \A x \in Reg \ {q} : reg'[x] = reg[x]
      <4> DEFINE new(p) == [sock |-> call[c].sock, port |-> p, tgt |-> call[c].tgt,
                            phase |-> "conn", sender |-> TRUE, stream |-> None, lost |-> FALSE]
      <4>1. \E p \in prepare(call[c].sock), q \in Reg :
                reg[q] = None /\ reg' = [reg EXCEPT ![q] = new(p)]
        BY <2>2, Zenon DEF Register
      <4>2. \A p : new(p).phase = "conn" /\ new(p).stream = None
        BY Zenon
      <4> HIDE DEF new
      <4> QED BY <1>0, <4>1, <4>2
    <3>2. CASE r = q
      BY <1>0, <3>1, <3>2, Zenon DEF RegMoves
    <3>3. CASE r # q
      BY <1>0, <3>1, <3>3, RegUntouched, Zenon
    <3> QED BY <3>2, <3>3, Zenon
  <2>3. CASE Commit(c)
    <3> DEFINE q == call[c].reg
    <3>1. q \in Reg /\ reg[q] # None
      BY <1>0, <2>3, ZenonT(60) DEF Commit, CallsIInv, HoldsIInv, Holds, IngressIInv, CallsRegistered
    <3>2. /\ SameReg(q) /\ reg'[q].stream = reg[q].stream /\ reg'[q].sender = reg[q].sender
          /\ r # q => reg'[r] = reg[r]
      BY <1>3, <2>3, <3>1, ZenonT(60) DEF Commit
    <3>3. CASE r = q
      BY <2>3, <3>2, <3>3, Zenon DEF RegMoves
    <3>4. CASE r # q
      BY <3>2, <3>4, RegUntouched, Zenon
    <3> QED BY <3>3, <3>4, Zenon
  <2>4. CASE CancelShutdown(c)
    BY <1>1, <1>4, <2>4, Zenon DEF CancelShutdown, shutdown
  <2>5. UNCHANGED reg \/ Fail(c) \/ Register(c) \/ Commit(c) \/ CancelShutdown(c)
    BY <1>5, Zenon DEF Task, Dispatch, Acquire, ReadState, Route, InsertPeer, Run, WaitDone, WaitCancel,
                CancelDone, ingress
  <2> QED BY <1>1, <2>1, <2>2, <2>3, <2>4, <2>5, Zenon
<1>6. ASSUME NEW q \in Reg, RelayAccept(q) \/ RelayConnected(q) PROVE RegMoves(r)
  <2>1. reg[q] # None /\ reg[q].phase \in {"accept", "upstream"}
    BY <1>6, Zenon DEF RelayAccept, RelayConnected
  <2>2. CASE reg' = [reg EXCEPT ![q].phase = "upstream"]
    <3>1. /\ SameReg(q) /\ reg'[q].stream = reg[q].stream /\ reg'[q].phase = "upstream"
          /\ reg'[q].sender = reg[q].sender
          /\ r # q => reg'[r] = reg[r]
      BY <1>3, <2>1, <2>2, ZenonT(60)
    <3>2. CASE r = q
      BY <2>1, <3>1, <3>2, Zenon DEF RegMoves
    <3>3. CASE r # q
      BY <3>1, <3>3, RegUntouched, Zenon
    <3> QED BY <3>2, <3>3, Zenon
  <2> QED BY <1>2, <1>6, <2>2, Zenon DEF RelayAccept, RelayConnected
<1>7. CASE Accept
  <2>1. ASSUME NEW q \in Reg, reg[q] # None, Matches(q, Head(backlog)),
               reg' = [reg EXCEPT ![q] = [reg[q] EXCEPT !.sender = FALSE, !.stream = Head(backlog)]]
        PROVE  RegMoves(r)
    <3> DEFINE t == reg[q]
               st == Head(backlog)
    <3>1. /\ DOMAIN t = {"sock", "port", "tgt", "phase", "sender", "stream", "lost"} /\ t = reg[q]
          /\ reg'[q] = [t EXCEPT !.sender = FALSE, !.stream = st]
          /\ r # q => reg'[r] = reg[r]
      BY <1>0, <2>1, Zenon DEF Registration
    <3> HIDE DEF t, st
    <3>2. /\ reg'[q].sock = t.sock /\ reg'[q].tgt = t.tgt /\ reg'[q].lost = t.lost
          /\ reg'[q].stream = st /\ ~reg'[q].sender
      BY <3>1, Zenon
    <3>3. CASE r = q
      BY <1>7, <2>1, <3>1, <3>2, <3>3, Zenon DEF RegMoves, SameReg, st
    <3>4. CASE r # q
      BY <3>1, <3>4, RegUntouched, Zenon
    <3> QED BY <3>3, <3>4, Zenon
  <2> QED BY <1>1, <1>7, <2>1, Delivered, ZenonT(60)
<1>8. ASSUME NEW c \in Call, NEW s \in Socket, NEW t \in Target \cup {Unspec}, Connect(c, s, t)
      PROVE  RegMoves(r)
  BY <1>1, <1>8, Zenon DEF Connect, ingress
<1>9. ASSUME NEW c \in Call, NativeCall(c) PROVE RegMoves(r)
  <2>1. reg' = reg \/ reg' = abandon(call[c].sock)
    BY <1>9, Zenon DEF NativeCall
  <2> QED BY <1>1, <1>4, <2>1, Zenon
<1>10. ASSUME NEW c \in Call,
              WorkerStart(c) \/ WorkerEnter(c) \/ WorkerReturn(c) \/ WorkerFinish(c)
       PROVE  RegMoves(r)
  BY <1>1, <1>10, Zenon DEF WorkerStart, WorkerEnter, WorkerReturn, WorkerFinish, ingress
<1>11. ASSUME NEW s \in Socket, Handshake(s) \/ ConnectionLost(s) PROVE RegMoves(r)
  BY <1>1, <1>4, <1>11, Zenon DEF Handshake, ConnectionLost, ingress
<1>12. CASE Tick \/ Snapshot
  BY <1>1, <1>12, Zenon DEF Tick, Snapshot, ingress
<1>13. CASE UNCHANGED vars
  BY <1>1, <1>13, Zenon DEF vars
<1> QED BY <1>5, <1>6, <1>7, <1>8, <1>9, <1>10, <1>11, <1>12, <1>13, ZenonT(60) DEF Next

(***************************************************************************)
(* No other call, and no other call's worker, moves.                        *)
(***************************************************************************)
Alone(c) == \A d \in Call \ {c} : call'[d] = call[d] /\ worker'[d] = worker[d]

(***************************************************************************)
(* A worker that has sent a SYN, or found one sent, had done so before the  *)
(* step, or its socket is not closed now.                                   *)
(***************************************************************************)
Sent == {"inside", "ok", "done"}

WorkerMoves(c) ==
    call'[c].reg # None /\ worker'[c] \in Sent =>
        \/ worker[c] \in Sent /\ call'[c].reg = call[c].reg /\ call'[c].sock = call[c].sock
        \/ call'[c].sock = call[c].sock /\ ~Closed(call[c].sock)'

(***************************************************************************)
(* Each step of a call's task.                                              *)
(***************************************************************************)
LEMMA WorkerTask ==
    ASSUME CallsIInv, WorkersIInv, NEW c \in Call, Task(c)
    PROVE  WorkerMoves(c) /\ Alone(c)
<1>0. "none" \notin Sent /\ "queued" \notin Sent
  BY Zenon DEF Sent
<1>1. ASSUME UNCHANGED <<call, worker>> PROVE WorkerMoves(c) /\ Alone(c)
  BY <1>1, Zenon DEF WorkerMoves, Alone
<1>2. ASSUME call' = [call EXCEPT ![c] = NoCall],
             worker' = worker \/ worker' = [worker EXCEPT ![c] = "none"]
      PROVE  WorkerMoves(c) /\ Alone(c)
  BY <1>2, Zenon DEF WorkerMoves, Alone, CallsIInv, WorkersIInv, NoCall
<1>3. ASSUME NEW w, w = worker[c] \/ w \notin Sent, worker' = [worker EXCEPT ![c] = w], UNCHANGED call
      PROVE  WorkerMoves(c) /\ Alone(c)
  BY <1>3, Zenon DEF WorkerMoves, Alone, WorkersIInv
<1>4. ASSUME NEW l, Return(c, l) PROVE WorkerMoves(c) /\ Alone(c)
  <2>1. /\ call' = [call EXCEPT ![c] = NoCall] \/ call' = call
        /\ worker' = [worker EXCEPT ![c] = "none"]
    BY <1>4, ZenonT(60) DEF Return, CallsIInv
  <2> QED BY <1>0, <1>2, <1>3, <2>1, Zenon
<1>5. CASE Fail(c)
  BY <1>2, <1>5, Zenon DEF Fail
<1>6. ASSUME NEW l, Goto(c, l) PROVE WorkerMoves(c) /\ Alone(c)
  BY <1>1, <1>6, Zenon DEF Goto
<1>7. CASE Dispatch(c)
  BY <1>1, <1>2, <1>6, <1>7, Zenon DEF Dispatch
<1>8. CASE Acquire(c)
  BY <1>1, <1>8, Zenon DEF Acquire
<1>9. CASE ReadState(c)
  BY <1>4, <1>6, <1>9, Zenon DEF ReadState
<1>10. CASE Route(c)
  BY <1>4, <1>6, <1>10, Zenon DEF Route
<1>11. CASE InsertPeer(c) \/ CancelDone(c)
  BY <1>5, <1>6, <1>11, Zenon DEF InsertPeer, CancelDone
<1>12. CASE Register(c) /\ ~Fail(c)
  <2>1. pc[c] = "register" /\ \E r \in Reg : call' = [call EXCEPT ![c].reg = r] /\ worker' = worker
    BY <1>12, Zenon DEF Register
  <2>2. worker'[c] = "none" /\ Alone(c)
    BY <2>1, ZenonT(60) DEF CallsIInv, WorkersIInv, Alone
  <2> QED BY <1>0, <2>2, Zenon DEF WorkerMoves
<1>13. CASE Run(c)
  BY <1>0, <1>3, <1>5, <1>13, Zenon DEF Run
<1>14. CASE WaitCancel(c)
  <2>1. PICK w : w = IF worker[c] = "queued" THEN "none" ELSE worker[c]
    BY Zenon
  <2>2. worker' = [worker EXCEPT ![c] = w] /\ UNCHANGED call
    BY <1>14, <2>1, Zenon DEF WaitCancel, WorkersIInv
  <2> QED BY <1>0, <1>3, <2>1, <2>2, Zenon
<1>15. CASE WaitDone(c)
  BY <1>4, <1>5, <1>6, <1>15, Zenon DEF WaitDone
<1>16. CASE CancelShutdown(c)
  BY <1>1, <1>16, Zenon DEF CancelShutdown
<1>17. CASE Commit(c)
  BY <1>2, <1>17, Zenon DEF Commit
<1> QED BY <1>5, <1>7, <1>8, <1>9, <1>10, <1>11, <1>12, <1>13, <1>14, <1>15, <1>16, <1>17, ZenonT(60)
        DEF Task

(***************************************************************************)
(* ... of its worker, and of everyone else.                                 *)
(***************************************************************************)
LEMMA WorkerStep ==
    ASSUME ConnectsIInv, [Next]_vars, NEW c \in Call
    PROVE  WorkerMoves(c)
<1>0. CallsIInv /\ WorkersIInv /\ SocketsIInv /\ HoldsIInv
  BY Zenon DEF ConnectsIInv
<1>1. ASSUME call'[c] = call[c], worker'[c] = worker[c] PROVE WorkerMoves(c)
  BY <1>1, Zenon DEF WorkerMoves
<1>2. ASSUME NEW d \in Call, Alone(d), d # c PROVE WorkerMoves(c)
  BY <1>1, <1>2, Zenon DEF Alone
<1>3. ASSUME NEW d \in Call, Task(d) PROVE WorkerMoves(c)
  BY <1>0, <1>2, <1>3, WorkerTask, Zenon
<1>4. ASSUME NEW d \in Call, NEW s \in Socket, NEW t \in Target \cup {Unspec}, Connect(d, s, t)
      PROVE  WorkerMoves(c)
  <2>1. Alone(d) /\ call'[d].reg = None
    BY <1>0, <1>4, Zenon DEF Connect, CallsIInv, Alone
  <2> QED BY <1>2, <2>1, Zenon DEF WorkerMoves
<1>5. ASSUME NEW d \in Call, NativeCall(d) PROVE WorkerMoves(c)
  <2>1. Alone(d) /\ call'[d].reg = None
    BY <1>0, <1>5, Zenon DEF NativeCall, CallsIInv, NoCall, Alone
  <2> QED BY <1>2, <2>1, Zenon DEF WorkerMoves
<1>6. ASSUME NEW d \in Call, NEW w, worker' = [worker EXCEPT ![d] = w], UNCHANGED call
      PROVE  /\ Alone(d) /\ worker'[d] = w
             /\ w \notin Sent \/ worker[d] \in Sent \/ ~Closed(call[d].sock)' => WorkerMoves(d)
  BY <1>0, <1>6, Zenon DEF WorkersIInv, Alone, WorkerMoves
<1>7. ASSUME NEW d \in Call, WorkerStart(d) PROVE WorkerMoves(c)
  <2>1. worker' = [worker EXCEPT ![d] = "started"] /\ UNCHANGED call /\ "started" \notin Sent
    BY <1>7, Zenon DEF WorkerStart, Sent
  <2> QED BY <1>2, <1>6, <2>1, Zenon
<1>8. ASSUME NEW d \in Call, WorkerFinish(d) PROVE WorkerMoves(c)
  <2>1. PICK w : w = IF worker[d] = "ok" THEN "done" ELSE "failed"
    BY Zenon
  <2>2. worker' = [worker EXCEPT ![d] = w] /\ UNCHANGED call
    BY <1>0, <1>8, <2>1, Zenon DEF WorkerFinish, WorkersIInv
  <2>3. w \notin Sent \/ worker[d] \in Sent
    BY <2>1, Zenon DEF Sent
  <2> QED BY <1>2, <1>6, <2>2, <2>3, Zenon
<1>9. ASSUME NEW d \in Call, WorkerReturn(d) PROVE WorkerMoves(c)
  <2>1. PICK w : worker' = [worker EXCEPT ![d] = w]
    BY <1>9, Zenon DEF WorkerReturn
  <2>2. UNCHANGED call /\ worker[d] \in Sent
    BY <1>9, Zenon DEF WorkerReturn, Sent
  <2> QED BY <1>2, <1>6, <2>1, <2>2, Zenon
<1>10. ASSUME NEW d \in Call, WorkerEnter(d) PROVE WorkerMoves(c)
  <2> DEFINE s == call[d].sock
  <2>0. s \in Socket /\ UNCHANGED call /\ tcp \in [Socket -> TcpSocket]
    BY <1>0, <1>10, Zenon DEF WorkerEnter, WorkersIInv, CallsIInv, HoldsIInv, Holds, Unlocked, SocketsIInv
  <2>1. ASSUME NEW e, tcp' = [tcp EXCEPT ![s] = e], e.state = "syn" PROVE ~Closed(s)'
    <3>1. tcp'[s] = e
      BY <2>0, <2>1, Zenon
    <3> QED BY <2>0, <2>1, <3>1, Zenon DEF Closed
  <2>2. ASSUME tcp[s].state \in {"syn", "estab"}, UNCHANGED tcp PROVE ~Closed(s)'
    BY <2>0, <2>2, Zenon DEF Closed
  <2>3. PICK w : /\ worker' = [worker EXCEPT ![d] = w]
                 /\ \/ w = "error"
                    \/ ~Closed(s)'
    <3>1. CASE worker' = [worker EXCEPT ![d] = "error"]
      BY <3>1, Zenon
    <3>2. CASE /\ \E p \in SourcePorts(s) :
                    tcp' = [tcp EXCEPT ![s] = [state |-> "syn", name |-> p, held |-> TRUE,
                                               to |-> "ingress", tgt |-> call[d].tgt,
                                               committed |-> None]]
               /\ \E w : worker' = [worker EXCEPT ![d] = w]
      <4>1. PICK p : tcp' = [tcp EXCEPT ![s] = [state |-> "syn", name |-> p, held |-> TRUE,
                                               to |-> "ingress", tgt |-> call[d].tgt,
                                               committed |-> None]]
        BY <3>2, Zenon
      <4> DEFINE e == [state |-> "syn", name |-> p, held |-> TRUE, to |-> "ingress",
                       tgt |-> call[d].tgt, committed |-> None]
      <4>2. e.state = "syn" /\ tcp' = [tcp EXCEPT ![s] = e]
        BY <4>1, Zenon
      <4> HIDE DEF e
      <4>3. ~Closed(s)'
        BY <2>1, <4>2, Zenon
      <4> QED BY <3>2, <4>3, Zenon
    <3>3. CASE /\ tcp[s].state \in {"syn", "estab"} /\ UNCHANGED tcp
               /\ \E w : worker' = [worker EXCEPT ![d] = w]
      <4>1. ~Closed(s)'
        BY <2>2, <3>3, Zenon
      <4> QED BY <3>3, <4>1, Zenon
    <3> QED BY <1>10, <3>1, <3>2, <3>3, ZenonT(60) DEF WorkerEnter
  <2>4. "error" \notin Sent
    BY Zenon DEF Sent
  <2> QED BY <1>2, <1>6, <2>0, <2>3, <2>4, Zenon
<1>11. ASSUME NEW s \in Socket, Handshake(s) \/ ConnectionLost(s) PROVE WorkerMoves(c)
  BY <1>1, <1>11, Zenon DEF Handshake, ConnectionLost
<1>12. CASE Accept \/ Tick \/ Snapshot
  BY <1>1, <1>12, Zenon DEF Accept, Tick, Snapshot
<1>13. ASSUME NEW r \in Reg, RelayAccept(r) \/ RelayConnected(r) PROVE WorkerMoves(c)
  BY <1>1, <1>13, Zenon DEF RelayAccept, RelayConnected
<1>14. CASE UNCHANGED vars
  BY <1>1, <1>14, Zenon DEF vars
<1> QED BY <1>3, <1>4, <1>5, <1>7, <1>8, <1>9, <1>10, <1>11, <1>12, <1>13, <1>14, ZenonT(60) DEF Next

(***************************************************************************)
(* The accept queue: an open stream in it was there before, or its          *)
(* handshake has just been completed.                                       *)
(***************************************************************************)
LEMMA BacklogStep ==
    ASSUME IngressIInv, [Next]_vars, NEW i \in 1..Len(backlog'), backlog'[i].open
    PROVE  \/ \E j \in 1..Len(backlog) : backlog'[i] = backlog[j]
           \/ \E s \in Socket :
                 /\ Handshake(s) /\ backlog'[i].sock = s
                 /\ backlog'[i].port = tcp[s].name /\ backlog'[i].tgt = tcp[s].tgt
<1> DEFINE Old == \E j \in 1..Len(backlog) : backlog'[i] = backlog[j]
<1>0. backlog \in Seq(Stream) /\ IngressTyped
  BY Zenon DEF IngressIInv, IngressTyped
<1>1. ASSUME UNCHANGED backlog PROVE Old
  BY <1>1, Zenon
<1>2. ASSUME NEW c \in Call, Task(c) PROVE Old
  BY <1>1, <1>2, ZenonT(60) DEF Task, Dispatch, Acquire, ReadState, Route, InsertPeer, Register, Run, WaitDone,
                    WaitCancel, CancelShutdown, CancelDone, Commit, kernel
<1>3. ASSUME NEW c \in Call, NEW s \in Socket, NEW t \in Target \cup {Unspec}, Connect(c, s, t)
      PROVE  Old
  BY <1>1, <1>3, Zenon DEF Connect, kernel
<1>4. ASSUME NEW c \in Call, NativeCall(c) PROVE Old
  <2>1. CASE backlog' = reset(call[c].sock)
    <3>1. /\ Len(reset(call[c].sock)) = Len(backlog)
          /\ \A k \in 1..Len(backlog) :
                reset(call[c].sock)[k].open => reset(call[c].sock)[k] = backlog[k]
      BY <1>0, Resets, Zenon
    <3>2. Len(backlog') = Len(backlog)
      BY <2>1, <3>1, Zenon
    <3> QED BY <2>1, <3>1, <3>2, Zenon
  <2> QED BY <1>1, <1>4, <2>1, Zenon DEF NativeCall
<1>5. ASSUME NEW c \in Call,
             WorkerStart(c) \/ WorkerEnter(c) \/ WorkerReturn(c) \/ WorkerFinish(c)
      PROVE  Old
  BY <1>1, <1>5, Zenon DEF WorkerStart, WorkerEnter, WorkerReturn, WorkerFinish, kernel
<1>6. ASSUME NEW s \in Socket, ConnectionLost(s) PROVE Old
  BY <1>1, <1>6, Zenon DEF ConnectionLost
<1>7. ASSUME NEW s \in Socket, Handshake(s)
      PROVE  Old \/ (/\ backlog'[i].sock = s
                     /\ backlog'[i].port = tcp[s].name /\ backlog'[i].tgt = tcp[s].tgt)
  <2> DEFINE st == [sock |-> s, port |-> tcp[s].name, tgt |-> tcp[s].tgt, open |-> TRUE]
  <2>1. /\ backlog' = Append(backlog, st)
        /\ st.sock = s /\ st.port = tcp[s].name /\ st.tgt = tcp[s].tgt
    BY <1>7, Zenon DEF Handshake
  <2> HIDE DEF st
  <2>2. i = Len(backlog) + 1 => backlog'[i] = st
    BY <1>0, <2>1
  <2>3. i # Len(backlog) + 1 => i \in 1..Len(backlog) /\ backlog'[i] = backlog[i]
    BY <1>0, <2>1
  <2> QED BY <2>1, <2>2, <2>3, Zenon
<1>8. CASE Accept
  <2>1. backlog' = Tail(backlog) /\ backlog # <<>>
    BY <1>8, Zenon DEF Accept
  <2>2. i + 1 \in 1..Len(backlog) /\ backlog'[i] = backlog[i + 1]
    BY <1>0, <2>1
  <2> QED BY <2>2, Zenon
<1>9. ASSUME NEW r \in Reg, RelayAccept(r) \/ RelayConnected(r) PROVE Old
  BY <1>1, <1>9, Zenon DEF RelayAccept, RelayConnected, kernel
<1>10. CASE Tick \/ Snapshot
  BY <1>1, <1>10, Zenon DEF Tick, Snapshot, kernel
<1>11. CASE UNCHANGED vars
  BY <1>1, <1>11, Zenon DEF vars
<1> QED BY <1>2, <1>3, <1>4, <1>5, <1>6, <1>7, <1>8, <1>9, <1>10, <1>11, ZenonT(60) DEF Next

(***************************************************************************)
(* Each step keeps the open streams in the accept queue those of the        *)
(* connections their sockets have.                                          *)
(***************************************************************************)
LEMMA StreamsNext ==
    ASSUME ConnectsIInv, NamesIInv, IngressIInv, StreamsCurrent, [Next]_vars
    PROVE  StreamsCurrent'
<1>0. tcp \in [Socket -> TcpSocket] /\ IngressTyped /\ IngressTyped'
  BY IngressNext, Zenon DEF ConnectsIInv, SocketsIInv, IngressIInv
<1>1. SocketMoves
  BY <1>0, SocketStep, Zenon
<1>2. ASSUME NEW i \in 1..Len(backlog'), backlog'[i].open
      PROVE  LET t == tcp'[backlog'[i].sock]
             IN  /\ t.state \in {"estab", "shut"} /\ t.to = "ingress"
                 /\ t.name = backlog'[i].port /\ t.tgt = backlog'[i].tgt
  <2> DEFINE s == backlog'[i].sock
  <2>0. s \in Socket
    <3>1. backlog'[i] \in Stream
      BY <1>0 DEF IngressTyped
    <3> QED BY <3>1, Zenon DEF Stream
  <2>1. ASSUME NEW j \in 1..Len(backlog), backlog'[i] = backlog[j]
        PROVE  /\ tcp'[s].state \in {"estab", "shut"} /\ tcp'[s].to = "ingress"
               /\ tcp'[s].name = backlog'[i].port /\ tcp'[s].tgt = backlog'[i].tgt
    <3>1. /\ tcp[s].state \in {"estab", "shut"} /\ tcp[s].to = "ingress"
          /\ tcp[s].name = backlog'[i].port /\ tcp[s].tgt = backlog'[i].tgt
      BY <1>2, <2>1, ZenonT(60) DEF StreamsCurrent
    <3>2. CASE tcp'[s] = tcp[s]
      BY <3>1, <3>2, Zenon
    <3>3. ASSUME NEW z \in Socket, NEW e \in TcpSocket, tcp' = [tcp EXCEPT ![z] = e], s = z,
                 Keeps(z, e) \/ Binds(z, e) \/ Opens(z, e) \/ Ends(z, e)
          PROVE  /\ tcp'[s].state \in {"estab", "shut"} /\ tcp'[s].to = "ingress"
                 /\ tcp'[s].name = backlog'[i].port /\ tcp'[s].tgt = backlog'[i].tgt
      <4>1. tcp'[z] = e /\ ~Closed(z) /\ tcp[z].state # "syn"
        BY <1>0, <3>1, <3>3, ZenonT(60) DEF Closed
      <4>2. ~Binds(z, e) /\ ~Opens(z, e)
        BY <4>1, Zenon DEF Binds, Opens
      <4>3. ~Ends(z, e)
        BY <1>2, <3>3, <4>1, Zenon DEF Ends
      <4> QED BY <3>1, <3>3, <4>1, <4>2, <4>3, ZenonT(60) DEF Keeps
    <3>4. UNCHANGED tcp \/ \E z \in Socket, e \in TcpSocket :
              /\ tcp' = [tcp EXCEPT ![z] = e]
              /\ Keeps(z, e) \/ Binds(z, e) \/ Opens(z, e) \/ Ends(z, e)
      BY <1>1, Zenon DEF SocketMoves
    <3>5. \A z \in Socket : \A e : tcp' = [tcp EXCEPT ![z] = e] /\ s # z => tcp'[s] = tcp[s]
      BY <1>0, <2>0, Zenon
    <3> QED BY <3>2, <3>3, <3>4, <3>5, Zenon
  <2>2. ASSUME NEW z \in Socket, Handshake(z), s = z,
               backlog'[i].port = tcp[z].name, backlog'[i].tgt = tcp[z].tgt
        PROVE  /\ tcp'[s].state \in {"estab", "shut"} /\ tcp'[s].to = "ingress"
               /\ tcp'[s].name = backlog'[i].port /\ tcp'[s].tgt = backlog'[i].tgt
    <3>1. PICK e : e = [tcp[z] EXCEPT !.state = "estab"]
      BY Zenon
    <3>2. e.state = "estab" /\ e.name = tcp[z].name /\ e.to = tcp[z].to /\ e.tgt = tcp[z].tgt
      BY <1>0, <3>1, StateSocket DEF State
    <3>3. tcp'[z] = e /\ tcp[z].state = "syn"
      BY <1>0, <2>2, <3>1, Zenon DEF Handshake
    <3>4. tcp[z].to = "ingress"
      BY <3>3, Zenon DEF NamesIInv
    <3> QED BY <2>2, <3>2, <3>3, <3>4, Zenon
  <2> QED BY <1>2, <2>1, <2>2, BacklogStep, ZenonT(60)
<1> QED BY <1>2, Zenon DEF StreamsCurrent

(***************************************************************************)
(* A registration that still waits for its stream, and is not lost, keeps   *)
(* the connection that it has.                                              *)
(***************************************************************************)
LEMMA ConnectionKept ==
    ASSUME ConnectsIInv, NamesIInv, IngressIInv, [Next]_vars, NEW r \in Reg, reg[r] # None,
           reg'[r].sender, reg[r].sender, ~reg'[r].lost, ~Closed(reg[r].sock)
    PROVE  LET s == reg[r].sock
           IN  /\ tcp'[s].state \notin {"close", "failed", "dead"}
               /\ tcp'[s].to = tcp[s].to /\ tcp'[s].tgt = tcp[s].tgt
<1>0. tcp \in [Socket -> TcpSocket] /\ IngressTyped /\ reg[r] \in Registration
  BY Zenon DEF ConnectsIInv, SocketsIInv, IngressIInv, IngressTyped
<1> DEFINE s == reg[r].sock
<1>1. s \in Socket /\ SocketMoves
  BY <1>0, SocketStep, Zenon DEF Registration
<1>2. CASE tcp'[s] = tcp[s]
  BY <1>2, Zenon DEF Closed
<1>3. ASSUME NEW z \in Socket, NEW e \in TcpSocket, tcp' = [tcp EXCEPT ![z] = e], s = z,
             Keeps(z, e) \/ Binds(z, e) \/ Opens(z, e) \/ Ends(z, e)
      PROVE  /\ tcp'[s].state \notin {"close", "failed", "dead"}
             /\ tcp'[s].to = tcp[s].to /\ tcp'[s].tgt = tcp[s].tgt
  <2>1. tcp'[z] = e /\ ~Closed(z)
    BY <1>0, <1>3, Zenon
  <2>2. ~Binds(z, e) /\ ~Opens(z, e)
    BY <2>1, Zenon DEF Binds, Opens
  <2>3. ~Ends(z, e)
    BY <1>0, <1>3, Abandoned, Zenon DEF Ends
  <2> QED BY <1>3, <2>1, <2>2, <2>3, ZenonT(60) DEF Keeps, Closed
<1>4. \A z \in Socket : \A e : tcp' = [tcp EXCEPT ![z] = e] /\ s # z => tcp'[s] = tcp[s]
  BY <1>0, <1>1, Zenon
<1>5. UNCHANGED tcp \/ \E z \in Socket, e \in TcpSocket :
          /\ tcp' = [tcp EXCEPT ![z] = e]
          /\ Keeps(z, e) \/ Binds(z, e) \/ Opens(z, e) \/ Ends(z, e)
  BY <1>1, Zenon DEF SocketMoves
<1> QED BY <1>2, <1>3, <1>4, <1>5, Zenon

(***************************************************************************)
(* A connect that sent its SYN has a connection, or a lost registration.    *)
(***************************************************************************)
LEMMA CallsNext ==
    ASSUME ConnectsIInv, NamesIInv, IngressIInv, CallsConnected, [Next]_vars
    PROVE  CallsConnected'
<1>1. SUFFICES ASSUME NEW c \in Call, call'[c].reg # None, worker'[c] \in Sent,
                      reg'[call'[c].reg].sender, ~reg'[call'[c].reg].lost
               PROVE  tcp'[call'[c].sock].state \notin {"close", "failed", "dead"}
  BY Zenon DEF CallsConnected, Closed, Sent
<1>2. CASE ~Closed(call[c].sock)' /\ call'[c].sock = call[c].sock
  BY <1>2, Zenon DEF Closed
<1>3. CASE worker[c] \in Sent /\ call'[c].reg = call[c].reg /\ call'[c].sock = call[c].sock
  <2> DEFINE r == call[c].reg
  <2>1. r # None /\ r \in Reg /\ reg[r] # None /\ reg[r].sock = call[c].sock
    BY <1>1, <1>3, Zenon DEF ConnectsIInv, CallsIInv, IngressIInv, CallsRegistered
  <2>2. reg'[r] # None
    <3>1. call'[c].reg # None /\ CallsRegistered'
      BY <1>1, IngressNext, Zenon DEF IngressIInv
    <3> QED BY <1>3, <3>1, Zenon DEF CallsRegistered
  <2>3. RegMoves(r)
    BY <2>1, <2>2, RegStep, Zenon
  <2>4. reg'[r].sender /\ ~reg'[r].lost
    BY <1>1, <1>3, Zenon
  <2>5. reg[r].sender /\ ~reg[r].lost
    BY <2>1, <2>3, <2>4, Zenon DEF RegMoves, SameReg
  <2>6. ~Closed(reg[r].sock)
    BY <1>3, <2>1, <2>5, Zenon DEF CallsConnected, Sent
  <2> QED BY <1>3, <2>1, <2>4, <2>5, <2>6, ConnectionKept, Zenon
<1> QED BY <1>1, <1>2, <1>3, WorkerStep, Zenon DEF WorkerMoves

(***************************************************************************)
(* While a registration is its call's, its socket has no other relayed      *)
(* connection than the call's.                                              *)
(***************************************************************************)
LEMMA PendingOwns ==
    ASSUME ConnectsIInv, IngressIInv, NEW r \in Reg, reg[r] # None, reg[r].phase = "conn",
           ~Closed(reg[r].sock), tcp[reg[r].sock].to = "ingress"
    PROVE  tcp[reg[r].sock].tgt = reg[r].tgt
<1>1. PICK c \in Call : call[c].reg = r
  BY Zenon DEF IngressIInv, PendingOwned
<1>2. call[c].reg # None /\ reg[r].sock = call[c].sock /\ reg[r].tgt = call[c].tgt
  BY <1>1, IngressAssumption, ZenonT(60) DEF IngressIInv, CallsRegistered
<1>3. pc[c] \in {"run", "wait", "cancel", "commit"}
  BY <1>2, ZenonT(60) DEF ConnectsIInv, HoldsIInv, Holds
<1>4. Connecting(c)
  BY <1>2, <1>3, Zenon DEF Connecting, Inserted
<1> QED BY <1>2, <1>4, ZenonT(60) DEF ConnectsIInv, SocketsIInv, OwnConnection

(***************************************************************************)
(* ... and after the commit its relay task's.                               *)
(***************************************************************************)
LEMMA RelaysNext ==
    ASSUME ConnectsIInv, NamesIInv, IngressIInv, CallsConnected, RelaysConnected, [Next]_vars
    PROVE  RelaysConnected'
<1>1. SUFFICES ASSUME NEW r \in Reg, reg'[r] # None, reg'[r].phase # "conn", reg'[r].sender,
                      ~reg'[r].lost
               PROVE  LET t == tcp'[reg'[r].sock]
                      IN  /\ t.state \notin {"close", "failed", "dead"}
                          /\ t.to = "ingress" => t.tgt = reg'[r].tgt
  BY Zenon DEF RelaysConnected, Closed
<1> DEFINE s == reg[r].sock
<1>2. RegMoves(r)
  BY <1>1, RegStep, Zenon
<1>3. /\ SameReg(r) /\ reg[r].sender
      /\ \/ \E c \in Call : Commit(c) /\ call[c].reg = r
         \/ reg[r].phase # "conn"
  BY <1>1, <1>2, Zenon DEF RegMoves
<1>4. reg[r] # None /\ ~reg[r].lost /\ reg'[r].sock = s /\ reg'[r].tgt = reg[r].tgt
  BY <1>1, <1>3, Zenon DEF SameReg
<1>5. ~Closed(s) /\ (tcp[s].to = "ingress" => tcp[s].tgt = reg[r].tgt)
  <2>1. CASE reg[r].phase # "conn"
    BY <1>3, <1>4, <2>1, Zenon DEF RelaysConnected
  <2>2. ASSUME NEW c \in Call, Commit(c), call[c].reg = r, reg[r].phase = "conn"
        PROVE  ~Closed(s) /\ (tcp[s].to = "ingress" => tcp[s].tgt = reg[r].tgt)
    <3>1. worker[c] \in {"inside", "ok", "done"} /\ call[c].reg # None /\ call[c].sock = s
      BY <2>2, IngressAssumption, ZenonT(60)
         DEF Commit, ConnectsIInv, WorkersIInv, IngressIInv, CallsRegistered
    <3>2. ~Closed(s)
      BY <1>3, <1>4, <2>2, <3>1, Zenon DEF CallsConnected
    <3> QED BY <1>4, <2>2, <3>2, PendingOwns, Zenon
  <2> QED BY <1>3, <2>1, <2>2, Zenon
<1> QED BY <1>1, <1>3, <1>4, <1>5, ConnectionKept, Zenon

(***************************************************************************)
(* Each step of the program and of the kernel keeps streams and relays      *)
(* together.                                                                *)
(***************************************************************************)
LEMMA RoutesNext ==
    ASSUME ConnectsIInv, NamesIInv, IngressIInv, RoutesIInv, [Next]_vars
    PROVE  RoutesIInv'
<1>1. ASSUME NEW r \in Reg, reg'[r] # None, reg'[r].stream # None, reg'[r].stream.open
      PROVE  /\ reg'[r].stream.sock = reg'[r].sock
             /\ ~reg'[r].lost => reg'[r].stream.tgt = reg'[r].tgt
  <2>1. RegMoves(r)
    BY <1>1, RegStep, Zenon
  <2>2. CASE SameReg(r) /\ reg'[r].stream = reg[r].stream
    BY <1>1, <2>2, Zenon DEF SameReg, RoutesIInv, RoutedAsRequested
  <2>3. CASE SameReg(r) /\ Accept /\ Matches(r, Head(backlog)) /\ reg'[r].stream = Head(backlog)
    <3> DEFINE s == reg[r].sock
               st == Head(backlog)
               u == st.sock
    <3>1. /\ reg[r] # None /\ reg'[r].sock = s /\ reg'[r].tgt = reg[r].tgt
          /\ reg[r].lost => reg'[r].lost
          /\ reg[r].sender /\ ~Closed(s) /\ tcp[s].to = "ingress" /\ tcp[s].name = st.port
          /\ s = u \/ {s, u} \cap Pinned = {}
      BY <2>3, ZenonT(60) DEF SameReg, Matches, Closed
    <3>2. 1 \in 1..Len(backlog) /\ st = backlog[1] /\ st \in Stream
      BY <2>3 DEF Accept, IngressIInv, IngressTyped
    <3>3. ~Closed(u) /\ tcp[u].name = st.port /\ tcp[u].tgt = st.tgt
      BY <1>1, <2>3, <3>2, ZenonT(60) DEF RoutesIInv, StreamsCurrent, Closed
    <3>4. s \in Socket /\ u \in Socket
      <4>1. reg[r] \in Registration
        BY <3>1, Zenon DEF IngressIInv, IngressTyped
      <4> QED BY <3>2, <4>1, Zenon DEF Registration, Stream
    <3>5. s = u
      <4>1. s = u \/ {s, u} \subseteq Pinned
        BY <3>1, <3>3, <3>4, ZenonT(60) DEF NamesIInv
      <4> QED BY <3>1, <4>1, Zenon
    <3>6. ~reg[r].lost => tcp[s].tgt = reg[r].tgt
      <4>1. CASE reg[r].phase = "conn"
        BY <3>1, <4>1, PendingOwns, Zenon
      <4>2. CASE reg[r].phase # "conn"
        BY <3>1, <4>2, Zenon DEF RoutesIInv, RelaysConnected
      <4> QED BY <4>1, <4>2, Zenon
    <3> QED BY <2>3, <3>1, <3>3, <3>5, <3>6, Zenon
  <2> QED BY <1>1, <2>1, <2>2, <2>3, Zenon DEF RegMoves
<1>2. RoutedAsRequested'
  BY <1>1, Zenon DEF RoutedAsRequested
<1> QED BY <1>2, StreamsNext, CallsNext, RelaysNext, Zenon DEF RoutesIInv

(***************************************************************************)
(* "Addresses are matched and sent to the selected route as requested"      *)
(* (README.md:53): a relay is given no open stream of another socket,       *)
(* whoever shares its port or takes it over, and the stream was made by a   *)
(* connect that asked for the relay's target unless the connection the      *)
(* relay was made for is lost.  This is for any number of sockets, ports    *)
(* and connects, whatever is interrupted, reset or disconnected.            *)
(***************************************************************************)
THEOREM AlwaysRoutedAsRequested == Spec => []RoutedAsRequested
<1>1. Init => RoutesIInv
  BY DEF Init, RoutesIInv, StreamsCurrent, CallsConnected, RelaysConnected, RoutedAsRequested, NoCall
<1>2. ConnectsIInv /\ NamesIInv /\ IngressIInv /\ RoutesIInv /\ [Next]_vars => RoutesIInv'
  BY RoutesNext, Zenon
<1>3. RoutesIInv => RoutedAsRequested
  BY Zenon DEF RoutesIInv
<1> QED BY <1>1, <1>2, <1>3, IngressInvariant, PTL DEF Spec
-------------------------------------------------------------------------------
INSTANCE FiniteSetTheorems

(***************************************************************************)
(* The count of permits through the four ways they move.  First: not at all.*)
(***************************************************************************)
LEMMA PermitsSame ==
    ASSUME PermitsIInv, UNCHANGED permits, Live' = Live, Reserving' = Reserving
    PROVE  PermitsIInv'
BY Zenon DEF PermitsIInv

(***************************************************************************)
(* A call takes one (try_acquire_owned, tcp.rs:89-93).                      *)
(***************************************************************************)
LEMMA PermitTaken ==
    ASSUME PermitsIInv, NEW c, c \notin Reserving, permits > 0, permits' = permits - 1,
           Live' = Live, Reserving' = Reserving \cup {c}
    PROVE  PermitsIInv'
<1>1. /\ permits \in Nat /\ IsFiniteSet(Live) /\ IsFiniteSet(Reserving)
      /\ permits + Cardinality(Live) + Cardinality(Reserving) = MaxPending
  BY Zenon DEF PermitsIInv
<1>2. Cardinality(Live) \in Nat /\ Cardinality(Reserving) \in Nat
  BY <1>1, FS_CardinalityType, ZenonT(60)
<1>3. IsFiniteSet(Reserving') /\ Cardinality(Reserving') = Cardinality(Reserving) + 1
  BY <1>1, FS_AddElement, Zenon
<1> HIDE DEF Live, Reserving
<1> QED BY <1>1, <1>2, <1>3 DEF PermitsIInv

(***************************************************************************)
(* What a call reserved is its registration's from then on (tcp.rs:100).    *)
(***************************************************************************)
LEMMA PermitHandedOver ==
    ASSUME PermitsIInv, NEW c, c \in Reserving, NEW r, r \notin Live, UNCHANGED permits,
           Live' = Live \cup {r}, Reserving' = Reserving \ {c}
    PROVE  PermitsIInv'
<1>1. /\ permits \in Nat /\ IsFiniteSet(Live) /\ IsFiniteSet(Reserving)
      /\ permits + Cardinality(Live) + Cardinality(Reserving) = MaxPending
  BY Zenon DEF PermitsIInv
<1>2. Cardinality(Live) \in Nat /\ Cardinality(Reserving) \in Nat
  BY <1>1, FS_CardinalityType, Zenon
<1>3. IsFiniteSet(Reserving') /\ Cardinality(Reserving') = Cardinality(Reserving) - 1
  BY <1>1, FS_RemoveElement, Zenon
<1>4. IsFiniteSet(Live') /\ Cardinality(Live') = Cardinality(Live) + 1
  BY <1>1, FS_AddElement, Zenon
<1> QED BY <1>1, <1>2, <1>3, <1>4 DEF PermitsIInv

(***************************************************************************)
(* A call without a registration, or a registration, gives one back.        *)
(***************************************************************************)
LEMMA PermitReturned ==
    ASSUME PermitsIInv, permits' = permits + 1,
           \/ Live' = Live /\ \E c \in Reserving : Reserving' = Reserving \ {c}
           \/ Reserving' = Reserving /\ \E r \in Live : Live' = Live \ {r}
    PROVE  PermitsIInv'
<1>1. /\ permits \in Nat /\ IsFiniteSet(Live) /\ IsFiniteSet(Reserving)
      /\ permits + Cardinality(Live) + Cardinality(Reserving) = MaxPending
  BY Zenon DEF PermitsIInv
<1>2. Cardinality(Live) \in Nat /\ Cardinality(Reserving) \in Nat
  BY <1>1, FS_CardinalityType, Zenon
<1>3. ASSUME NEW c \in Reserving, Live' = Live, Reserving' = Reserving \ {c}
      PROVE  PermitsIInv'
  <2>1. IsFiniteSet(Reserving') /\ Cardinality(Reserving') = Cardinality(Reserving) - 1
    BY <1>1, <1>3, FS_RemoveElement, Zenon
  <2> QED BY <1>1, <1>2, <1>3, <2>1 DEF PermitsIInv
<1>4. ASSUME NEW r \in Live, Reserving' = Reserving, Live' = Live \ {r}
      PROVE  PermitsIInv'
  <2>1. IsFiniteSet(Live') /\ Cardinality(Live') = Cardinality(Live) - 1
    BY <1>1, <1>4, FS_RemoveElement, Zenon
  <2> QED BY <1>1, <1>2, <1>4, <2>1 DEF PermitsIInv
<1> QED BY <1>3, <1>4, Zenon

(***************************************************************************)
(* A call that moves on starts or stops counting, and no other does.        *)
(***************************************************************************)
LEMMA ReservingMove ==
    ASSUME CallsIInv, NEW c \in Call, NEW l, pc' = [pc EXCEPT ![c] = l]
    PROVE  Reserving' = IF l \in {"insert", "register"} THEN Reserving \cup {c}
                        ELSE Reserving \ {c}
<1>1. pc'[c] = l /\ \A d \in Call \ {c} : pc'[d] = pc[d]
  BY Zenon DEF CallsIInv
<1> QED BY <1>1, Zenon DEF Reserving

(***************************************************************************)
(* A call that fails returns the permit it has, on its own or through its   *)
(* registration, and none if it has none.                                   *)
(***************************************************************************)
LEMMA PermitsFail ==
    ASSUME ConnectsIInv, IngressIInv, PermitsIInv, NEW c \in Call, Fail(c)
    PROVE  PermitsIInv'
<1> DEFINE r == call[c].reg
<1>1. /\ CallsIInv /\ Holds(c) /\ reg \in [Reg -> Registration \cup {None}]
  BY Zenon DEF ConnectsIInv, HoldsIInv, IngressIInv, IngressTyped
<1>2. Reserving' = Reserving \ {c}
  BY <1>1, ReservingMove, ZenonT(60) DEF Fail
<1>3. CASE r = None
  <2>1. Live' = Live
    BY <1>3, Zenon DEF Fail, Live
  <2>2. CASE c \in Reserving
    <3>1. permits' = permits + 1
      BY <2>2, Zenon DEF Fail, ReturnsPermit, Inserted, Reserving
    <3> QED BY <1>2, <2>1, <2>2, <3>1, PermitReturned, ZenonT(60)
  <2>3. CASE c \notin Reserving
    <3>1. UNCHANGED permits
      BY <1>1, <1>3, <2>3, ZenonT(60) DEF Fail, ReturnsPermit, Inserted, Reserving, Holds
    <3>2. Reserving' = Reserving
      BY <1>2, <2>3, ZenonT(60)
    <3> QED BY <2>1, <3>1, <3>2, PermitsSame, ZenonT(60)
  <2> QED BY <2>2, <2>3, ZenonT(60)
<1>4. CASE r # None
  <2>1. pc[c] \in {"run", "wait", "cancel", "commit"} /\ c \notin Reserving
    BY <1>1, <1>4, ZenonT(60) DEF Holds, Reserving
  <2>2. permits' = permits + 1
    BY <1>4, <2>1, ZenonT(60) DEF Fail, ReturnsPermit, Inserted
  <2>3. r \in Live /\ reg' = [reg EXCEPT ![r] = None]
    BY <1>1, <1>4, ZenonT(60) DEF Fail, Live, IngressIInv, IngressTyped, CallsRegistered, CallsIInv
  <2>4. Live' = Live \ {r}
    BY <1>1, <2>3, ZenonT(60) DEF Live
  <2> QED BY <1>2, <2>1, <2>2, <2>3, <2>4, PermitReturned, ZenonT(60)
<1> QED BY <1>3, <1>4, ZenonT(60)

(***************************************************************************)
(* A registration that moves on or gets its stream is still one.            *)
(***************************************************************************)
LEMMA Updated ==
    ASSUME NEW t \in Registration
    PROVE  /\ \A ph \in {"conn", "accept", "upstream"} : [t EXCEPT !.phase = ph] \in Registration
           /\ \A st \in Stream : [t EXCEPT !.sender = FALSE, !.stream = st] \in Registration
<1>1. DOMAIN t = {"sock", "port", "tgt", "phase", "sender", "stream", "lost"}
  BY Zenon DEF Registration
<1> QED BY <1>1, Zenon DEF Registration

(***************************************************************************)
(* Registrations live and die one at a time.                                *)
(***************************************************************************)
LEMMA LiveMove ==
    ASSUME IngressIInv, NEW r \in Reg, NEW e, reg' = [reg EXCEPT ![r] = e]
    PROVE  Live' = IF e = None THEN Live \ {r} ELSE Live \cup {r}
<1>1. reg'[r] = e /\ \A q \in Reg \ {r} : reg'[q] = reg[q]
  BY Zenon DEF IngressIInv, IngressTyped
<1> QED BY <1>1, Zenon DEF Live

(***************************************************************************)
(* Each step of the program and of the kernel conserves the permits.        *)
(***************************************************************************)
LEMMA PermitsNext ==
    ASSUME ConnectsIInv, NamesIInv, IngressIInv, PermitsIInv, [Next]_vars
    PROVE  PermitsIInv'
<1>0. CallsIInv /\ HoldsIInv /\ reg \in [Reg -> Registration \cup {None}] /\ None \notin Registration
  BY IngressAssumption, ZenonT(60) DEF ConnectsIInv, IngressIInv, IngressTyped
<1>1. ASSUME UNCHANGED <<pc, permits, reg>> PROVE PermitsIInv'
  BY <1>1, Zenon DEF PermitsIInv, Live, Reserving
<1>2. ASSUME NEW c \in Call, NEW l, pc' = [pc EXCEPT ![c] = l], UNCHANGED permits, Live' = Live,
             l \in {"insert", "register"} <=> pc[c] \in {"insert", "register"}
      PROVE  PermitsIInv'
  <2>1. Reserving' = Reserving
    BY <1>0, <1>2, ReservingMove, ZenonT(60) DEF Reserving
  <2> QED BY <1>2, <2>1, PermitsSame, ZenonT(60)
<1>3. UNCHANGED reg => Live' = Live
  BY Zenon DEF Live
<1>4. ASSUME NEW r \in Reg, NEW e \in Registration, reg[r] # None, reg' = [reg EXCEPT ![r] = e]
      PROVE  Live' = Live
  <2>1. e # None /\ r \in Live
    BY <1>0, <1>4, ZenonT(60) DEF Live
  <2>2. Live' = Live \cup {r}
    BY <1>4, <2>1, LiveMove, ZenonT(60)
  <2>3. Live \cup {r} = Live
    <3> HIDE DEF Live
    <3> QED BY <2>1, ZenonT(60)
  <2> QED BY <2>2, <2>3, ZenonT(60)
<1>5. ASSUME NEW s, reg' = abandon(s) PROVE Live' = Live
  <2>1. \A r \in Reg : reg'[r] = None <=> reg[r] = None
    BY <1>5, Abandoned, Zenon DEF IngressIInv
  <2> QED BY <2>1, Zenon DEF Live
<1>6. ASSUME NEW c \in Call, Route(c) PROVE PermitsIInv'
  <2>1. pc[c] = "route" /\ Live' = Live
    BY <1>3, <1>6, ZenonT(60) DEF Route
  <2>2. CASE permits > 0 /\ Goto(c, "insert") /\ permits' = permits - 1
    <3>1. c \notin Reserving
      BY <2>1, ZenonT(60) DEF Reserving
    <3>2. Reserving' = Reserving \cup {c}
      BY <1>0, <2>2, ReservingMove, Zenon DEF Goto
    <3> QED BY <2>1, <2>2, <3>1, <3>2, PermitTaken, ZenonT(60)
  <2>3. ASSUME NEW l \in {"idle", "native"}, Return(c, l), UNCHANGED permits PROVE PermitsIInv'
    BY <1>2, <2>1, <2>3, ZenonT(60) DEF Return
  <2> QED BY <1>6, <2>2, <2>3, ZenonT(60) DEF Route
<1>7. ASSUME NEW c \in Call, Register(c), ~Fail(c) PROVE PermitsIInv'
  <2> DEFINE new(p) == [sock |-> call[c].sock, port |-> p, tgt |-> call[c].tgt, phase |-> "conn",
                        sender |-> TRUE, stream |-> None, lost |-> FALSE]
  <2>1. PICK p \in prepare(call[c].sock), r \in {q \in Reg : reg[q] = None} :
            pc' = [pc EXCEPT ![c] = "run"] /\ reg' = [reg EXCEPT ![r] = new(p)] /\ UNCHANGED permits
    BY <1>7, Zenon DEF Register
  <2>2. new(p) # None
    <3>1. call[c].sock \in Socket /\ call[c].tgt \in Target /\ SocketsIInv
      BY <1>0, <1>7, ZenonT(60) DEF Register, HoldsIInv, Holds, Unlocked, ConnectsIInv, CallsIInv
    <3>2. p \in Port
      BY <3>1, Ports, ZenonT(60)
    <3>3. new(p) \in Registration
      BY <3>1, <3>2, ZenonT(60) DEF Registration
    <3> QED BY <1>0, <3>3, ZenonT(60)
  <2> HIDE DEF new
  <2>3. Live' = Live \cup {r} /\ r \notin Live
    <3>1. r \in Reg /\ reg[r] = None
      BY Zenon
    <3> QED BY <2>1, <2>2, <3>1, LiveMove, Zenon DEF Live
  <2>4. Reserving' = Reserving \ {c} /\ c \in Reserving
    <3>1. c \in Reserving
      BY <1>7, ZenonT(60) DEF Register, Reserving
    <3> QED BY <1>0, <2>1, <3>1, ReservingMove, ZenonT(60)
  <2> QED BY <2>1, <2>3, <2>4, PermitHandedOver, ZenonT(60)
<1>8. ASSUME NEW c \in Call, Commit(c) PROVE PermitsIInv'
  <2> DEFINE r == call[c].reg
             e == [reg[r] EXCEPT !.phase = "accept"]
  <2>1. r \in Reg /\ reg[r] # None /\ reg[r] \in Registration
    BY <1>0, <1>8
       DEF Commit, CallsIInv, HoldsIInv, Holds, IngressIInv, IngressTyped, CallsRegistered
  <2>2. reg' = [reg EXCEPT ![r] = e]
    BY <1>0, <1>8, <2>1, Zenon DEF Commit
  <2>3. e \in Registration
    BY <2>1, Updated, ZenonT(60)
  <2> HIDE DEF e
  <2>4. Live' = Live
    BY <1>4, <2>1, <2>2, <2>3, ZenonT(60)
  <2> QED BY <1>2, <1>8, <2>4, ZenonT(60) DEF Commit
<1>9. ASSUME NEW c \in Call, Task(c) PROVE PermitsIInv'
  <2>1. CASE Fail(c)
    BY <2>1, PermitsFail, ZenonT(60)
  <2>2. CASE Dispatch(c) \/ Acquire(c)
    BY <1>2, <1>3, <2>2, ZenonT(60) DEF Dispatch, Acquire, Goto, ingress
  <2>3. CASE ReadState(c)
    BY <1>2, <1>3, <2>3, ZenonT(60) DEF ReadState, Goto, Return, ingress
  <2>4. CASE InsertPeer(c)
    BY <1>2, <1>3, <2>1, <2>4, ZenonT(60) DEF InsertPeer, Goto, ingress
  <2>5. CASE Run(c) \/ WaitCancel(c)
    BY <1>2, <1>3, <2>1, <2>5, ZenonT(60) DEF Run, WaitCancel, ingress
  <2>6. CASE WaitDone(c)
    BY <1>2, <1>3, <2>1, <2>6, ZenonT(60) DEF WaitDone, Goto, Return, ingress
  <2>7. CASE CancelShutdown(c)
    <3>1. UNCHANGED <<pc, permits>> /\ (reg' = reg \/ reg' = abandon(call[c].sock))
      BY <2>7, Zenon DEF CancelShutdown, shutdown
    <3>2. Live' = Live /\ Reserving' = Reserving
      BY <1>3, <1>5, <3>1, Zenon DEF Reserving
    <3> QED BY <3>1, <3>2, PermitsSame, Zenon
  <2>8. CASE CancelDone(c)
    BY <2>1, <2>8, ZenonT(60) DEF CancelDone
  <2> QED BY <1>6, <1>7, <1>8, <1>9, <2>1, <2>2, <2>3, <2>4, <2>5, <2>6, <2>7, <2>8, ZenonT(60) DEF Task
<1>10. ASSUME NEW r \in Reg, RelayAccept(r) \/ RelayConnected(r) PROVE PermitsIInv'
  <2>1. r \in Live /\ reg[r] \in Registration /\ Reserving' = Reserving
    BY <1>0, <1>10, ZenonT(60) DEF RelayAccept, RelayConnected, Live, Reserving
  <2>2. CASE reg' = [reg EXCEPT ![r] = None] /\ permits' = permits + 1
    <3>1. Live' = Live \ {r}
      BY <2>2, LiveMove, ZenonT(60)
    <3> QED BY <2>1, <2>2, <3>1, PermitReturned, ZenonT(60)
  <2>3. CASE reg' = [reg EXCEPT ![r].phase = "upstream"] /\ UNCHANGED permits
    <3> DEFINE e == [reg[r] EXCEPT !.phase = "upstream"]
    <3>1. reg' = [reg EXCEPT ![r] = e]
      BY <1>0, <2>3, Zenon
    <3>2. e \in Registration
      BY <2>1, Updated, Zenon
    <3> HIDE DEF e
    <3>3. Live' = Live
      BY <1>4, <2>1, <3>1, <3>2, ZenonT(60) DEF Live
    <3> QED BY <2>1, <2>3, <3>3, PermitsSame, ZenonT(60)
  <2> QED BY <1>10, <2>2, <2>3, ZenonT(60) DEF RelayAccept, RelayConnected
<1>11. CASE Accept
  <2>1. UNCHANGED <<pc, permits>> /\ Head(backlog) \in Stream
    BY <1>11, Delivered, ZenonT(60) DEF Accept
  <2>2. ASSUME NEW r \in Reg, reg[r] # None,
               reg' = [reg EXCEPT ![r] = [reg[r] EXCEPT !.sender = FALSE, !.stream = Head(backlog)]]
        PROVE  PermitsIInv'
    <3> DEFINE e == [reg[r] EXCEPT !.sender = FALSE, !.stream = Head(backlog)]
    <3>1. reg[r] \in Registration
      BY <1>0, <2>2, ZenonT(60)
    <3>2. e \in Registration
      BY <2>1, <3>1, Updated, ZenonT(60)
    <3>3. reg' = [reg EXCEPT ![r] = e]
      BY <2>2, ZenonT(60)
    <3> HIDE DEF e
    <3>4. Live' = Live
      BY <1>4, <2>2, <3>2, <3>3, Zenon
    <3> QED BY <2>1, <3>4, PermitsSame, ZenonT(60) DEF Reserving
  <2> QED BY <1>1, <1>11, <2>1, <2>2, Delivered, Zenon
<1>12. ASSUME NEW c \in Call, NEW s \in Socket, NEW t \in Target \cup {Unspec}, Connect(c, s, t)
       PROVE  PermitsIInv'
  BY <1>2, <1>3, <1>12, Zenon DEF Connect, ingress
<1>13. ASSUME NEW c \in Call, NativeCall(c) PROVE PermitsIInv'
  <2>1. /\ UNCHANGED permits /\ (reg' = reg \/ reg' = abandon(call[c].sock))
        /\ pc[c] = "native" /\ pc' = [pc EXCEPT ![c] = "idle"]
    BY <1>13, Zenon DEF NativeCall
  <2>2. Live' = Live
    BY <1>3, <1>5, <2>1, Zenon
  <2> QED BY <1>2, <2>1, <2>2, ZenonT(60)
<1>14. ASSUME NEW c \in Call,
              WorkerStart(c) \/ WorkerEnter(c) \/ WorkerReturn(c) \/ WorkerFinish(c)
       PROVE  PermitsIInv'
  BY <1>1, <1>14, ZenonT(60) DEF WorkerStart, WorkerEnter, WorkerReturn, WorkerFinish, ingress
<1>15. ASSUME NEW s \in Socket, Handshake(s) \/ ConnectionLost(s) PROVE PermitsIInv'
  <2>1. CASE Handshake(s)
    BY <1>1, <2>1, ZenonT(60) DEF Handshake, ingress
  <2>2. CASE ConnectionLost(s)
    <3>1. UNCHANGED <<pc, permits>> /\ reg' = abandon(s)
      BY <2>2, Zenon DEF ConnectionLost
    <3>2. Live' = Live /\ Reserving' = Reserving
      BY <1>5, <3>1, Zenon DEF Reserving
    <3> QED BY <3>1, <3>2, PermitsSame, Zenon
  <2> QED BY <1>15, <2>1, <2>2, Zenon
<1>16. CASE Tick \/ Snapshot
  BY <1>1, <1>16, ZenonT(60) DEF Tick, Snapshot, ingress
<1>17. CASE UNCHANGED vars
  BY <1>1, <1>17, ZenonT(60) DEF vars
<1> QED BY <1>9, <1>10, <1>11, <1>12, <1>13, <1>14, <1>15, <1>16, <1>17, ZenonT(60) DEF Next

(***************************************************************************)
(* All permits are there when the broker starts, and none is lost.          *)
(***************************************************************************)
LEMMA PermitsInvariant == Spec => [](IngressIInv /\ PermitsIInv)
<1>1. Init => PermitsIInv
  <2> SUFFICES ASSUME Init PROVE PermitsIInv
    BY Zenon
  <2>1. Live = {} /\ Reserving = {} /\ permits = MaxPending
    BY Zenon DEF Init, Live, Reserving, NoCall
  <2> QED BY <2>1, FS_EmptySet, TcpAssumption DEF PermitsIInv
<1>2. ConnectsIInv /\ NamesIInv /\ IngressIInv /\ PermitsIInv /\ [Next]_vars => PermitsIInv'
  BY PermitsNext, Zenon
<1> QED BY <1>1, <1>2, IngressInvariant, PTL DEF Spec

(***************************************************************************)
(* Every entry of the waiting lists is a live registration of its own.      *)
(***************************************************************************)
LEMMA EntriesBounded ==
    ASSUME IngressIInv, IsFiniteSet(Live)
    PROVE  Cardinality(UNION {{<<p, i>> : i \in 1..Len(waiting[p])} : p \in Port})
               \in 0..Cardinality(Live)
<1> DEFINE E == UNION {{<<p, i>> : i \in 1..Len(waiting[p])} : p \in Port}
           f == [e \in E |-> waiting[e[1]][e[2]]]
<1>1. ASSUME NEW e \in E
      PROVE  e[1] \in Port /\ e[2] \in 1..Len(waiting[e[1]]) /\ e = <<e[1], e[2]>>
  OBVIOUS
<1>2. ASSUME NEW e \in E
      PROVE  f[e] \in Live /\ reg[f[e]].port = e[1] /\ f[e] = waiting[e[1]][e[2]]
  BY <1>1 DEF IngressIInv, IngressTyped, WaitersLive, Live
<1>3. ASSUME NEW e \in E, NEW d \in E, f[e] = f[d] PROVE e = d
  <2> HIDE DEF E, f
  <2>1. e[1] = d[1]
    BY <1>2, <1>3
  <2>2. waiting[e[1]][e[2]] = waiting[e[1]][d[2]]
    BY <1>2, <1>3, <2>1, Zenon
  <2>3. IsInjective(waiting[e[1]]) /\ DOMAIN waiting[e[1]] = 1..Len(waiting[e[1]])
    BY <1>1 DEF IngressIInv, IngressTyped, WaitersLive
  <2>4. e[2] = d[2]
    BY <1>1, <2>1, <2>2, <2>3, Zenon DEF IsInjective
  <2> QED BY <1>1, <2>1, <2>4, ZenonT(60)
<1>4. f \in [E -> Live] /\ DOMAIN f = E
  BY <1>2, ZenonT(60)
<1> HIDE DEF E, f
<1>5. f \in Injection(E, Live)
  BY <1>3, <1>4, ZenonT(60) DEF Injection, IsInjective
<1>6. IsFiniteSet(E) /\ Cardinality(E) <= Cardinality(Live)
  BY <1>5, FS_Injection, ZenonT(60)
<1>7. Cardinality(E) \in Nat /\ Cardinality(Live) \in Nat
  BY <1>6, FS_CardinalityType, ZenonT(60)
<1>8. Cardinality(E) \in 0..Cardinality(Live)
  BY <1>6, <1>7
<1> QED BY <1>8, ZenonT(60) DEF E

(***************************************************************************)
(* No path through connect_tcp or its relay task loses or doubles a permit  *)
(* of Broker::pending (tcp.rs:89-93, 130, 150), and the permits bound the   *)
(* entries of the ingress (tcp_ingress.rs:40), for any number of connects,  *)
(* sockets and permits.                                                     *)
(***************************************************************************)
THEOREM PermitsAlwaysConserved == Spec => []PermitsConserved
<1>1. ASSUME IngressIInv, PermitsIInv PROVE PermitsConserved
  <2> DEFINE E == UNION {{<<p, i>> : i \in 1..Len(waiting[p])} : p \in Port}
  <2>1. /\ permits \in Nat /\ IsFiniteSet(Live) /\ IsFiniteSet(Reserving)
        /\ permits + Cardinality(Live) + Cardinality(Reserving) = MaxPending
    BY <1>1, ZenonT(60) DEF PermitsIInv
  <2>2. Cardinality(Live) \in Nat /\ Cardinality(Reserving) \in Nat
    BY <2>1, FS_CardinalityType, ZenonT(60)
  <2>3. Cardinality(E) \in 0..Cardinality(Live)
    BY <1>1, <2>1, EntriesBounded, ZenonT(60)
  <2> HIDE DEF E
  <2>4. /\ permits + (Cardinality(Live) + Cardinality(Reserving)) = MaxPending
        /\ Cardinality(E) <= MaxPending - permits
    BY <2>1, <2>2, <2>3
  <2> QED BY <2>4, ZenonT(60) DEF PermitsConserved, Live, Reserving, E
<1> QED BY <1>1, PermitsInvariant, PTL
===============================================================================
