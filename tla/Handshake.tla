------------------------------ MODULE Handshake ------------------------------
(***************************************************************************)
(* The proxy clients: the SOCKS5 client (proxy/socks5.rs) and the HTTP     *)
(* CONNECT client (proxy/http.rs) against a server, and ProxyStream        *)
(* (proxy/mod.rs), through which a relay then reads the tunnel.  The       *)
(* server's side of the connection is a sequence of items: one byte of a   *)
(* SOCKS5 message, one line of an HTTP response, or one byte of the tunnel *)
(* (a number, in the order sent).  The server may be slow, refuse, answer  *)
(* nonsense, close at any point, or send tunnel bytes with its last reply. *)
(***************************************************************************)
EXTENDS Naturals, Sequences

CONSTANTS
  MaxTunnel,   \* bound: tunnel bytes
  MaxHeaders,  \* bound: header lines of an HTTP response
  HostLens     \* lengths of domain names in SOCKS5 replies

ASSUME HandshakeAssumption ==
  MaxTunnel \in Nat /\ MaxHeaders \in Nat /\ HostLens \subseteq 0..255

VARIABLES
  kind,      \* "socks5" or "http"
  auth,      \* credentials: "none", "short", or "long" (over 255 bytes)
  target,    \* "ip", "domain", or "long" (a domain over 255 bytes)
  stage,     \* the client
  request,   \* the last message the client sent
  wire,      \* items sent by the server and not yet read
  closed,    \* the server has closed its side
  server,    \* what the server waits for; "tunnel" when it has answered
  headers,   \* header lines sent
  streamed,  \* tunnel bytes sent
  atyp,      \* address type in a SOCKS5 reply
  buffered,  \* BufReader's buffer, then ProxyStream's
  relayed    \* what the relay has read

setup     == <<kind, auth, target>>
remote    == <<closed, server, headers, streamed>>
proxyVars == <<setup, stage, request, wire, remote, atyp, buffered, relayed>>

HandshakeInit ==
  /\ kind \in {"socks5", "http"}
  /\ auth \in {"none", "short", "long"}
  /\ target \in {"ip", "domain", "long"}
  /\ stage = "start" /\ request = "nothing"
  /\ wire = <<>> /\ closed = FALSE
  /\ server = IF kind = "http" THEN "CONNECT" ELSE "greeting"
  /\ headers = 0 /\ streamed = 0 /\ atyp = "none"
  /\ buffered = <<>> /\ relayed = <<>>

-----------------------------------------------------------------------------
(* The server. *)

Item(name)  == [b |-> name, n |-> 0]
Byte(i)     == [b |-> "tunnel", n |-> i]
Say(items)  == wire' = wire \o items
Items(names) == [i \in DOMAIN names |-> Item(names[i])]

(* The server has the message it waits for, and answers. *)
Serve(awaited, next, items) ==
  /\ ~closed /\ request = awaited /\ server = awaited
  /\ server' = next
  /\ Say(items)
  /\ UNCHANGED <<setup, stage, request, closed, headers, streamed, atyp, buffered, relayed>>

(* BND.ADDR and BND.PORT of each address type. *)
Bound == [atyp : {"ipv4"}, len : {4}] \cup [atyp : {"ipv6"}, len : {16}]
           \cup [atyp : {"domain"}, len : HostLens]
BoundBytes(b) ==
  (IF b.atyp = "domain" THEN <<[b |-> "length", n |-> b.len]>> ELSE <<>>)
    \o [i \in 1..(b.len + 2) |-> Item("byte")]

SelectMethod ==
  \/ Serve("greeting", "connect", Items(<<"v5", "no_auth">>))
  \/ Serve("greeting", "auth", Items(<<"v5", "user_pass">>))
  \/ \E bad \in {<<"v5", "no_acceptable">>, <<"v5", "unknown">>, <<"v4", "no_auth">>} :
       Serve("greeting", "over", Items(bad))

Verify ==
  \/ Serve("auth", "connect", Items(<<"v1", "success">>))
  \/ Serve("auth", "over", Items(<<"v1", "failure">>))

Answer ==
  \/ \E b \in Bound :
       Serve("connect", "tunnel", Items(<<"v5", "success", "rsv", b.atyp>>) \o BoundBytes(b))
  \/ \E bad \in {<<"v5", "failure", "rsv", "ipv4">>, <<"v4", "success", "rsv", "ipv4">>,
                 <<"v5", "success", "rsv", "unknown">>} :
       Serve("connect", "over", Items(bad))

Status ==
  \/ Serve("CONNECT", "headers", Items(<<"200">>))
  \/ \E bad \in {"407", "not http"} : Serve("CONNECT", "over", Items(<<bad>>))

Header ==
  /\ ~closed /\ server = "headers"
  /\ \/ headers < MaxHeaders /\ Say(<<Item("header")>>) /\ headers' = headers + 1 /\ UNCHANGED server
     \/ Say(<<Item("blank")>>) /\ server' = "tunnel" /\ UNCHANGED headers
  /\ UNCHANGED <<setup, stage, request, closed, streamed, atyp, buffered, relayed>>

Tunnel ==
  /\ ~closed /\ server = "tunnel" /\ streamed < MaxTunnel
  /\ Say(<<Byte(streamed + 1)>>)
  /\ streamed' = streamed + 1
  /\ UNCHANGED <<setup, stage, request, closed, server, headers, atyp, buffered, relayed>>

Close ==
  /\ ~closed /\ closed' = TRUE
  /\ UNCHANGED <<setup, stage, request, wire, server, headers, streamed, atyp, buffered, relayed>>

Server == SelectMethod \/ Verify \/ Answer \/ Status \/ Header \/ Tunnel \/ Close

-----------------------------------------------------------------------------
(* The client. *)

Client == UNCHANGED <<setup, remote>>
Fail == stage' = "failed" /\ UNCHANGED request
Write(message, place) == request' = message /\ stage' = place
First(n) == SubSeq(wire, 1, n)
Take(n) == wire' = SubSeq(wire, n + 1, Len(wire))

(* TcpStream::connect, and the first message. *)
Start ==
  /\ stage = "start"
  /\ \/ Fail
     \/ kind = "socks5" /\ Write("greeting", "method")
     \/ kind = "http" /\ Write("CONNECT", "status")
  /\ Client /\ UNCHANGED <<wire, atyp, buffered, relayed>>

(* The first half of send_connect_request and of authenticate. *)
connect_request == IF target = "long" THEN Fail ELSE Write("connect", "reply")
auth_request == IF auth = "long" THEN Fail ELSE Write("auth", "verified")

negotiate_method ==
  /\ stage = "method" /\ Len(wire) >= 2 /\ Take(2)
  /\ IF wire[1].b = "v5" /\ wire[2].b = "no_auth" THEN connect_request
     ELSE IF wire[1].b = "v5" /\ wire[2].b = "user_pass" /\ auth # "none" THEN auth_request
     ELSE Fail
  /\ Client /\ UNCHANGED <<atyp, buffered, relayed>>

authenticate ==
  /\ stage = "verified" /\ Len(wire) >= 2 /\ Take(2)
  /\ IF wire[2].b = "success" THEN connect_request ELSE Fail
  /\ Client /\ UNCHANGED <<atyp, buffered, relayed>>

connect_reply ==
  /\ stage = "reply" /\ Len(wire) >= 4 /\ Take(4)
  /\ IF wire[1].b = "v5" /\ wire[2].b = "success" /\ wire[4].b \in {"ipv4", "ipv6", "domain"}
     THEN stage' = "skip" /\ atyp' = wire[4].b /\ UNCHANGED request
     ELSE Fail /\ UNCHANGED atyp
  /\ Client /\ UNCHANGED <<buffered, relayed>>

(* The bytes skip_addr reads; for a domain the first of them is a length. *)
Bug_NoPort == IF atyp = "ipv4" THEN 6 ELSE IF atyp = "ipv6" THEN 18 ELSE 1 + wire[1].n
bound_size == IF atyp = "ipv4" THEN 6 ELSE IF atyp = "ipv6" THEN 18 ELSE 1 + wire[1].n + 2

skip_addr ==
  /\ stage = "skip" /\ wire # <<>> /\ Len(wire) >= bound_size /\ Take(bound_size)
  /\ stage' = "open"
  /\ Client /\ UNCHANGED <<request, atyp, buffered, relayed>>

(* read_exact meets the end of the stream. *)
ReadExactFails ==
  /\ closed
  /\ \/ stage \in {"method", "verified"} /\ Len(wire) < 2
     \/ stage = "reply" /\ Len(wire) < 4
     \/ stage = "skip" /\ (wire = <<>> \/ Len(wire) < bound_size)
  /\ Fail
  /\ Client /\ UNCHANGED <<wire, atyp, buffered, relayed>>

(* BufReader fills its empty buffer with whatever has arrived. *)
Fill ==
  /\ stage \in {"status", "headers"} /\ buffered = <<>>
  /\ \E n \in 1..Len(wire) : buffered' = First(n) /\ Take(n)
  /\ Client /\ UNCHANGED <<stage, request, atyp, relayed>>

(* What read_line ended with: a line, or nothing at the end of the stream. *)
LineIs(line) ==
  \/ buffered # <<>> /\ Head(buffered) = Item(line) /\ buffered' = Tail(buffered)
  \/ line = "eof" /\ buffered = <<>> /\ wire = <<>> /\ closed /\ UNCHANGED buffered

accepted == {"200"}

StatusLine ==
  /\ stage = "status"
  /\ \E line \in {"200", "407", "not http", "eof"} :
       LineIs(line) /\ stage' = IF line \in accepted THEN "headers" ELSE "failed"
  /\ Client /\ UNCHANGED <<request, wire, atyp, relayed>>

(* Headers end at the first blank line; so they do at the end of the stream. *)
HeaderLine ==
  /\ stage = "headers"
  /\ \E line \in {"header", "blank", "eof"} :
       LineIs(line) /\ stage' = IF line = "header" THEN "headers" ELSE "open"
  /\ Client /\ UNCHANGED <<request, wire, atyp, relayed>>

(* ProxyConfig::connect gives up after 32 seconds. *)
Connecting == stage \notin {"open", "failed", "eof"}
Timeout ==
  /\ Connecting /\ Fail
  /\ Client /\ UNCHANGED <<wire, atyp, buffered, relayed>>

(* ProxyStream::poll_read_ready. *)
Bug_InnerReady == wire # <<>> \/ closed
poll_read_ready == buffered # <<>> \/ wire # <<>> \/ closed

(* ProxyStream::try_read, with room for n items. *)
try_read(n) ==
  \/ /\ n <= Len(buffered)
     /\ relayed' = relayed \o SubSeq(buffered, 1, n)
     /\ buffered' = SubSeq(buffered, n + 1, Len(buffered))
     /\ UNCHANGED <<wire, stage>>
  \/ /\ buffered = <<>> /\ n <= Len(wire)
     /\ relayed' = relayed \o First(n)
     /\ Take(n)
     /\ UNCHANGED <<buffered, stage>>
  \/ /\ buffered = <<>> /\ wire = <<>> /\ closed
     /\ stage' = "eof"
     /\ UNCHANGED <<wire, buffered, relayed>>

Read ==
  /\ stage = "open" /\ poll_read_ready
  /\ \E n \in 1..(MaxTunnel + 1) : try_read(n)
  /\ Client /\ UNCHANGED <<request, atyp>>

Handshaking ==
  \/ Start \/ negotiate_method \/ authenticate \/ connect_reply \/ skip_addr
  \/ ReadExactFails \/ Fill \/ StatusLine \/ HeaderLine

HandshakeNext == Server \/ Handshaking \/ Timeout \/ Read

HandshakeSpec == HandshakeInit /\ [][HandshakeNext]_proxyVars

-----------------------------------------------------------------------------
(* The tunnel opens only when the server has accepted the request (the end *)
(* of the stream inside the headers of a 200 response counts as one), and  *)
(* the relay reads it exactly: what it has read, what was prefetched with  *)
(* the handshake and what is still to come are together the bytes the      *)
(* server sent through the tunnel, in order, with nothing of the handshake *)
(* among them (skip_addr's lengths; do_connect's prefetched bytes;         *)
(* ProxyStream's two sources).                                             *)
TunnelIntact ==
  stage \in {"open", "eof"} =>
    /\ server = "tunnel" \/ (server = "headers" /\ closed)
    /\ relayed \o buffered \o wire = [i \in 1..streamed |-> Byte(i)]

(* Every handshake ends, also against a server that stalls half-way.       *)
Settles == Connecting ~> ~Connecting

(* Every byte the server sent through an open tunnel is read, also when it *)
(* was prefetched and the socket stays idle (poll_read_ready).             *)
TunnelRead ==
  \A n \in 1..MaxTunnel : (stage = "open" /\ streamed >= n) ~> Len(relayed) >= n
=============================================================================
