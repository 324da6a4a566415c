---------------------------- MODULE LifecycleProofs ---------------------------
(***************************************************************************)
(* Proofs about beginnings and ends.  The tunnel through a proxy begins     *)
(* where the handshake ends: the relay reads exactly what the server sent   *)
(* into it, for any number of bytes and header lines and any length of a    *)
(* domain.  The supervisor exits only when the whole command tree is gone,  *)
(* with the command's status, for every number of processes.                *)
(***************************************************************************)
EXTENDS Handshake, Supervisor, TLAPS

(***************************************************************************)
(* The handshake as far as the connection tells.  What the client has still *)
(* to read begins with the n items of the handshake that s starts with, and *)
(* goes on with all that was sent through the tunnel.                       *)
(***************************************************************************)
Word == {"v5", "v4", "v1", "no_auth", "user_pass", "no_acceptable", "unknown", "success", "failure",
         "rsv", "ipv4", "ipv6", "domain", "length", "byte",
         "200", "407", "not http", "header", "blank", "tunnel"}

Thing == [b : Word, n : Nat]

Tunneled(s, n, k) == Len(s) = n + k /\ \A i \in 1..k : s[n + i] = Byte(i)

Agree(s, t, n) == \A i \in 1..n : s[i] = t[i]

Shifted(s, t, k, n) == \A i \in 1..n : s[i] = t[k + i]

Headers(s, from, n) == \A i \in (from + 1)..n : s[i] = Item("header")

Carries(s, n) == Tunneled(s, n, streamed)

Ahead == buffered \o wire

(* A reply of each kind, as far as the client looks at it.                  *)
Chosen ==
    \/ server = "greeting" /\ Carries(wire, 0)
    \/ server = "connect" /\ Carries(wire, 2) /\ wire[2].b = "no_auth"
    \/ server = "auth" /\ Carries(wire, 2) /\ wire[2].b = "user_pass"
    \/ server = "over" /\ Carries(wire, 2)
         /\ ~(wire[1].b = "v5" /\ wire[2].b \in {"no_auth", "user_pass"})

Verified ==
    \/ server = "auth" /\ Carries(wire, 0)
    \/ server = "connect" /\ Carries(wire, 2)
    \/ server = "over" /\ Carries(wire, 2) /\ wire[2].b # "success"

Size(bound) == IF bound.atyp = "domain" THEN bound.len + 3 ELSE bound.len + 2

BoundAt(at) ==
    \E bound \in Bound :
        /\ Carries(wire, at + Size(bound))
        /\ bound.atyp = "domain" => wire[at + 1].n = bound.len
        /\ IF at = 0 THEN atyp = bound.atyp ELSE wire[at].b = bound.atyp

Answered ==
    \/ server = "connect" /\ Carries(wire, 0)
    \/ server = "over" /\ Carries(wire, 4)
         /\ ~(wire[1].b = "v5" /\ wire[2].b = "success" /\ wire[4].b \in {"ipv4", "ipv6", "domain"})
    \/ server = "tunnel" /\ BoundAt(4)

(* After from items, header lines and, from the server's last word, a blank. *)
Lines(from) ==
    \E n \in Nat :
        /\ from <= n /\ Headers(Ahead, from, n)
        /\ \/ server = "headers" /\ Carries(Ahead, n)
           \/ server = "tunnel" /\ Carries(Ahead, n + 1) /\ Ahead[n + 1] = Item("blank")

Responded ==
    \/ server = "CONNECT" /\ Carries(Ahead, 0)
    \/ server = "over" /\ Carries(Ahead, 1) /\ Ahead[1] # Item("200")
    \/ Lines(1) /\ Ahead[1] = Item("200")

HandshakeIInv ==
    /\ wire \in Seq(Thing) /\ buffered \in Seq(Thing) /\ relayed \in Seq(Thing) /\ streamed \in Nat
    /\ server # "tunnel" => streamed = 0
    /\ stage \in {"start", "method", "verified", "reply", "skip"} => buffered = <<>> /\ relayed = <<>>
    /\ stage = "start" => Carries(wire, 0) /\ request = "nothing" /\ server \in {"greeting", "CONNECT"}
                         /\ (kind = "socks5" <=> server = "greeting")
    /\ stage = "method" => request = "greeting" /\ Chosen
    /\ stage = "verified" => request = "auth" /\ Verified
    /\ stage = "reply" => request = "connect" /\ Answered
    /\ stage = "skip" => server = "tunnel" /\ BoundAt(0)
    /\ stage = "status" => request = "CONNECT" /\ relayed = <<>> /\ Responded
    /\ stage = "headers" => relayed = <<>> /\ Lines(0)
    /\ TunnelIntact

(***************************************************************************)
(* Where the tunnel has not begun, the server's words come after the ones   *)
(* that are unread.                                                         *)
(***************************************************************************)
LEMMA Says ==
    ASSUME NEW s \in Seq(Thing), NEW said \in Seq(Thing)
    PROVE  /\ s \o said \in Seq(Thing) /\ Len(s \o said) = Len(s) + Len(said)
           /\ \A i \in 1..Len(s) : (s \o said)[i] = s[i]
           /\ \A i \in 1..Len(said) : (s \o said)[Len(s) + i] = said[i]
           /\ Len(s) = 0 => s \o said = said
OBVIOUS

(***************************************************************************)
(* What the server says are items: names, a length, bytes of the tunnel.    *)
(***************************************************************************)
LEMMA TwoItems ==
    ASSUME NEW a \in Word, NEW c \in Word
    PROVE  LET said == Items(<<a, c>>)
           IN  said \in Seq(Thing) /\ Len(said) = 2 /\ said[1].b = a /\ said[2].b = c
BY DEF Items, Item, Thing

(***************************************************************************)
(* The four bytes of a reply to CONNECT, before the bound address.          *)
(***************************************************************************)
LEMMA FourItems ==
    ASSUME NEW a \in Word, NEW c \in Word, NEW d \in Word, NEW e \in Word
    PROVE  LET said == Items(<<a, c, d, e>>)
           IN  /\ said \in Seq(Thing) /\ Len(said) = 4
               /\ said[1].b = a /\ said[2].b = c /\ said[4].b = e
BY DEF Items, Item, Thing

(***************************************************************************)
(* A line of an HTTP response.                                              *)
(***************************************************************************)
LEMMA OneItem ==
    ASSUME NEW a \in Word
    PROVE  /\ Items(<<a>>) \in Seq(Thing) /\ Len(Items(<<a>>)) = 1 /\ Items(<<a>>)[1] = Item(a)
           /\ Item(a) \in Thing /\ <<Item(a)>> \in Seq(Thing)
BY DEF Items, Item, Thing

(***************************************************************************)
(* The bound address of a reply, of each type and length, is as long as     *)
(* skip_addr takes it to be: for a domain the first byte says how long.     *)
(***************************************************************************)
LEMMA BoundItems ==
    ASSUME NEW bound \in Bound
    PROVE  /\ bound.len \in Nat /\ bound.atyp \in {"ipv4", "ipv6", "domain"}
           /\ bound.atyp = "ipv4" => bound.len = 4
           /\ bound.atyp = "ipv6" => bound.len = 16
           /\ BoundBytes(bound) \in Seq(Thing) /\ Len(BoundBytes(bound)) = Size(bound)
           /\ bound.atyp = "domain" => BoundBytes(bound)[1].n = bound.len
<1>1. /\ bound.len \in Nat /\ bound.atyp \in {"ipv4", "ipv6", "domain"}
      /\ bound.atyp = "ipv4" => bound.len = 4
      /\ bound.atyp = "ipv6" => bound.len = 16
  <2>1. CASE bound \in [atyp : {"ipv4"}, len : {4}]
      BY <2>1
  <2>2. CASE bound \in [atyp : {"ipv6"}, len : {16}]
      BY <2>2
  <2>3. CASE bound \in [atyp : {"domain"}, len : HostLens]
    <3>1. bound.atyp = "domain" /\ bound.len \in HostLens
        BY <2>3, Zenon
    <3>2. \A l \in HostLens : l \in Nat
        BY HandshakeAssumption
    <3> QED BY <3>1, <3>2, Zenon
  <2> QED BY <2>1, <2>2, <2>3, Zenon DEF Bound
<1> DEFINE bytes == [i \in 1..(bound.len + 2) |-> Item("byte")]
           length == [b |-> "length", n |-> bound.len]
           first == <<length>>
<1>2. bytes \in Seq(Thing) /\ Len(bytes) = bound.len + 2
  <2>1. Item("byte") \in Thing /\ bound.len + 2 \in Nat
      BY <1>1 DEF Item, Thing, Word
  <2> HIDE DEF Item
  <2> QED BY <2>1
<1>3. first \in Seq(Thing) /\ Len(first) = 1 /\ first[1].n = bound.len
  <2>1. length \in Thing /\ length.n = bound.len
      BY <1>1, Zenon DEF Thing, Word
  <2> HIDE DEF length
  <2> QED BY <2>1
<1>4. BoundBytes(bound) = (IF bound.atyp = "domain" THEN first ELSE <<>>) \o bytes
    BY Zenon DEF BoundBytes
<1> HIDE DEF bytes, first, length
<1>5. CASE bound.atyp = "domain"
  <2>1. /\ first \o bytes \in Seq(Thing) /\ Len(first \o bytes) = 1 + Len(bytes)
        /\ (first \o bytes)[1] = first[1]
      BY <1>2, <1>3, Says
  <2> QED BY <1>1, <1>2, <1>3, <1>4, <1>5, <2>1 DEF Size
<1>6. CASE bound.atyp # "domain"
  <2>1. <<>> \o bytes = bytes
      BY <1>2
  <2> QED BY <1>1, <1>2, <1>4, <1>6, <2>1, Zenon DEF Size
<1> QED BY <1>5, <1>6, Zenon

(* A bound address takes two bytes at least. *)
LEMMA BoundSize ==
    ASSUME NEW bound \in Bound
    PROVE  Size(bound) \in Nat /\ Size(bound) >= 2
<1>1. bound.len \in Nat
    BY BoundItems, Zenon
<1> QED BY <1>1 DEF Size

(***************************************************************************)
(* An answer of the server to the message it waited for.  The client has    *)
(* read everything the server said before.                                  *)
(***************************************************************************)
LEMMA ServedStep ==
    ASSUME HandshakeIInv, NEW awaited, NEW next, NEW said \in Seq(Thing), Serve(awaited, next, said),
           awaited \in {"greeting", "auth", "connect", "CONNECT"}, next # awaited
    PROVE  /\ wire' \in Seq(Thing) /\ streamed = 0 /\ request' = awaited /\ server' = next
           /\ UNCHANGED <<setup, stage, streamed, atyp, buffered, relayed>>
           /\ stage \in {"method", "verified", "reply"} => wire' = said
           /\ stage = "status" => (buffered \o wire)' = said
           /\ stage \notin {"start", "skip", "headers", "open", "eof"}
           /\ stage = "method" => awaited = "greeting"
           /\ stage = "verified" => awaited = "auth"
           /\ stage = "reply" => awaited = "connect"
           /\ stage = "status" => awaited = "CONNECT"
<1>1. /\ wire' = wire \o said /\ server = awaited /\ request = awaited /\ server' = next
      /\ UNCHANGED <<setup, stage, request, streamed, atyp, buffered, relayed>>
    BY Zenon DEF Serve, Say
<1>2. wire \in Seq(Thing) /\ buffered \in Seq(Thing) /\ streamed = 0
    BY <1>1, Zenon DEF HandshakeIInv
<1>3. wire \o said \in Seq(Thing) /\ (Len(wire) = 0 => wire \o said = said)
    BY <1>2, Says, Zenon
<1>4. stage \notin {"start", "skip", "headers", "open", "eof"}
    BY <1>1, Zenon DEF HandshakeIInv, Lines, TunnelIntact
<1>5. stage \in {"method", "verified", "reply"} => Len(wire) = 0
    BY <1>1, <1>2 DEF HandshakeIInv, Chosen, Verified, Answered, Carries, Tunneled
<1>6. ASSUME stage = "status" PROVE buffered \o (wire \o said) = said
  <2>1. Len(buffered \o wire) = 0
      BY <1>1, <1>2, <1>6 DEF HandshakeIInv, Responded, Lines, Carries, Tunneled, Ahead
  <2>2. Len(wire) = 0 /\ Len(buffered) = 0
      BY <1>2, <2>1
  <2> QED BY <1>2, <1>3, <2>2, Says, Zenon
<1>7. /\ stage = "method" => request = "greeting"
      /\ stage = "verified" => request = "auth"
      /\ stage = "reply" => request = "connect"
      /\ stage = "status" => request = "CONNECT"
    BY Zenon DEF HandshakeIInv
<1> QED BY <1>1, <1>2, <1>3, <1>4, <1>5, <1>6, <1>7, Zenon

(***************************************************************************)
(* SOCKS5 method selection, authentication and reply, as the server gives   *)
(* them.                                                                    *)
(***************************************************************************)
LEMMA Selected ==
    ASSUME HandshakeIInv, NEW a \in Word, NEW c \in Word, NEW next,
           Serve("greeting", next, Items(<<a, c>>)),
           \/ next = "connect" /\ c = "no_auth"
           \/ next = "auth" /\ c = "user_pass"
           \/ next = "over" /\ ~(a = "v5" /\ c \in {"no_auth", "user_pass"})
    PROVE  HandshakeIInv'
<1> DEFINE said == Items(<<a, c>>)
<1>1. said \in Seq(Thing) /\ Len(said) = 2 /\ said[1].b = a /\ said[2].b = c
    BY TwoItems, Zenon
<1> HIDE DEF said
<1>2. /\ wire' \in Seq(Thing) /\ streamed = 0 /\ request' = "greeting" /\ server' = next
      /\ UNCHANGED <<setup, stage, streamed, atyp, buffered, relayed>>
      /\ stage = "method" => wire' = said
      /\ stage \notin {"start", "skip", "headers", "open", "eof", "verified", "reply", "status"}
  <2>1. Serve("greeting", next, said) /\ next # "greeting"
      BY Zenon DEF said
  <2> QED BY <1>1, <2>1, ServedStep
<1>3. stage = "method" => Chosen'
    BY <1>1, <1>2 DEF Chosen, Carries, Tunneled
<1> QED BY <1>2, <1>3, Zenon DEF HandshakeIInv, TunnelIntact

(***************************************************************************)
(* Each choice of method the server may send keeps the invariant.           *)
(***************************************************************************)
LEMMA SelectMethodStep == ASSUME HandshakeIInv, SelectMethod PROVE HandshakeIInv'
<1>1. {"v5", "v4", "no_auth", "user_pass", "no_acceptable", "unknown"} \subseteq Word
    BY Zenon DEF Word
<1>2. CASE Serve("greeting", "connect", Items(<<"v5", "no_auth">>))
    BY <1>1, <1>2, Selected, Zenon
<1>3. CASE Serve("greeting", "auth", Items(<<"v5", "user_pass">>))
    BY <1>1, <1>3, Selected, Zenon
<1>4. CASE Serve("greeting", "over", Items(<<"v5", "no_acceptable">>))
    BY <1>1, <1>4, Selected, Zenon
<1>5. CASE Serve("greeting", "over", Items(<<"v5", "unknown">>))
    BY <1>1, <1>5, Selected, Zenon
<1>6. CASE Serve("greeting", "over", Items(<<"v4", "no_auth">>))
    BY <1>1, <1>6, Selected, Zenon
<1> QED BY <1>2, <1>3, <1>4, <1>5, <1>6, Zenon DEF SelectMethod

(***************************************************************************)
(* The server's word on the credentials.                                    *)
(***************************************************************************)
LEMMA VerifyStep == ASSUME HandshakeIInv, Verify PROVE HandshakeIInv'
<1>1. ASSUME NEW c \in Word, NEW next, Serve("auth", next, Items(<<"v1", c>>)),
             next = "connect" \/ (next = "over" /\ c # "success")
      PROVE  HandshakeIInv'
  <2> DEFINE said == Items(<<"v1", c>>)
  <2>1. said \in Seq(Thing) /\ Len(said) = 2 /\ said[2].b = c
    <3>1. "v1" \in Word
        BY Zenon DEF Word
    <3> QED BY <3>1, TwoItems, ZenonT(60)
  <2> HIDE DEF said
  <2>2. /\ wire' \in Seq(Thing) /\ streamed = 0 /\ request' = "auth" /\ server' = next
        /\ UNCHANGED <<setup, stage, streamed, atyp, buffered, relayed>>
        /\ stage = "verified" => wire' = said
        /\ stage \notin {"start", "skip", "headers", "open", "eof", "method", "reply", "status"}
    <3>1. Serve("auth", next, said) /\ next # "auth"
        BY <1>1, Zenon DEF said
    <3> QED BY <2>1, <3>1, ServedStep
  <2>3. stage = "verified" => Verified'
      BY <1>1, <2>1, <2>2 DEF Verified, Carries, Tunneled
  <2> QED BY <1>1, <2>2, <2>3, Zenon DEF HandshakeIInv, TunnelIntact
<1>2. "success" \in Word /\ "failure" \in Word
    BY Zenon DEF Word
<1>3. CASE Serve("auth", "connect", Items(<<"v1", "success">>))
    BY <1>1, <1>2, <1>3, Zenon
<1>4. CASE Serve("auth", "over", Items(<<"v1", "failure">>))
    BY <1>1, <1>2, <1>4, Zenon
<1> QED BY <1>3, <1>4, Zenon DEF Verify

(***************************************************************************)
(* The server's reply to the CONNECT of SOCKS5: an acceptance, with a bound *)
(* address of any type and length, or a refusal.                            *)
(***************************************************************************)
LEMMA Accepted ==
    ASSUME HandshakeIInv, NEW bound \in Bound,
           Serve("connect", "tunnel", Items(<<"v5", "success", "rsv", bound.atyp>>) \o BoundBytes(bound))
    PROVE  HandshakeIInv'
<1> DEFINE head == Items(<<"v5", "success", "rsv", bound.atyp>>)
           said == head \o BoundBytes(bound)
<1>1. /\ bound.len \in Nat /\ bound.atyp \in {"ipv4", "ipv6", "domain"}
      /\ BoundBytes(bound) \in Seq(Thing) /\ Len(BoundBytes(bound)) = Size(bound)
      /\ bound.atyp = "domain" => BoundBytes(bound)[1].n = bound.len
    BY BoundItems, Zenon
<1>2. Size(bound) \in Nat /\ Size(bound) >= 1
    BY <1>1 DEF Size
<1>3. head \in Seq(Thing) /\ Len(head) = 4 /\ head[4].b = bound.atyp
  <2>1. {"v5", "success", "rsv", "ipv4", "ipv6", "domain"} \subseteq Word
      BY Zenon DEF Word
  <2> QED BY <1>1, <2>1, FourItems
<1> HIDE DEF head
<1>4. /\ said \in Seq(Thing) /\ Len(said) = 4 + Size(bound)
      /\ said[4] = head[4] /\ said[5] = BoundBytes(bound)[1]
  <2>1. /\ said \in Seq(Thing) /\ Len(said) = Len(head) + Len(BoundBytes(bound))
        /\ \A i \in 1..Len(head) : said[i] = head[i]
        /\ \A i \in 1..Len(BoundBytes(bound)) : said[Len(head) + i] = BoundBytes(bound)[i]
      BY <1>1, <1>3, Says, ZenonT(60)
  <2> HIDE DEF said
  <2>2. 4 \in 1..Len(head) /\ 1 \in 1..Len(BoundBytes(bound)) /\ Len(head) + 1 = 5
      BY <1>1, <1>2, <1>3
  <2> QED BY <1>1, <1>3, <2>1, <2>2, Zenon
<1> HIDE DEF said
<1>5. /\ wire' \in Seq(Thing) /\ streamed = 0 /\ request' = "connect" /\ server' = "tunnel"
      /\ UNCHANGED <<setup, stage, streamed, atyp, buffered, relayed>>
      /\ stage = "reply" => wire' = said
      /\ stage \notin {"start", "skip", "headers", "open", "eof", "method", "verified", "status"}
  <2>1. Serve("connect", "tunnel", said)
      BY Zenon DEF said, head
  <2> QED BY <1>4, <2>1, ServedStep
<1>6. ASSUME stage = "reply" PROVE BoundAt(4)'
  <2>1. Len(wire') = 4 + Size(bound) + streamed' /\ streamed' = 0 /\ wire'[4].b = bound.atyp
        /\ (bound.atyp = "domain" => wire'[4 + 1].n = bound.len)
      BY <1>1, <1>2, <1>3, <1>4, <1>5, <1>6
  <2> QED BY <2>1 DEF BoundAt, Carries, Tunneled
<1> QED BY <1>5, <1>6, Zenon DEF HandshakeIInv, TunnelIntact, Answered

(***************************************************************************)
(* A reply to CONNECT that the client must refuse: a wrong version, a       *)
(* failure, or a type of address it does not know.                          *)
(***************************************************************************)
LEMMA Refused ==
    ASSUME HandshakeIInv, NEW a \in Word, NEW c \in Word, NEW e \in Word,
           Serve("connect", "over", Items(<<a, c, "rsv", e>>)),
           ~(a = "v5" /\ c = "success" /\ e \in {"ipv4", "ipv6", "domain"})
    PROVE  HandshakeIInv'
<1> DEFINE said == Items(<<a, c, "rsv", e>>)
<1>1. said \in Seq(Thing) /\ Len(said) = 4 /\ said[1].b = a /\ said[2].b = c /\ said[4].b = e
  <2>1. "rsv" \in Word
      BY Zenon DEF Word
  <2> QED BY <2>1, FourItems
<1> HIDE DEF said
<1>2. /\ wire' \in Seq(Thing) /\ streamed = 0 /\ request' = "connect" /\ server' = "over"
      /\ UNCHANGED <<setup, stage, streamed, atyp, buffered, relayed>>
      /\ stage = "reply" => wire' = said
      /\ stage \notin {"start", "skip", "headers", "open", "eof", "method", "verified", "status"}
  <2>1. Serve("connect", "over", said)
      BY Zenon DEF said
  <2> QED BY <1>1, <2>1, ServedStep
<1>3. stage = "reply" => Answered'
    BY <1>1, <1>2 DEF Answered, Carries, Tunneled
<1> QED BY <1>2, <1>3, Zenon DEF HandshakeIInv, TunnelIntact

(***************************************************************************)
(* Each reply to CONNECT the server may send keeps the invariant.           *)
(***************************************************************************)
LEMMA AnswerStep == ASSUME HandshakeIInv, Answer PROVE HandshakeIInv'
<1>1. {"v5", "v4", "success", "failure", "ipv4", "unknown"} \subseteq Word
    BY Zenon DEF Word
<1>2. ASSUME NEW b \in Bound,
             Serve("connect", "tunnel", Items(<<"v5", "success", "rsv", b.atyp>>) \o BoundBytes(b))
      PROVE  HandshakeIInv'
    BY <1>2, Accepted, Zenon
<1>3. CASE Serve("connect", "over", Items(<<"v5", "failure", "rsv", "ipv4">>))
    BY <1>1, <1>3, Refused, Zenon
<1>4. CASE Serve("connect", "over", Items(<<"v4", "success", "rsv", "ipv4">>))
    BY <1>1, <1>4, Refused, Zenon
<1>5. CASE Serve("connect", "over", Items(<<"v5", "success", "rsv", "unknown">>))
    BY <1>1, <1>5, Refused, Zenon
<1> QED BY <1>2, <1>3, <1>4, <1>5, Zenon DEF Answer

(***************************************************************************)
(* The status line of an HTTP proxy.                                        *)
(***************************************************************************)
LEMMA StatusStep == ASSUME HandshakeIInv, Status PROVE HandshakeIInv'
<1>1. ASSUME NEW a \in Word, NEW next, Serve("CONNECT", next, Items(<<a>>)),
             (next = "headers" /\ a = "200") \/ (next = "over" /\ a # "200")
      PROVE  HandshakeIInv'
  <2> DEFINE said == Items(<<a>>)
  <2>1. said \in Seq(Thing) /\ Len(said) = 1 /\ said[1] = Item(a)
      BY OneItem, Zenon
  <2>2. a # "200" => Item(a) # Item("200")
      BY Zenon DEF Item
  <2> HIDE DEF said
  <2>3. /\ wire' \in Seq(Thing) /\ streamed = 0 /\ request' = "CONNECT" /\ server' = next
        /\ UNCHANGED <<setup, stage, streamed, atyp, buffered, relayed>>
        /\ stage = "status" => Ahead' = said
        /\ stage \notin {"start", "skip", "headers", "open", "eof", "method", "verified", "reply"}
    <3>1. Serve("CONNECT", next, said) /\ next # "CONNECT"
        BY <1>1, Zenon DEF said
    <3> QED BY <2>1, <3>1, ServedStep DEF Ahead
  <2>4. ASSUME stage = "status" PROVE Responded'
    <3>1. Len(Ahead') = 1 + streamed' /\ streamed' = 0 /\ Ahead'[1] = Item(a)
        BY <2>1, <2>3, <2>4
    <3>2. CASE next = "over" /\ a # "200"
        BY <2>2, <2>3, <3>1, <3>2 DEF Responded, Carries, Tunneled
    <3>3. CASE next = "headers" /\ a = "200"
      <4>1. Lines(1)'
          BY <2>3, <3>1, <3>3 DEF Lines, Headers, Carries, Tunneled
      <4> QED BY <3>1, <3>3, <4>1, Zenon DEF Responded
    <3> QED BY <1>1, <3>2, <3>3, Zenon
  <2> QED BY <1>1, <2>3, <2>4, Zenon DEF HandshakeIInv, TunnelIntact
<1>2. "200" \in Word /\ "407" \in Word /\ "not http" \in Word
    BY Zenon DEF Word
<1>3. CASE Serve("CONNECT", "headers", Items(<<"200">>))
    BY <1>1, <1>2, <1>3, Zenon
<1>4. CASE \E bad \in {"407", "not http"} : Serve("CONNECT", "over", Items(<<bad>>))
    BY <1>1, <1>2, <1>4, Zenon
<1> QED BY <1>3, <1>4, Zenon DEF Status

(***************************************************************************)
(* One more item on the wire is one more item unread.                       *)
(***************************************************************************)
LEMMA OneMore ==
    ASSUME NEW x \in Seq(Thing), NEW y \in Seq(Thing), NEW item \in Thing
    PROVE  LET more == x \o (y \o <<item>>)
           IN  /\ y \o <<item>> \in Seq(Thing) /\ more \in Seq(Thing)
               /\ Len(x \o y) \in Nat /\ Len(more) = Len(x \o y) + 1
               /\ \A i \in 1..Len(x \o y) : more[i] = (x \o y)[i]
               /\ more[Len(x \o y) + 1] = item
OBVIOUS

(***************************************************************************)
(* A header line, or the blank line after which the tunnel begins.          *)
(***************************************************************************)
LEMMA HeaderStep == ASSUME HandshakeIInv, Header PROVE HandshakeIInv'
<1>1. PICK line \in {"header", "blank"} :
         /\ wire' = wire \o <<Item(line)>>
         /\ server' = IF line = "header" THEN "headers" ELSE "tunnel"
    BY Zenon DEF Header, Say
<1>2. /\ ~closed /\ server = "headers"
      /\ UNCHANGED <<setup, stage, request, closed, streamed, atyp, buffered, relayed>>
    BY Zenon DEF Header
<1>3. wire \in Seq(Thing) /\ buffered \in Seq(Thing) /\ streamed = 0
    BY <1>2, Zenon DEF HandshakeIInv
<1>4. Item(line) \in Thing
    BY OneItem, ZenonT(60) DEF Word
<1>5. stage \notin {"start", "method", "verified", "reply", "skip", "open", "eof"}
    BY <1>2, Zenon DEF HandshakeIInv, Chosen, Verified, Answered, TunnelIntact
<1>6. /\ wire' \in Seq(Thing) /\ Len(Ahead) \in Nat /\ Len(Ahead') = Len(Ahead) + 1
      /\ \A i \in 1..Len(Ahead) : Ahead'[i] = Ahead[i]
      /\ Ahead'[Len(Ahead) + 1] = Item(line)
    BY <1>1, <1>2, <1>3, <1>4, OneMore DEF Ahead
<1>7. ASSUME NEW from \in 0..1, Lines(from) PROVE Lines(from)'
  <2>1. PICK n \in Nat : /\ from <= n /\ Headers(Ahead, from, n)
                         /\ Len(Ahead) = n
    <3>1. PICK n \in Nat : /\ from <= n /\ Headers(Ahead, from, n)
                           /\ Carries(Ahead, n)
        BY <1>2, <1>7, Zenon DEF Lines
    <3>2. Len(Ahead) = n
        BY <1>3, <3>1 DEF Carries, Tunneled
    <3> QED BY <3>1, <3>2, Zenon
  <2>2. CASE line = "header"
    <3>1. Headers(Ahead', from, n + 1)
        BY <1>6, <2>1, <2>2 DEF Headers
    <3>2. server' = "headers" /\ streamed' = 0 /\ Len(Ahead') = n + 1 + streamed' /\ n + 1 \in Nat /\ from <= n + 1
        BY <1>1, <1>2, <1>3, <1>6, <2>1, <2>2
    <3> QED BY <3>1, <3>2 DEF Lines, Carries, Tunneled
  <2>3. CASE line = "blank"
    <3>1. Headers(Ahead', from, n)
        BY <1>6, <2>1 DEF Headers
    <3>2. server' = "tunnel" /\ streamed' = 0 /\ Len(Ahead') = n + 1 + streamed' /\ Ahead'[n + 1] = Item("blank")
        BY <1>1, <1>2, <1>3, <1>6, <2>1, <2>3
    <3> QED BY <2>1, <3>1, <3>2 DEF Lines, Carries, Tunneled
  <2> QED BY <2>2, <2>3, Zenon
<1>8. ASSUME stage = "status" PROVE Responded'
  <2>1. Lines(1) /\ Ahead[1] = Item("200")
      BY <1>2, <1>8, Zenon DEF HandshakeIInv, Responded
  <2>2. 1 \in 1..Len(Ahead)
      BY <1>2, <1>3, <1>6, <2>1 DEF Lines, Carries, Tunneled
  <2> QED BY <1>6, <1>7, <2>1, <2>2 DEF Responded
<1>9. stage = "headers" => Lines(0)'
    BY <1>7 DEF HandshakeIInv
<1> QED BY <1>2, <1>3, <1>5, <1>6, <1>8, <1>9, Zenon DEF HandshakeIInv, TunnelIntact

(***************************************************************************)
(* The bytes of the tunnel are items.  A sequence is the tunnel's bytes if  *)
(* it has their number and each in its place, and one more goes at the end. *)
(***************************************************************************)
LEMMA TunnelItems ==
    ASSUME NEW k \in Nat, NEW s \in Seq(Thing)
    PROVE  (s = [i \in 1..k |-> Byte(i)]) <=> (Len(s) = k /\ \A i \in 1..k : s[i] = Byte(i))
OBVIOUS

(***************************************************************************)
(* A byte of the tunnel is an item of the connection.                       *)
(***************************************************************************)
LEMMA ByteItem == ASSUME NEW i \in Nat PROVE Byte(i) \in Thing
BY Zenon DEF Byte, Thing, Word

(***************************************************************************)
(* The next byte sent through the tunnel goes after those before it,        *)
(* whatever is left of the handshake in front of them.                      *)
(***************************************************************************)
LEMMA NextByte ==
    ASSUME NEW k \in Nat, NEW n \in Nat, NEW x \in Seq(Thing), NEW y \in Seq(Thing),
           Tunneled(x \o y, n, k)
    PROVE  /\ Tunneled(x \o (y \o <<Byte(k + 1)>>), n, k + 1)
           /\ x \o (y \o <<Byte(k + 1)>>) \in Seq(Thing)
           /\ Agree(x \o (y \o <<Byte(k + 1)>>), x \o y, n)
<1> DEFINE item == Byte(k + 1)
           more == x \o (y \o <<item>>)
           s == x \o y
<1>1. item \in Thing
  <2>1. k + 1 \in Nat
      OBVIOUS
  <2> QED BY <2>1, ByteItem, Zenon
<1> HIDE DEF item
<1>2. /\ more \in Seq(Thing) /\ Len(more) = Len(s) + 1 /\ Len(s) \in Nat
      /\ \A i \in 1..Len(s) : more[i] = s[i]
      /\ more[Len(s) + 1] = item
    BY <1>1, OneMore
<1>3. Len(s) = n + k /\ \A i \in 1..k : s[n + i] = Byte(i)
    BY Zenon DEF Tunneled
<1> HIDE DEF more, s
<1>4. ASSUME NEW i \in 1..(k + 1) PROVE more[n + i] = Byte(i)
  <2>1. CASE i = k + 1
    <3>1. n + i = Len(s) + 1
        BY <1>3, <2>1
    <3> QED BY <1>2, <2>1, <3>1, Zenon DEF item
  <2>2. CASE i # k + 1
    <3>1. i \in 1..k /\ n + i \in 1..Len(s)
        BY <1>3, <2>2
    <3> QED BY <1>2, <1>3, <3>1, Zenon
  <2> QED BY <2>1, <2>2, Zenon
<1>5. \A i \in 1..n : i \in 1..Len(s)
    BY <1>3
<1>6. Len(more) = n + (k + 1)
    BY <1>2, <1>3
<1>7. Tunneled(more, n, k + 1)
    BY <1>4, <1>6, Zenon DEF Tunneled
<1>8. Agree(more, s, n)
    BY <1>2, <1>5, Zenon DEF Agree
<1> QED BY <1>2, <1>7, <1>8, Zenon DEF more, s, item

(***************************************************************************)
(* A byte of the tunnel, also while the client still reads the handshake.   *)
(***************************************************************************)
LEMMA TunnelStep == ASSUME HandshakeIInv, Tunnel PROVE HandshakeIInv'
<1>1. /\ server = "tunnel" /\ wire' = wire \o <<Byte(streamed + 1)>> /\ streamed' = streamed + 1
      /\ UNCHANGED <<setup, stage, request, closed, server, atyp, buffered, relayed>>
    BY Zenon DEF Tunnel, Say
<1>2. wire \in Seq(Thing) /\ buffered \in Seq(Thing) /\ relayed \in Seq(Thing) /\ streamed \in Nat
    BY Zenon DEF HandshakeIInv
<1>3. <<>> \in Seq(Thing) /\ \A s \in Seq(Thing) : <<>> \o s = s
    OBVIOUS
<1>4. wire' \in Seq(Thing)
  <2>1. streamed + 1 \in Nat
      BY <1>2
  <2>2. Byte(streamed + 1) \in Thing
      BY <2>1, ByteItem, Zenon
  <2> QED BY <1>1, <1>2, <2>2
<1>5. ASSUME NEW n \in Nat, Carries(wire, n)
      PROVE  Carries(wire, n)' /\ \A i \in 1..n : wire'[i] = wire[i]
  <2>1. wire = <<>> \o wire /\ wire' = <<>> \o (wire \o <<Byte(streamed + 1)>>)
      BY <1>1, <1>2, <1>3, <1>4, Zenon
  <2>2. Tunneled(<<>> \o wire, n, streamed)
      BY <1>5, <2>1, Zenon DEF Carries
  <2>3. Tunneled(<<>> \o (wire \o <<Byte(streamed + 1)>>), n, streamed + 1)
      BY <1>2, <1>3, <2>2, NextByte, Zenon
  <2>4. Agree(<<>> \o (wire \o <<Byte(streamed + 1)>>), <<>> \o wire, n)
      BY <1>2, <1>3, <2>2, NextByte, Zenon
  <2> QED BY <1>1, <2>1, <2>3, <2>4, Zenon DEF Agree, Carries
<1>6. ASSUME NEW n \in Nat, Carries(Ahead, n)
      PROVE  Carries(Ahead, n)' /\ \A i \in 1..n : Ahead'[i] = Ahead[i]
  <2>1. Ahead' = buffered \o (wire \o <<Byte(streamed + 1)>>)
      BY <1>1, Zenon DEF Ahead
  <2>2. Tunneled(buffered \o wire, n, streamed)
      BY <1>6, Zenon DEF Carries, Ahead
  <2>3. Tunneled(buffered \o (wire \o <<Byte(streamed + 1)>>), n, streamed + 1)
      BY <1>2, <2>2, NextByte, Zenon
  <2>4. Agree(buffered \o (wire \o <<Byte(streamed + 1)>>), buffered \o wire, n)
      BY <1>2, <2>2, NextByte, Zenon
  <2> QED BY <1>1, <2>1, <2>3, <2>4, Zenon DEF Agree, Carries, Ahead
<1>7. ASSUME NEW at \in {0, 4}, BoundAt(at) PROVE BoundAt(at)'
  <2>1. PICK bound \in Bound :
           /\ Carries(wire, at + Size(bound))
           /\ bound.atyp = "domain" => wire[at + 1].n = bound.len
           /\ IF at = 0 THEN atyp = bound.atyp ELSE wire[at].b = bound.atyp
      BY <1>7, Zenon DEF BoundAt
  <2>2. at + Size(bound) \in Nat /\ at + 1 \in 1..(at + Size(bound))
        /\ (at # 0 => at \in 1..(at + Size(bound)))
      BY BoundSize
  <2>3. Carries(wire, at + Size(bound))' /\ \A i \in 1..(at + Size(bound)) : wire'[i] = wire[i]
      BY <1>5, <2>1, <2>2, Zenon
  <2>4. /\ bound.atyp = "domain" => wire'[at + 1].n = bound.len
        /\ IF at = 0 THEN atyp' = bound.atyp ELSE wire'[at].b = bound.atyp
      BY <1>1, <2>1, <2>2, <2>3, Zenon
  <2> QED BY <2>3, <2>4, Zenon DEF BoundAt
<1>8. ASSUME NEW from \in 0..1, Lines(from)
      PROVE  Lines(from)' /\ (from = 1 => Ahead'[1] = Ahead[1])
  <2>1. PICK n \in Nat : /\ from <= n /\ Headers(Ahead, from, n)
                         /\ Carries(Ahead, n + 1) /\ Ahead[n + 1] = Item("blank")
      BY <1>1, <1>8, Zenon DEF Lines
  <2>2. Carries(Ahead, n + 1)' /\ \A i \in 1..(n + 1) : Ahead'[i] = Ahead[i]
      BY <1>6, <2>1
  <2>3. /\ Headers(Ahead', from, n)
        /\ Ahead'[n + 1] = Item("blank") /\ Ahead'[1] = Ahead[1]
      BY <2>1, <2>2 DEF Headers
  <2> QED BY <1>1, <2>1, <2>2, <2>3, Zenon DEF Lines
<1>9. ASSUME stage \in {"open", "eof"} PROVE TunnelIntact'
  <2> DEFINE x == relayed \o buffered
             s == x \o wire
             more == x \o (wire \o <<Byte(streamed + 1)>>)
  <2>1. x \in Seq(Thing) /\ s \in Seq(Thing)
      BY <1>2
  <2>2. s = [i \in 1..streamed |-> Byte(i)]
      BY <1>9, Zenon DEF HandshakeIInv, TunnelIntact
  <2>3. Tunneled(s, 0, streamed)
    <3> HIDE DEF s
    <3> QED BY <1>2, <2>1, <2>2, TunnelItems DEF Tunneled
  <2>4. more \in Seq(Thing) /\ Tunneled(more, 0, streamed + 1)
    <3> HIDE DEF x
    <3> QED BY <1>2, <2>1, <2>3, NextByte, Zenon
  <2>5. more = [i \in 1..(streamed + 1) |-> Byte(i)]
    <3> HIDE DEF more
    <3>1. Len(more) = streamed + 1 /\ \A i \in 1..(streamed + 1) : more[i] = Byte(i) /\ streamed + 1 \in Nat
        BY <1>2, <2>4 DEF Tunneled
    <3> QED BY <2>4, <3>1, TunnelItems
  <2> QED BY <1>1, <2>5, Zenon DEF TunnelIntact
<1>10. /\ stage \notin {"start", "method", "verified"}
       /\ stage = "reply" => BoundAt(4) /\ request = "connect"
       /\ stage = "skip" => BoundAt(0)
       /\ stage = "status" => Lines(1) /\ Ahead[1] = Item("200") /\ request = "CONNECT" /\ relayed = <<>>
       /\ stage = "headers" => Lines(0) /\ relayed = <<>>
       /\ stage \in {"reply", "skip"} => buffered = <<>> /\ relayed = <<>>
    BY <1>1, Zenon DEF HandshakeIInv, Chosen, Verified, Answered, Responded
<1>11. /\ stage = "reply" => Answered'
       /\ stage = "skip" => BoundAt(0)'
       /\ stage = "status" => Responded'
       /\ stage = "headers" => Lines(0)'
    BY <1>1, <1>7, <1>8, <1>10 DEF Answered, Responded
<1>12. stage \notin {"open", "eof"} => TunnelIntact'
    BY <1>1, Zenon DEF TunnelIntact
<1> QED BY <1>1, <1>2, <1>4, <1>9, <1>10, <1>11, <1>12 DEF HandshakeIInv

(***************************************************************************)
(* The end of the stream changes nothing that was said.                     *)
(***************************************************************************)
LEMMA CloseStep == ASSUME HandshakeIInv, Close PROVE HandshakeIInv'
<1>1. /\ closed' = TRUE
      /\ UNCHANGED <<setup, stage, request, wire, server, headers, streamed, atyp, buffered, relayed>>
    BY Zenon DEF Close
<1>2. /\ Chosen' = Chosen /\ Verified' = Verified /\ Answered' = Answered
      /\ Responded' = Responded /\ BoundAt(0)' = BoundAt(0) /\ Lines(0)' = Lines(0)
      /\ Carries(wire, 0)' = Carries(wire, 0)
    BY <1>1, Zenon DEF Chosen, Verified, Answered, Responded, BoundAt, Lines, Carries, Ahead
<1>3. TunnelIntact => TunnelIntact'
    BY <1>1, Zenon DEF TunnelIntact
<1> QED BY <1>1, <1>2, <1>3, Zenon DEF HandshakeIInv, setup

(***************************************************************************)
(* read_exact takes the first items off the connection.                     *)
(***************************************************************************)
LEMMA Taken ==
    ASSUME NEW s \in Seq(Thing), NEW k \in 0..Len(s)
    PROVE  LET rest == SubSeq(s, k + 1, Len(s))
           IN  /\ rest \in Seq(Thing) /\ Len(rest) = Len(s) - k
               /\ \A i \in 1..(Len(s) - k) : rest[i] = s[k + i]
OBVIOUS

(***************************************************************************)
(* When the first k of k + n items of the handshake have been read, n are   *)
(* left, and after them what was sent through the tunnel.                   *)
(***************************************************************************)
LEMMA TakenCarries ==
    ASSUME NEW s \in Seq(Thing), NEW k \in Nat, NEW n \in Nat, NEW m \in Nat, Tunneled(s, k + n, m)
    PROVE  /\ SubSeq(s, k + 1, Len(s)) \in Seq(Thing)
           /\ Tunneled(SubSeq(s, k + 1, Len(s)), n, m)
           /\ Shifted(SubSeq(s, k + 1, Len(s)), s, k, n)
<1> DEFINE rest == SubSeq(s, k + 1, Len(s))
<1>1. Len(s) = k + n + m /\ \A i \in 1..m : s[k + n + i] = Byte(i)
    BY Zenon DEF Tunneled
<1>2. k \in 0..Len(s) /\ Len(s) - k = n + m
    BY <1>1
<1>3. rest \in Seq(Thing) /\ Len(rest) = n + m /\ \A i \in 1..(n + m) : rest[i] = s[k + i]
    BY <1>2, Taken, Zenon
<1> HIDE DEF rest
<1>4. ASSUME NEW i \in 1..m PROVE rest[n + i] = Byte(i)
  <2>1. n + i \in 1..(n + m) /\ k + (n + i) = k + n + i
      OBVIOUS
  <2> QED BY <1>1, <1>3, <2>1, Zenon
<1>5. \A i \in 1..n : i \in 1..(n + m)
    OBVIOUS
<1>6. Tunneled(rest, n, m)
    BY <1>3, <1>4, Zenon DEF Tunneled
<1>7. Shifted(rest, s, k, n)
    BY <1>3, <1>5, Zenon DEF Shifted
<1> QED BY <1>3, <1>6, <1>7, Zenon DEF rest

(***************************************************************************)
(* A client that gives up leaves nothing to say about the connection.       *)
(***************************************************************************)
LEMMA GivesUp ==
    ASSUME HandshakeIInv, stage' = "failed", UNCHANGED <<remote, relayed>>,
           wire' \in Seq(Thing), buffered' \in Seq(Thing)
    PROVE  HandshakeIInv'
BY Zenon DEF HandshakeIInv, remote, TunnelIntact

(***************************************************************************)
(* An error ends the handshake (the early returns of do_connect).           *)
(***************************************************************************)
LEMMA FailStep ==
    ASSUME HandshakeIInv, Fail, UNCHANGED <<remote, relayed, buffered>>, wire' \in Seq(Thing)
    PROVE  HandshakeIInv'
<1>1. buffered' \in Seq(Thing)
    BY Zenon DEF HandshakeIInv
<1> QED BY <1>1, GivesUp, Zenon DEF Fail

(***************************************************************************)
(* The first message: nothing has been said yet.                            *)
(***************************************************************************)
LEMMA StartStep == ASSUME HandshakeIInv, Start PROVE HandshakeIInv'
<1>1. /\ stage = "start" /\ UNCHANGED <<setup, remote, wire, atyp, buffered, relayed>>
      /\ \/ Fail
         \/ kind = "socks5" /\ request' = "greeting" /\ stage' = "method"
         \/ kind = "http" /\ request' = "CONNECT" /\ stage' = "status"
    BY Zenon DEF Start, Client, Write
<1>2. /\ wire \in Seq(Thing) /\ buffered = <<>> /\ relayed = <<>> /\ Carries(wire, 0)
      /\ server \in {"greeting", "CONNECT"} /\ (kind = "socks5" <=> server = "greeting")
    BY <1>1, Zenon DEF HandshakeIInv
<1>3. CASE Fail
    BY <1>1, <1>2, <1>3, FailStep, Zenon
<1>4. CASE kind = "socks5" /\ request' = "greeting" /\ stage' = "method"
  <2>1. Chosen'
      BY <1>1, <1>2, <1>4, Zenon DEF Chosen, Carries, remote
  <2> QED BY <1>1, <1>4, <2>1, Zenon DEF HandshakeIInv, remote, TunnelIntact
<1>5. CASE kind = "http" /\ request' = "CONNECT" /\ stage' = "status"
  <2>1. Ahead' = wire
      BY <1>1, <1>2 DEF Ahead
  <2>2. Responded'
      BY <1>1, <1>2, <1>5, <2>1, Zenon DEF Responded, Carries, remote
  <2> QED BY <1>1, <1>2, <1>5, <2>2, Zenon DEF HandshakeIInv, remote, TunnelIntact
<1> QED BY <1>1, <1>3, <1>4, <1>5, Zenon

(***************************************************************************)
(* negotiate_method and authenticate: the client sends its next message     *)
(* when it has read all of the server's last one.                           *)
(***************************************************************************)
LEMMA AllRead ==
    ASSUME wire \in Seq(Thing), streamed \in Nat, Carries(wire, 2), wire' = SubSeq(wire, 3, Len(wire)),
           streamed' = streamed
    PROVE  wire' \in Seq(Thing) /\ Carries(wire, 0)'
<1>1. Tunneled(wire, 2 + 0, streamed)
    BY DEF Carries
<1>2. SubSeq(wire, 2 + 1, Len(wire)) \in Seq(Thing) /\ Tunneled(SubSeq(wire, 2 + 1, Len(wire)), 0, streamed)
    BY <1>1, TakenCarries, Zenon
<1> QED BY <1>2 DEF Carries

(***************************************************************************)
(* negotiate_method: the client goes on with the method the server chose,   *)
(* or fails.                                                                *)
(***************************************************************************)
LEMMA NegotiateStep == ASSUME HandshakeIInv, negotiate_method PROVE HandshakeIInv'
<1>1. /\ stage = "method" /\ Len(wire) >= 2 /\ wire' = SubSeq(wire, 3, Len(wire))
      /\ UNCHANGED <<setup, remote, atyp, buffered, relayed>>
    BY DEF negotiate_method, Take, Client
<1>2. \/ Fail
      \/ /\ wire[1].b = "v5" /\ wire[2].b = "no_auth" /\ request' = "connect" /\ stage' = "reply"
      \/ /\ wire[1].b = "v5" /\ wire[2].b = "user_pass" /\ request' = "auth" /\ stage' = "verified"
    BY Zenon DEF negotiate_method, connect_request, auth_request, Write
<1>3. wire \in Seq(Thing) /\ streamed \in Nat /\ buffered = <<>> /\ relayed = <<>> /\ Chosen
      /\ (server # "tunnel" => streamed = 0)
    BY <1>1, Zenon DEF HandshakeIInv
<1>4. Carries(wire, 2) /\ server # "tunnel" /\ streamed = 0
    BY <1>1, <1>3 DEF Chosen, Carries, Tunneled
<1>5. wire' \in Seq(Thing) /\ Carries(wire, 0)'
    BY <1>1, <1>3, <1>4, AllRead, Zenon DEF remote
<1>6. CASE Fail
    BY <1>1, <1>5, <1>6, FailStep, Zenon
<1>7. CASE wire[1].b = "v5" /\ wire[2].b = "no_auth" /\ request' = "connect" /\ stage' = "reply"
  <2>1. server = "connect"
      BY <1>3, <1>4, <1>7 DEF Chosen, Carries, Tunneled
  <2> QED BY <1>1, <1>3, <1>4, <1>5, <1>7, <2>1, Zenon DEF HandshakeIInv, Answered, TunnelIntact, remote
<1>8. CASE wire[1].b = "v5" /\ wire[2].b = "user_pass" /\ request' = "auth" /\ stage' = "verified"
  <2>1. server = "auth"
      BY <1>3, <1>4, <1>8 DEF Chosen, Carries, Tunneled
  <2> QED BY <1>1, <1>3, <1>4, <1>5, <1>8, <2>1, Zenon DEF HandshakeIInv, Verified, TunnelIntact, remote
<1> QED BY <1>2, <1>6, <1>7, <1>8, Zenon

(***************************************************************************)
(* authenticate: the client goes on only when the server accepts the        *)
(* credentials.                                                             *)
(***************************************************************************)
LEMMA AuthenticateStep == ASSUME HandshakeIInv, authenticate PROVE HandshakeIInv'
<1>1. /\ stage = "verified" /\ Len(wire) >= 2 /\ wire' = SubSeq(wire, 3, Len(wire))
      /\ UNCHANGED <<setup, remote, atyp, buffered, relayed>>
      /\ Fail \/ (wire[2].b = "success" /\ request' = "connect" /\ stage' = "reply")
    BY DEF authenticate, Take, Client, connect_request, Write
<1>2. wire \in Seq(Thing) /\ streamed \in Nat /\ buffered = <<>> /\ relayed = <<>> /\ Verified
      /\ (server # "tunnel" => streamed = 0)
    BY <1>1, Zenon DEF HandshakeIInv
<1>3. Carries(wire, 2) /\ server # "tunnel" /\ streamed = 0
    BY <1>1, <1>2 DEF Verified, Carries, Tunneled
<1>4. wire' \in Seq(Thing) /\ Carries(wire, 0)'
    BY <1>1, <1>2, <1>3, AllRead, Zenon DEF remote
<1>5. CASE Fail
    BY <1>1, <1>4, <1>5, FailStep, Zenon
<1>6. CASE wire[2].b = "success" /\ request' = "connect" /\ stage' = "reply"
  <2>1. server = "connect"
      BY <1>2, <1>3, <1>6 DEF Verified, Carries, Tunneled
  <2> QED BY <1>1, <1>2, <1>3, <1>4, <1>6, <2>1, Zenon DEF HandshakeIInv, Answered, TunnelIntact, remote
<1> QED BY <1>1, <1>5, <1>6, Zenon

(***************************************************************************)
(* The reply to CONNECT, then the bound address: skip_addr reads to its     *)
(* last byte and not further, for each type and length of address.          *)
(***************************************************************************)
LEMMA ConnectReplyStep == ASSUME HandshakeIInv, connect_reply PROVE HandshakeIInv'
<1>1. /\ stage = "reply" /\ Len(wire) >= 4 /\ wire' = SubSeq(wire, 5, Len(wire))
      /\ UNCHANGED <<setup, remote, buffered, relayed>>
      /\ \/ Fail
         \/ /\ wire[1].b = "v5" /\ wire[2].b = "success" /\ wire[4].b \in {"ipv4", "ipv6", "domain"}
            /\ stage' = "skip" /\ atyp' = wire[4].b
    BY DEF connect_reply, Take, Client
<1>2. wire \in Seq(Thing) /\ streamed \in Nat /\ buffered = <<>> /\ relayed = <<>> /\ Answered
    BY <1>1, Zenon DEF HandshakeIInv
<1>3. CASE Fail
  <2>1. SubSeq(wire, 4 + 1, Len(wire)) \in Seq(Thing) /\ 4 \in 0..Len(wire)
      BY <1>1, <1>2, Taken
  <2> QED BY <1>1, <1>3, <2>1, FailStep
<1>4. CASE /\ wire[1].b = "v5" /\ wire[2].b = "success" /\ wire[4].b \in {"ipv4", "ipv6", "domain"}
           /\ stage' = "skip" /\ atyp' = wire[4].b
  <2>1. server = "tunnel" /\ BoundAt(4)
    <3>1. ~(server = "connect" /\ Carries(wire, 0))
      <4>1. server = "connect" => streamed = 0
          BY Zenon DEF HandshakeIInv
      <4> QED BY <1>1, <1>2, <4>1 DEF Carries, Tunneled
    <3> QED BY <1>2, <1>4, <3>1, Zenon DEF Answered
  <2>2. PICK bound \in Bound :
           /\ Carries(wire, 4 + Size(bound))
           /\ bound.atyp = "domain" => wire[4 + 1].n = bound.len
           /\ wire[4].b = bound.atyp
      BY <2>1 DEF BoundAt
  <2>3. Size(bound) \in Nat /\ 1 \in 1..Size(bound)
      BY BoundSize
  <2>4. Tunneled(wire, 4 + Size(bound), streamed)
      BY <2>2, Zenon DEF Carries
  <2>5. /\ SubSeq(wire, 4 + 1, Len(wire)) \in Seq(Thing)
        /\ Tunneled(SubSeq(wire, 4 + 1, Len(wire)), Size(bound), streamed)
        /\ Shifted(SubSeq(wire, 4 + 1, Len(wire)), wire, 4, Size(bound))
      BY <1>2, <2>3, <2>4, TakenCarries, Zenon
  <2>6. /\ wire' \in Seq(Thing) /\ Tunneled(wire', Size(bound), streamed) /\ wire'[1] = wire[4 + 1]
    <3>1. wire' = SubSeq(wire, 4 + 1, Len(wire))
        BY <1>1
    <3> QED BY <2>3, <2>5, <3>1, Zenon DEF Shifted
  <2>7. BoundAt(0)'
    <3>1. Carries(wire, 0 + Size(bound))'
        BY <1>1, <2>3, <2>6 DEF Carries, remote
    <3>2. bound.atyp = "domain" => wire'[0 + 1].n = bound.len
        BY <2>2, <2>6
    <3> QED BY <1>4, <2>2, <3>1, <3>2, Zenon DEF BoundAt
  <2> QED BY <1>1, <1>2, <1>4, <2>1, <2>6, <2>7, Zenon DEF HandshakeIInv, TunnelIntact, remote
<1> QED BY <1>1, <1>3, <1>4, Zenon

(***************************************************************************)
(* The tunnel begins where the client has read the whole handshake.         *)
(***************************************************************************)
LEMMA Opens ==
    ASSUME NEW k \in Nat, NEW s \in Seq(Thing), NEW x, x = <<>>, Tunneled(s, 0, k)
    PROVE  x \o s = [i \in 1..k |-> Byte(i)]
<1>1. x \o s = s
    OBVIOUS
<1>2. Len(s) = k /\ \A i \in 1..k : s[i] = Byte(i)
    BY DEF Tunneled
<1> QED BY <1>1, <1>2, TunnelItems, Zenon

(***************************************************************************)
(* skip_addr: the bound address is read to its end, where the tunnel        *)
(* begins.                                                                  *)
(***************************************************************************)
LEMMA SkipStep == ASSUME HandshakeIInv, skip_addr PROVE HandshakeIInv'
<1>1. /\ stage = "skip" /\ wire # <<>> /\ Len(wire) >= bound_size
      /\ wire' = SubSeq(wire, bound_size + 1, Len(wire)) /\ stage' = "open"
      /\ UNCHANGED <<setup, remote, atyp, buffered, relayed>>
    BY Zenon DEF skip_addr, Take, Client
<1>2. wire \in Seq(Thing) /\ streamed \in Nat /\ buffered = <<>> /\ relayed = <<>>
      /\ server = "tunnel" /\ BoundAt(0)
    BY <1>1, Zenon DEF HandshakeIInv
<1>3. PICK bound \in Bound : /\ Carries(wire, 0 + Size(bound)) /\ atyp = bound.atyp
                             /\ bound.atyp = "domain" => wire[0 + 1].n = bound.len
    BY <1>2, Zenon DEF BoundAt
<1>4. Size(bound) \in Nat /\ bound_size = Size(bound)
    BY <1>3, BoundItems DEF Size, bound_size
<1>5. Tunneled(wire, Size(bound) + 0, streamed)
    BY <1>3, <1>4 DEF Carries
<1>6. wire' \in Seq(Thing) /\ Tunneled(wire', 0, streamed)
    BY <1>1, <1>2, <1>4, <1>5, TakenCarries, Zenon
<1>7. TunnelIntact'
  <2>1. relayed' \o buffered' = <<>>
      BY <1>1, <1>2
  <2> QED BY <1>1, <1>2, <1>6, <2>1, Opens, Zenon DEF TunnelIntact, remote
<1> QED BY <1>1, <1>2, <1>6, <1>7, Zenon DEF HandshakeIInv, remote

(***************************************************************************)
(* read_exact at the end of the stream.                                     *)
(***************************************************************************)
LEMMA ReadExactFailsStep == ASSUME HandshakeIInv, ReadExactFails PROVE HandshakeIInv'
<1>1. wire \in Seq(Thing)
    BY Zenon DEF HandshakeIInv
<1> QED BY <1>1, FailStep, Zenon DEF ReadExactFails, Client

(***************************************************************************)
(* The connect timeout, at any point of the handshake.                      *)
(***************************************************************************)
LEMMA TimeoutStep == ASSUME HandshakeIInv, Timeout PROVE HandshakeIInv'
<1>1. wire \in Seq(Thing)
    BY Zenon DEF HandshakeIInv
<1> QED BY <1>1, FailStep, Zenon DEF Timeout, Client

(***************************************************************************)
(* Moving items from one buffer to the next keeps them in order.            *)
(***************************************************************************)
LEMMA SplitAt ==
    ASSUME NEW s \in Seq(Thing), NEW k \in 0..Len(s)
    PROVE  LET first == SubSeq(s, 1, k)
               rest  == SubSeq(s, k + 1, Len(s))
           IN  first \in Seq(Thing) /\ rest \in Seq(Thing) /\ first \o rest = s
<1> DEFINE first == SubSeq(s, 1, k)
           rest  == SubSeq(s, k + 1, Len(s))
<1>1. first \in Seq(Thing) /\ Len(first) = k /\ \A i \in 1..k : first[i] = s[i]
    OBVIOUS
<1>2. rest \in Seq(Thing) /\ Len(rest) = Len(s) - k /\ \A i \in 1..(Len(s) - k) : rest[i] = s[k + i]
    OBVIOUS
<1> HIDE DEF first, rest
<1> DEFINE t == first \o rest
<1>3. t \in Seq(Thing) /\ Len(t) = Len(s)
  <2>1. first \in Seq(Thing) /\ Len(first) = k /\ rest \in Seq(Thing) /\ Len(rest) = Len(s) - k
      BY <1>1, <1>2, Zenon
  <2> QED BY <2>1
<1>4. ASSUME NEW i \in 1..Len(s) PROVE t[i] = s[i]
  <2>1. CASE i <= k
      BY <1>1, <1>2, <2>1
  <2>2. CASE ~(i <= k)
    <3>1. i - k \in 1..Len(rest) /\ k + (i - k) = i
        BY <1>2, <2>2
    <3>2. t[i] = rest[i - k]
        BY <1>1, <1>2, <2>2
    <3> QED BY <1>2, <3>1, <3>2, Zenon
  <2> QED BY <2>1, <2>2, Zenon
<1> HIDE DEF t
<1>5. t = s
    BY <1>3, <1>4
<1> QED BY <1>1, <1>2, <1>5, Zenon DEF first, rest, t

(***************************************************************************)
(* Concatenation is associative.                                            *)
(***************************************************************************)
LEMMA Regroup ==
    ASSUME NEW x \in Seq(Thing), NEW y \in Seq(Thing), NEW z \in Seq(Thing)
    PROVE  (x \o y) \o z = x \o (y \o z)
OBVIOUS

(***************************************************************************)
(* Taking the first buffered item takes the first unread one.               *)
(***************************************************************************)
LEMMA NextItem ==
    ASSUME NEW x \in Seq(Thing), NEW y \in Seq(Thing), x # <<>>
    PROVE  /\ Tail(x) \in Seq(Thing) /\ Head(x) = (x \o y)[1]
           /\ x \o y \in Seq(Thing) /\ Len(x \o y) >= 1
           /\ Tail(x) \o y = SubSeq(x \o y, 1 + 1, Len(x \o y))
<1>1. Tail(x) \in Seq(Thing) /\ Head(x) = (x \o y)[1] /\ x \o y \in Seq(Thing) /\ Len(x \o y) >= 1
    OBVIOUS
<1>2. /\ Tail(x) \o y \in Seq(Thing) /\ Len(Tail(x) \o y) = Len(x \o y) - 1
      /\ \A i \in 1..(Len(x \o y) - 1) : (Tail(x) \o y)[i] = (x \o y)[1 + i]
    OBVIOUS
<1> DEFINE s == x \o y
           t == Tail(x) \o y
           rest == SubSeq(s, 1 + 1, Len(s))
<1>3. /\ rest \in Seq(Thing) /\ Len(rest) = Len(s) - 1
      /\ \A i \in 1..(Len(s) - 1) : rest[i] = s[1 + i]
  <2>1. s \in Seq(Thing) /\ 1 \in 0..Len(s)
      BY <1>1
  <2> HIDE DEF s
  <2> QED BY <2>1, Taken, Zenon
<1>4. /\ t \in Seq(Thing) /\ Len(t) = Len(s) - 1
      /\ \A i \in 1..(Len(s) - 1) : t[i] = s[1 + i]
    BY <1>2, Zenon
<1>5. s \in Seq(Thing) /\ Len(s) >= 1
    BY <1>1, Zenon
<1> HIDE DEF rest, t, s
<1>6. t = rest
    BY <1>3, <1>4, <1>5
<1> QED BY <1>1, <1>6, Zenon DEF rest, t, s

(***************************************************************************)
(* BufReader's fill.                                                        *)
(***************************************************************************)
LEMMA FillStep == ASSUME HandshakeIInv, Fill PROVE HandshakeIInv'
<1>1. /\ stage \in {"status", "headers"} /\ buffered = <<>>
      /\ UNCHANGED <<setup, remote, stage, request, atyp, relayed>>
    BY Zenon DEF Fill, Client
<1>2. PICK n \in 1..Len(wire) : /\ buffered' = SubSeq(wire, 1, n)
                                /\ wire' = SubSeq(wire, n + 1, Len(wire))
    BY Zenon DEF Fill, First, Take
<1>3. wire \in Seq(Thing)
    BY Zenon DEF HandshakeIInv
<1>4. n \in 0..Len(wire)
    BY <1>3
<1>5. buffered' \in Seq(Thing) /\ wire' \in Seq(Thing) /\ buffered' \o wire' = wire
    BY <1>2, <1>3, <1>4, SplitAt, Zenon
<1>6. buffered \o wire = wire
    BY <1>1, <1>3
<1>7. Ahead' = Ahead
    BY <1>5, <1>6, Zenon DEF Ahead
<1>8. (Responded => Responded') /\ (Lines(0) => Lines(0)')
    BY <1>1, <1>7, Zenon DEF Responded, Lines, Carries, remote
<1> QED BY <1>1, <1>5, <1>8, Zenon DEF HandshakeIInv, TunnelIntact, remote

(***************************************************************************)
(* A line read from the lines of an accepted response.                      *)
(***************************************************************************)
LEMMA NextHeader ==
    ASSUME NEW s \in Seq(Thing), NEW m \in Nat, Headers(s, 1, m + 1),
           Shifted(SubSeq(s, 1 + 1, Len(s)), s, 1, m)
    PROVE  Headers(SubSeq(s, 1 + 1, Len(s)), 0, m)
<1> DEFINE rest == SubSeq(s, 1 + 1, Len(s))
<1>1. \A i \in 1..m : rest[i] = s[1 + i]
    BY Zenon DEF Shifted
<1>2. \A i \in 1..m : 1 + i \in (1 + 1)..(m + 1)
    OBVIOUS
<1>3. \A j \in (1 + 1)..(m + 1) : s[j] = Item("header")
    BY Zenon DEF Headers
<1> HIDE DEF rest
<1>4. ASSUME NEW i \in (0 + 1)..m PROVE rest[i] = Item("header")
  <2>1. i \in 1..m
    OBVIOUS
  <2> QED BY <1>1, <1>2, <1>3, <2>1, Zenon
<1> QED BY <1>4, Zenon DEF Headers, rest

(***************************************************************************)
(* A line is taken off: the headers behind it move up by one, and so does   *)
(* the blank line if the server has sent it.                                *)
(***************************************************************************)
LEMMA NextLine ==
    ASSUME Ahead \in Seq(Thing), streamed \in Nat, NEW m \in Nat, Headers(Ahead, 1, m + 1),
           \/ server = "headers" /\ Carries(Ahead, 1 + m)
           \/ server = "tunnel" /\ Carries(Ahead, 1 + (m + 1)) /\ Ahead[1 + (m + 1)] = Item("blank"),
           Ahead' = SubSeq(Ahead, 1 + 1, Len(Ahead)), UNCHANGED <<streamed, server>>
    PROVE  Lines(0)'
<1>1. CASE server = "headers" /\ Carries(Ahead, 1 + m)
  <2>1. Tunneled(Ahead, 1 + m, streamed)
      BY <1>1, Zenon DEF Carries
  <2>2. Tunneled(Ahead', m, streamed) /\ Shifted(SubSeq(Ahead, 1 + 1, Len(Ahead)), Ahead, 1, m)
      BY <2>1, TakenCarries, Zenon
  <2>3. Headers(Ahead', 0, m)
      BY <2>2, NextHeader, Zenon
  <2> QED BY <1>1, <2>2, <2>3 DEF Lines, Carries
<1>2. CASE server = "tunnel" /\ Carries(Ahead, 1 + (m + 1)) /\ Ahead[1 + (m + 1)] = Item("blank")
  <2>1. Tunneled(Ahead, 1 + (m + 1), streamed) /\ m + 1 \in Nat
      BY <1>2 DEF Carries
  <2>2. Tunneled(Ahead', m + 1, streamed) /\ Shifted(SubSeq(Ahead, 1 + 1, Len(Ahead)), Ahead, 1, m + 1)
      BY <2>1, TakenCarries, Zenon
  <2>3. Shifted(SubSeq(Ahead, 1 + 1, Len(Ahead)), Ahead, 1, m)
    <3>1. \A i \in 1..m : i \in 1..(m + 1)
        OBVIOUS
    <3> QED BY <2>2, <3>1, Zenon DEF Shifted
  <2>4. Headers(Ahead', 0, m)
      BY <2>3, NextHeader, Zenon
  <2>5. Ahead'[m + 1] = Item("blank")
    <3>1. m + 1 \in 1..(m + 1)
        OBVIOUS
    <3> QED BY <1>2, <2>2, <3>1, Zenon DEF Shifted
  <2>6. server' = "tunnel" /\ Carries(Ahead, m + 1)' /\ 0 <= m
    <3>1. 0 <= m
        OBVIOUS
    <3>2. Tunneled(Ahead', m + 1, streamed') /\ server' = "tunnel"
        BY <1>2, <2>2, Zenon DEF Carries
    <3> QED BY <3>1, <3>2, Zenon DEF Carries
  <2> QED BY <2>4, <2>5, <2>6, Zenon DEF Lines
<1> QED BY <1>1, <1>2, Zenon

(***************************************************************************)
(* A positive number of headers is one more than another.                   *)
(***************************************************************************)
LEMMA OneLess ==
    ASSUME NEW n \in Nat, 1 <= n
    PROVE  \E m \in Nat : n = m + 1 /\ n = 1 + m /\ n + 1 = 1 + (m + 1)
<1>1. n - 1 \in Nat /\ n = (n - 1) + 1 /\ n = 1 + (n - 1) /\ n + 1 = 1 + ((n - 1) + 1)
    OBVIOUS
<1> QED BY <1>1, Zenon

(***************************************************************************)
(* A line is taken off the lines of an accepted response.                   *)
(***************************************************************************)
LEMMA LineTaken ==
    ASSUME Ahead \in Seq(Thing), streamed \in Nat, Lines(1),
           Ahead' = SubSeq(Ahead, 1 + 1, Len(Ahead)), UNCHANGED <<streamed, server>>
    PROVE  Lines(0)'
<1>1. PICK n \in Nat :
         /\ 1 <= n /\ Headers(Ahead, 1, n)
         /\ \/ server = "headers" /\ Carries(Ahead, n)
            \/ server = "tunnel" /\ Carries(Ahead, n + 1) /\ Ahead[n + 1] = Item("blank")
    BY Zenon DEF Lines
<1>2. PICK m \in Nat : n = m + 1 /\ n = 1 + m /\ n + 1 = 1 + (m + 1)
    BY <1>1, OneLess, Zenon
<1>3. /\ Headers(Ahead, 1, m + 1)
      /\ \/ server = "headers" /\ Carries(Ahead, 1 + m)
         \/ server = "tunnel" /\ Carries(Ahead, 1 + (m + 1)) /\ Ahead[1 + (m + 1)] = Item("blank")
    BY <1>1, <1>2, Zenon
<1> QED BY <1>3, NextLine, Zenon

(***************************************************************************)
(* read_line takes the first unread item, or meets the end of the stream.   *)
(***************************************************************************)
LEMMA LineRead ==
    ASSUME HandshakeIInv, NEW line, LineIs(line), wire' = wire
    PROVE  /\ Ahead \in Seq(Thing) /\ buffered' \in Seq(Thing)
           /\ \/ /\ Len(Ahead) >= 1 /\ Ahead[1] = Item(line)
                 /\ Ahead' = SubSeq(Ahead, 1 + 1, Len(Ahead))
              \/ line = "eof" /\ closed /\ buffered' = <<>> /\ wire = <<>> /\ Len(Ahead) = 0
<1>1. wire \in Seq(Thing) /\ buffered \in Seq(Thing)
    BY Zenon DEF HandshakeIInv
<1>2. Ahead \in Seq(Thing)
    BY <1>1 DEF Ahead
<1>3. CASE buffered # <<>> /\ Head(buffered) = Item(line) /\ buffered' = Tail(buffered)
  <2>1. /\ Tail(buffered) \in Seq(Thing) /\ Head(buffered) = (buffered \o wire)[1]
        /\ Len(buffered \o wire) >= 1
        /\ Tail(buffered) \o wire = SubSeq(buffered \o wire, 1 + 1, Len(buffered \o wire))
      BY <1>1, <1>3, NextItem, Zenon
  <2> QED BY <1>2, <1>3, <2>1, Zenon DEF Ahead
<1>4. CASE line = "eof" /\ buffered = <<>> /\ wire = <<>> /\ closed /\ buffered' = buffered
  <2>1. Len(buffered \o wire) = 0
      BY <1>4
  <2> QED BY <1>1, <1>2, <1>4, <2>1, Zenon DEF Ahead
<1> QED BY <1>3, <1>4, Zenon DEF LineIs

(***************************************************************************)
(* The status line: only a 200 response goes on.                            *)
(***************************************************************************)
LEMMA StatusLineStep == ASSUME HandshakeIInv, StatusLine PROVE HandshakeIInv'
<1>1. PICK line \in {"200", "407", "not http", "eof"} :
         LineIs(line) /\ stage' = IF line \in accepted THEN "headers" ELSE "failed"
    BY Zenon DEF StatusLine
<1>2. /\ stage = "status" /\ UNCHANGED <<setup, remote, request, wire, atyp, relayed>>
    BY ZenonT(60) DEF StatusLine, Client
<1>3. /\ wire \in Seq(Thing) /\ relayed = <<>> /\ Responded /\ streamed \in Nat
      /\ (server # "tunnel" => streamed = 0)
    BY <1>2, ZenonT(60) DEF HandshakeIInv
<1>4. /\ Ahead \in Seq(Thing) /\ buffered' \in Seq(Thing)
      /\ \/ /\ Len(Ahead) >= 1 /\ Ahead[1] = Item(line)
            /\ Ahead' = SubSeq(Ahead, 1 + 1, Len(Ahead))
         \/ line = "eof"
    BY <1>1, <1>2, LineRead, ZenonT(60)
<1>5. CASE line # "200"
  <2>1. stage' = "failed" /\ wire' \in Seq(Thing)
      BY <1>1, <1>2, <1>3, <1>5, ZenonT(60) DEF accepted
  <2> QED BY <1>2, <1>4, <2>1, GivesUp, ZenonT(60)
<1>6. CASE line = "200"
  <2>1. Lines(1)
    <3>1. ~(server = "CONNECT" /\ Carries(Ahead, 0))
        BY <1>3, <1>4, <1>6 DEF Carries, Tunneled
    <3> QED BY <1>3, <1>4, <1>6, <3>1, Zenon DEF Responded
  <2>2. Ahead' = SubSeq(Ahead, 1 + 1, Len(Ahead)) /\ UNCHANGED <<streamed, server>>
      BY <1>2, <1>4, <1>6, Zenon DEF remote
  <2>3. Lines(0)'
      BY <1>3, <1>4, <2>1, <2>2, LineTaken, Zenon
  <2>4. stage' = "headers"
      BY <1>1, <1>6, Zenon DEF accepted
  <2> QED BY <1>2, <1>3, <1>4, <2>3, <2>4, ZenonT(60) DEF HandshakeIInv, TunnelIntact, remote
<1> QED BY <1>5, <1>6, ZenonT(60)

(***************************************************************************)
(* What is left to read, when the relay has read nothing yet.               *)
(***************************************************************************)
LEMMA TunnelBegins ==
    ASSUME NEW x \in Seq(Thing), NEW y \in Seq(Thing), NEW k \in Nat, Tunneled(x \o y, 0, k)
    PROVE  <<>> \o x \o y = [i \in 1..k |-> Byte(i)]
<1>1. <<>> \o x = x /\ x \o y \in Seq(Thing)
    OBVIOUS
<1>2. <<>> \o (x \o y) = [i \in 1..k |-> Byte(i)]
    BY <1>1, Opens, ZenonT(60)
<1>3. <<>> \o (x \o y) = x \o y
    BY <1>1
<1> QED BY <1>1, <1>2, <1>3, Zenon

(***************************************************************************)
(* The next line of an accepted response is a header, the blank line that   *)
(* ends the headers, or there is none yet.                                  *)
(***************************************************************************)
LEMMA FirstLine ==
    ASSUME HandshakeIInv, stage = "headers", Ahead \in Seq(Thing)
    PROVE  \/ Len(Ahead) = 0 /\ server = "headers" /\ Tunneled(Ahead, 0, streamed)
           \/ /\ Len(Ahead) >= 1 /\ Ahead[1] = Item("blank") /\ server = "tunnel"
              /\ Tunneled(Ahead, 1 + 0, streamed)
           \/ Len(Ahead) >= 1 /\ Ahead[1] = Item("header") /\ Lines(1)
<1>1. Lines(0) /\ streamed \in Nat /\ (server # "tunnel" => streamed = 0)
    BY Zenon DEF HandshakeIInv
<1>2. PICK n \in Nat :
         /\ Headers(Ahead, 0, n)
         /\ \/ server = "headers" /\ Carries(Ahead, n)
            \/ server = "tunnel" /\ Carries(Ahead, n + 1) /\ Ahead[n + 1] = Item("blank")
    BY <1>1, Zenon DEF Lines
<1>3. CASE n = 0
  <2>1. CASE server = "headers" /\ Carries(Ahead, 0)
    <3>1. Tunneled(Ahead, 0, streamed) /\ streamed = 0
        BY <1>1, <2>1, Zenon DEF Carries
    <3> QED BY <2>1, <3>1 DEF Tunneled
  <2>2. CASE server = "tunnel" /\ Carries(Ahead, 1) /\ Ahead[1] = Item("blank")
    <3>1. Tunneled(Ahead, 1 + 0, streamed)
        BY <2>2 DEF Carries
    <3>2. Len(Ahead) >= 1
        BY <1>1, <3>1 DEF Tunneled
    <3> QED BY <2>2, <3>1, <3>2, Zenon
  <2> QED BY <1>2, <1>3, <2>1, <2>2
<1>4. CASE n # 0
  <2>1. 1 <= n /\ 1 \in (0 + 1)..n /\ (\A i \in (1 + 1)..n : i \in (0 + 1)..n)
      BY <1>4
  <2>2. Ahead[1] = Item("header") /\ Headers(Ahead, 1, n)
      BY <1>2, <2>1, Zenon DEF Headers
  <2>3. Lines(1)
      BY <1>2, <2>1, <2>2, Zenon DEF Lines
  <2>4. Len(Ahead) >= 1
      BY <1>1, <1>2, <2>1 DEF Carries, Tunneled
  <2> QED BY <2>2, <2>3, <2>4, Zenon
<1> QED BY <1>3, <1>4, Zenon

(***************************************************************************)
(* The headers: their end, a blank line or the end of the stream, is where  *)
(* the tunnel begins.                                                       *)
(***************************************************************************)
LEMMA HeaderLineStep == ASSUME HandshakeIInv, HeaderLine PROVE HandshakeIInv'
<1>1. PICK line \in {"header", "blank", "eof"} :
         LineIs(line) /\ stage' = IF line = "header" THEN "headers" ELSE "open"
    BY Zenon DEF HeaderLine
<1>2. stage = "headers" /\ UNCHANGED <<setup, remote, request, wire, atyp, relayed>>
    BY Zenon DEF HeaderLine, Client
<1>3. wire \in Seq(Thing) /\ relayed = <<>> /\ streamed \in Nat /\ (server # "tunnel" => streamed = 0)
    BY <1>2, Zenon DEF HandshakeIInv
<1>4. /\ Ahead \in Seq(Thing) /\ buffered' \in Seq(Thing)
      /\ \/ /\ Len(Ahead) >= 1 /\ Ahead[1] = Item(line)
            /\ Ahead' = SubSeq(Ahead, 1 + 1, Len(Ahead))
         \/ line = "eof" /\ closed /\ buffered' = <<>> /\ wire = <<>> /\ Len(Ahead) = 0
    BY <1>1, <1>2, LineRead, Zenon
<1>5. UNCHANGED <<streamed, server, closed>>
    BY <1>2, Zenon DEF remote
<1>6. Item("header") # Item("blank") /\ Item("header").b = "header" /\ Item("blank").b = "blank"
      /\ Item("eof").b = "eof"
    BY Zenon DEF Item
<1>7. \/ Len(Ahead) = 0 /\ server = "headers" /\ Tunneled(Ahead, 0, streamed)
      \/ /\ Len(Ahead) >= 1 /\ Ahead[1] = Item("blank") /\ server = "tunnel"
         /\ Tunneled(Ahead, 1 + 0, streamed)
      \/ Len(Ahead) >= 1 /\ Ahead[1] = Item("header") /\ Lines(1)
    BY <1>2, <1>4, FirstLine, Zenon
<1>8. CASE line = "header"
  <2>1. Lines(1) /\ Ahead' = SubSeq(Ahead, 1 + 1, Len(Ahead))
      BY <1>4, <1>6, <1>7, <1>8
  <2>2. Lines(0)'
      BY <1>3, <1>4, <1>5, <2>1, LineTaken, Zenon
  <2>3. stage' = "headers"
      BY <1>1, <1>8, Zenon
  <2> QED BY <1>2, <1>3, <1>4, <1>5, <2>2, <2>3, Zenon DEF HandshakeIInv, TunnelIntact
<1>9. CASE line # "header"
  <2>1. stage' = "open"
      BY <1>1, <1>9, Zenon
  <2>2. /\ Tunneled(Ahead', 0, streamed)
        /\ server = "tunnel" \/ (server = "headers" /\ closed)
    <3>1. CASE line = "blank"
      <4>1. /\ server = "tunnel" /\ Tunneled(Ahead, 1 + 0, streamed)
            /\ Ahead' = SubSeq(Ahead, 1 + 1, Len(Ahead))
        <5>1. Len(Ahead) >= 1 /\ Ahead[1] = Item("blank") /\ Ahead' = SubSeq(Ahead, 1 + 1, Len(Ahead))
            BY <1>4, <3>1, Zenon
        <5>2. ~(Len(Ahead) = 0)
            BY <5>1
        <5> QED BY <1>6, <1>7, <5>1, <5>2, Zenon
      <4>2. Tunneled(SubSeq(Ahead, 1 + 1, Len(Ahead)), 0, streamed)
          BY <1>3, <1>4, <4>1, TakenCarries, Zenon
      <4> QED BY <4>1, <4>2, Zenon
    <3>2. CASE line = "eof"
      <4>1. closed /\ buffered' = <<>> /\ wire = <<>> /\ Len(Ahead) = 0
          BY <1>4, <1>6, <1>7, <3>2
      <4>2. server = "headers" /\ streamed = 0
          BY <1>3, <1>7, <4>1
      <4>3. Ahead' = <<>>
          BY <1>2, <4>1 DEF Ahead
      <4> QED BY <4>1, <4>2, <4>3 DEF Tunneled
    <3> QED BY <1>9, <3>1, <3>2, Zenon
  <2>3. TunnelIntact'
    <3>1. Tunneled(buffered' \o wire', 0, streamed) /\ wire' \in Seq(Thing)
        BY <1>2, <1>3, <2>2, Zenon DEF Ahead
    <3>2. <<>> \o buffered' \o wire' = [i \in 1..streamed |-> Byte(i)]
        BY <1>3, <1>4, <3>1, TunnelBegins, Zenon
    <3>3. relayed' = <<>> /\ streamed' = streamed
        BY <1>2, <1>3, <1>5, Zenon
    <3>4. relayed' \o buffered' \o wire' = [i \in 1..streamed' |-> Byte(i)]
        BY <3>2, <3>3, Zenon
    <3> QED BY <1>5, <2>2, <3>4, Zenon DEF TunnelIntact
  <2> QED BY <1>2, <1>3, <1>4, <1>5, <2>1, <2>3, Zenon DEF HandshakeIInv
<1> QED BY <1>8, <1>9, Zenon

(***************************************************************************)
(* What try_read copies out moves from the front of a source to the end of  *)
(* what was read.                                                           *)
(***************************************************************************)
LEMMA ReadMoves ==
    ASSUME NEW x \in Seq(Thing), NEW y \in Seq(Thing), NEW k \in 0..Len(y)
    PROVE  LET first == SubSeq(y, 1, k)
               rest  == SubSeq(y, k + 1, Len(y))
           IN  x \o first \in Seq(Thing) /\ rest \in Seq(Thing) /\ (x \o first) \o rest = x \o y
<1> DEFINE first == SubSeq(y, 1, k)
           rest  == SubSeq(y, k + 1, Len(y))
<1>1. first \in Seq(Thing) /\ rest \in Seq(Thing) /\ first \o rest = y
    BY SplitAt, Zenon
<1> HIDE DEF first, rest
<1>2. (x \o first) \o rest = x \o (first \o rest)
    BY <1>1, Regroup, ZenonT(60)
<1>3. x \o first \in Seq(Thing)
    BY <1>1
<1> QED BY <1>1, <1>2, <1>3, Zenon DEF first, rest

(***************************************************************************)
(* The relay reads the prefetched bytes first, then the socket.             *)
(***************************************************************************)
LEMMA TryReadStep == ASSUME HandshakeIInv, Read PROVE HandshakeIInv'
<1>1. stage = "open" /\ UNCHANGED <<setup, remote, request, atyp>>
    BY Zenon DEF Read, Client
<1>2. PICK n \in 1..(MaxTunnel + 1) : try_read(n)
    BY Zenon DEF Read
<1>3. /\ wire \in Seq(Thing) /\ buffered \in Seq(Thing) /\ relayed \in Seq(Thing) /\ streamed \in Nat
      /\ (server # "tunnel" => streamed = 0)
    BY Zenon DEF HandshakeIInv
<1>4. /\ server = "tunnel" \/ (server = "headers" /\ closed)
      /\ relayed \o buffered \o wire = [i \in 1..streamed |-> Byte(i)]
    BY <1>1, Zenon DEF HandshakeIInv, TunnelIntact
<1>5. /\ wire' \in Seq(Thing) /\ buffered' \in Seq(Thing) /\ relayed' \in Seq(Thing)
      /\ stage' \in {"open", "eof"} /\ relayed' \o buffered' \o wire' = relayed \o buffered \o wire
  <2>1. CASE /\ n <= Len(buffered) /\ relayed' = relayed \o SubSeq(buffered, 1, n)
             /\ buffered' = SubSeq(buffered, n + 1, Len(buffered)) /\ UNCHANGED <<wire, stage>>
    <3>1. n \in 0..Len(buffered)
        BY <1>3, <2>1
    <3>2. relayed' \in Seq(Thing) /\ buffered' \in Seq(Thing) /\ relayed' \o buffered' = relayed \o buffered
        BY <1>3, <2>1, <3>1, ReadMoves, Zenon
    <3>3. wire' = wire /\ stage' = stage
        BY <2>1, Zenon
    <3>4. relayed' \o buffered' \o wire' = relayed \o buffered \o wire
        BY <3>2, <3>3, Zenon
    <3> QED BY <1>1, <1>3, <3>2, <3>3, <3>4, Zenon
  <2>2. CASE /\ buffered = <<>> /\ n <= Len(wire) /\ relayed' = relayed \o SubSeq(wire, 1, n)
             /\ wire' = SubSeq(wire, n + 1, Len(wire)) /\ UNCHANGED <<buffered, stage>>
    <3>1. n \in 0..Len(wire)
        BY <1>3, <2>2
    <3>2. relayed' \in Seq(Thing) /\ wire' \in Seq(Thing) /\ relayed' \o wire' = relayed \o wire
        BY <1>3, <2>2, <3>1, ReadMoves, Zenon
    <3>3. buffered' = <<>> /\ buffered = <<>> /\ stage' = stage
        BY <2>2, Zenon
    <3>4. relayed' \o <<>> = relayed' /\ relayed \o <<>> = relayed
        BY <1>3, <3>2
    <3>5. relayed' \o buffered' \o wire' = relayed \o buffered \o wire
        BY <3>2, <3>3, <3>4, Zenon
    <3> QED BY <1>1, <1>3, <3>2, <3>3, <3>5, Zenon
  <2>3. CASE stage' = "eof" /\ UNCHANGED <<wire, buffered, relayed>>
      BY <1>3, <2>3, Zenon
  <2> QED BY <1>2, <2>1, <2>2, <2>3, Zenon DEF try_read, First, Take
<1>6. UNCHANGED <<streamed, server, closed>>
    BY <1>1, Zenon DEF remote
<1>7. TunnelIntact'
    BY <1>4, <1>5, <1>6, Zenon DEF TunnelIntact
<1> QED BY <1>3, <1>5, <1>6, <1>7, Zenon DEF HandshakeIInv

(***************************************************************************)
(* Before the first message nothing is on the connection.                   *)
(***************************************************************************)
LEMMA HandshakeStart == HandshakeInit => HandshakeIInv
<1> SUFFICES ASSUME HandshakeInit PROVE HandshakeIInv
    BY Zenon
<1>1. <<>> \in Seq(Thing)
    OBVIOUS
<1>2. wire = <<>> /\ streamed = 0 => Carries(wire, 0)
    BY DEF Carries, Tunneled
<1> QED BY <1>1, <1>2, Zenon DEF HandshakeInit, HandshakeIInv, TunnelIntact

(***************************************************************************)
(* Each step of the server, of the client and of its timer keeps the        *)
(* invariant.                                                               *)
(***************************************************************************)
LEMMA HandshakeStep == HandshakeIInv /\ [HandshakeNext]_proxyVars => HandshakeIInv'
<1> SUFFICES ASSUME HandshakeIInv, [HandshakeNext]_proxyVars PROVE HandshakeIInv'
    BY Zenon
<1>1. CASE Server
    BY <1>1, SelectMethodStep, VerifyStep, AnswerStep, StatusStep, HeaderStep, TunnelStep, CloseStep,
       Zenon DEF Server
<1>2. CASE Handshaking
    BY <1>2, StartStep, NegotiateStep, AuthenticateStep, ConnectReplyStep, SkipStep,
       ReadExactFailsStep, FillStep, StatusLineStep, HeaderLineStep, Zenon DEF Handshaking
<1>3. CASE Timeout
    BY <1>3, TimeoutStep, Zenon
<1>4. CASE Read
    BY <1>4, TryReadStep, Zenon
<1>5. CASE UNCHANGED proxyVars
  <2>1. UNCHANGED <<kind, server, streamed, closed, stage, request, wire, atyp, buffered, relayed>>
      BY <1>5, Zenon DEF proxyVars, setup, remote
  <2>2. /\ Chosen' = Chosen /\ Verified' = Verified /\ Answered' = Answered
        /\ Responded' = Responded /\ BoundAt(0)' = BoundAt(0) /\ Lines(0)' = Lines(0)
        /\ Carries(wire, 0)' = Carries(wire, 0) /\ TunnelIntact' = TunnelIntact
      BY <2>1, Zenon DEF Chosen, Verified, Answered, Responded, BoundAt, Lines, Carries, Ahead,
         TunnelIntact
  <2> QED BY <2>1, <2>2, Zenon DEF HandshakeIInv
<1> QED BY <1>1, <1>2, <1>3, <1>4, <1>5, Zenon DEF HandshakeNext

(***************************************************************************)
(* Through either proxy, whatever the server answers and wherever it stops, *)
(* and for tunnels and domains of any length: the relay reads exactly the   *)
(* bytes the server sent through the tunnel, and only after the server has  *)
(* accepted the request (do_connect, skip_addr and ProxyStream::try_read of *)
(* socks5.rs, http.rs and mod.rs).                                          *)
(***************************************************************************)
THEOREM TunnelAlwaysIntact == HandshakeSpec => []TunnelIntact
<1>1. HandshakeIInv => TunnelIntact
    BY Zenon DEF HandshakeIInv
<1> QED BY <1>1, HandshakeStart, HandshakeStep, PTL DEF HandshakeSpec

-------------------------------------------------------------------------------
(***************************************************************************)
(* The parent of every process that exists is the reaper or alive, and the  *)
(* tree has no cycle: a fork (run_command_tree's own included) adds a leaf. *)
(***************************************************************************)
LEMMA RootedFork ==
    ASSUME TreeIInv, NEW q \in Proc, proc[q] = "none",
           NEW x \in Proc \cup {Reaper}, x = Reaper \/ proc[x] = "alive",
           proc' = [proc EXCEPT ![q] = "alive"],
           parent' = [parent EXCEPT ![q] = x]
    PROVE  Rooted'
<1> USE SupervisorAssumption DEF TreeIInv, Rooted, Exists
<1>1. \A p \in Proc : Exists(p)' => parent'[p] = Reaper \/ proc'[parent'[p]] = "alive"
  BY ZenonT(60)
<1>2. ASSUME NEW S \in SUBSET {p \in Proc : Exists(p)'}, S # {}
      PROVE  \E p \in S : parent'[p] \notin S
  <2> DEFINE old == S \ {q}
  <2>1. CASE old = {}
    <3>1. S = {q} /\ parent'[q] = x /\ x # q
      BY <1>2, <2>1
    <3> QED BY <3>1
  <2>2. CASE old # {}
    <3>1. old \in SUBSET {p \in Proc : Exists(p)}
      BY <1>2, Zenon
    <3>2. PICK p \in old : parent[p] \notin old
      BY <2>2, <3>1, Zenon
    <3>3. parent'[p] = parent[p] /\ parent[p] # q
      BY <3>1, <3>2
    <3> QED BY <3>2, <3>3, Zenon
  <2> QED BY <2>1, <2>2, Zenon
<1> QED BY <1>1, <1>2, Zenon

(***************************************************************************)
(* A death hands the children to the reaper, and a collected zombie leaves  *)
(* the table; neither makes a cycle.                                        *)
(***************************************************************************)
LEMMA RootedShrinks ==
    ASSUME TreeIInv,
           \A p \in Proc : Exists(p)' => Exists(p),
           \A p \in Proc : Exists(p)' => parent'[p] = Reaper
                                         \/ (parent'[p] = parent[p] /\ proc'[parent[p]] = proc[parent[p]])
    PROVE  Rooted'
<1> USE SupervisorAssumption DEF TreeIInv, Rooted
<1>1. \A p \in Proc : Exists(p)' => parent'[p] = Reaper \/ proc'[parent'[p]] = "alive"
  BY Zenon
<1>2. ASSUME NEW S \in SUBSET {p \in Proc : Exists(p)'}, S # {}
      PROVE  \E p \in S : parent'[p] \notin S
  <2>1. S \in SUBSET {p \in Proc : Exists(p)}
    BY <1>2, Zenon
  <2>2. PICK p \in S : parent[p] \notin S
    BY <1>2, <2>1, ZenonT(60)
  <2>3. parent'[p] = Reaper \/ parent'[p] = parent[p]
    BY <1>2, <2>2, Zenon
  <2> QED BY <1>2, <2>2, <2>3, Zenon
<1> QED BY <1>1, <1>2, Zenon

(***************************************************************************)
(* If the reaper has no child, nothing of the tree exists: ECHILD is the    *)
(* end of the whole tree (process.rs:125-131).                              *)
(***************************************************************************)
LEMMA NoChildNoTree ==
    ASSUME TreeIInv, Children(Reaper) = {}
    PROVE  \A p \in Proc : ~Exists(p)
<1> DEFINE S == {p \in Proc : Exists(p)}
<1>1. ASSUME S # {} PROVE FALSE
  <2>1. PICK p \in S : parent[p] \notin S
    BY <1>1, ZenonT(60) DEF TreeIInv, Rooted
  <2>2. parent[p] # Reaper
    BY Zenon DEF Children
  <2>3. parent[p] \in Proc /\ proc[parent[p]] = "alive"
    BY <2>1, <2>2, Zenon DEF TreeIInv, Rooted
  <2> QED BY <2>1, <2>3, Zenon DEF Exists
<1> QED BY <1>1, Zenon

(***************************************************************************)
(* The kernel reparents the children of a dying process to the reaper, a    *)
(* child subreaper (process.rs:71-74).                                      *)
(***************************************************************************)
LEMMA DeathStep ==
    ASSUME TreeIInv, NEW p \in Proc, proc[p] = "alive", Dead(p),
           UNCHANGED <<rpc, rfail, code, supVars>>
    PROVE  TreeIInv'
<1>1. Rooted'
  <2>1. \A q \in Proc : Exists(q)' => Exists(q)
    BY Zenon DEF Dead, Exists, TreeIInv
  <2>2. \A q \in Proc : Exists(q)' => parent'[q] = Reaper
            \/ (parent'[q] = parent[q] /\ proc'[parent[q]] = proc[parent[q]])
    BY SupervisorAssumption, Zenon DEF Dead, TreeIInv
  <2> QED BY <2>1, <2>2, RootedShrinks, ZenonT(60)
<1> QED BY <1>1, SupervisorAssumption, Zenon DEF TreeIInv, Dead, Exists, supVars, outcome, broker

(***************************************************************************)
(* Steps of the command tree: it forks, exits and waits at will.            *)
(***************************************************************************)
LEMMA TreeStep ==
    ASSUME TreeIInv, NEW p \in Proc, Fork(p) \/ Exit(p) \/ ReapedByParent(p)
    PROVE  TreeIInv'
<1> USE SupervisorAssumption
<1>1. CASE Fork(p)
  <2>1. PICK q \in Proc : /\ proc[q] = "none" /\ proc' = [proc EXCEPT ![q] = "alive"]
                          /\ parent' = [parent EXCEPT ![q] = p]
    BY <1>1, Zenon DEF Fork
  <2>2. Rooted'
    BY <1>1, <2>1, RootedFork, ZenonT(60) DEF Fork
  <2>3. q # Command
    BY <1>1, <2>1, Zenon DEF Fork, TreeIInv
  <2> QED BY <1>1, <2>1, <2>2, <2>3, ZenonT(60)
          DEF Fork, TreeIInv, Exists, rVars, reaperRest, supVars, outcome, broker
<1>2. CASE Exit(p)
  BY <1>2, DeathStep, Zenon DEF Exit, reaperRest
<1>3. CASE ReapedByParent(p)
  <2>1. Rooted'
    <3>1. \A q \in Proc : Exists(q)' => Exists(q)
      BY <1>3, Zenon DEF ReapedByParent, Exists, TreeIInv
    <3>2. \A q \in Proc : Exists(q)' => Exists(q) /\ parent'[q] = parent[q]
                          /\ (parent[q] = Reaper \/ proc'[parent[q]] = proc[parent[q]])
      BY <1>3, <3>1, Zenon DEF ReapedByParent, TreeIInv, Rooted
    <3> QED BY <3>1, <3>2, RootedShrinks, ZenonT(60)
  <2> QED BY <1>3, <2>1, Zenon DEF ReapedByParent, TreeIInv, Exists, rVars, reaperRest, supVars,
                            outcome, broker
<1> QED BY <1>1, <1>2, <1>3, Zenon

(***************************************************************************)
(* A step that leaves the process table alone leaves the tree as it is.     *)
(***************************************************************************)
LEMMA RootedSame ==
    ASSUME TreeIInv, UNCHANGED treeVars
    PROVE  Rooted' /\ \A p \in Proc : Exists(p)' = Exists(p)
BY Zenon DEF TreeIInv, Rooted, Exists, treeVars

(***************************************************************************)
(* Steps of the reaper (run_command_tree, wait_for_command_tree,            *)
(* signal_descendants): it forks the command, collects zombies, and kills.  *)
(***************************************************************************)
LEMMA ReaperKeepsTree ==
    ASSUME TreeIInv, ReaperStep \/ SignalFails \/ Deadline \/ Lifetime
    PROVE  TreeIInv'
<1> USE SupervisorAssumption
<1>1. CASE Boot
  <2>1. Rooted'
    <3>1. proc[Command] = "none" /\ parent' = [parent EXCEPT ![Command] = Reaper]
      BY <1>1, Zenon DEF Boot, TreeIInv
    <3> QED BY <1>1, <3>1, RootedFork, ZenonT(60) DEF Boot
  <2> QED BY <1>1, <2>1, Zenon DEF Boot, TreeIInv, Exists, supVars, outcome, broker
<1>2. CASE BootKilled
  <2>1. Rooted' /\ \A p \in Proc : ~Exists(p)'
    BY <1>2, RootedSame, ZenonT(60) DEF BootKilled, TreeIInv, Exists
  <2> QED BY <1>2, <2>1, Zenon DEF BootKilled, TreeIInv, treeVars, supVars, outcome, broker
<1>3. CASE Reap
  <2>1. ASSUME NEW p \in Children(Reaper), proc[p] = "zombie",
               proc' = [proc EXCEPT ![p] = "gone"], code' = exit_code(p), UNCHANGED rpc
        PROVE  TreeIInv'
    <3>1. Rooted'
      <4>1. \A q \in Proc : Exists(q)' => Exists(q)
        BY <2>1, Zenon DEF Exists, TreeIInv
      <4>2. \A q \in Proc : Exists(q)' => Exists(q) /\ parent'[q] = parent[q]
                            /\ (parent[q] = Reaper \/ proc'[parent[q]] = proc[parent[q]])
        BY <1>3, <2>1, <4>1, Zenon DEF Reap, TreeIInv, Rooted
      <4> QED BY <4>1, <4>2, RootedShrinks, ZenonT(60)
    <3> QED BY <1>3, <2>1, <3>1, Zenon
            DEF Reap, TreeIInv, Exists, Children, exit_code, supVars, outcome, broker
  <2>2. CASE /\ rpc' = IF ECHILD THEN "zombie" ELSE "decide"
             /\ UNCHANGED <<proc, code>>
    <3>1. UNCHANGED treeVars
      BY <1>3, <2>2, Zenon DEF Reap, treeVars
    <3>2. Rooted' /\ \A p \in Proc : Exists(p)' = Exists(p)
      BY <3>1, RootedSame, Zenon
    <3>3. rpc' = "zombie" => \A p \in Proc : ~Exists(p)'
      BY <2>2, <3>2, NoChildNoTree, Zenon DEF ECHILD
    <3> QED BY <1>3, <2>2, <3>2, <3>3, Zenon DEF Reap, TreeIInv, supVars, outcome, broker
  <2> QED BY <1>3, <2>1, <2>2, Zenon DEF Reap
<1>4. CASE Signal
  <2>1. ASSUME proc[Last(victims)] = "alive", Dead(Last(victims)), Last(victims) \in Proc,
               UNCHANGED rpc
        PROVE  TreeIInv'
    BY <1>4, <2>1, DeathStep, Zenon DEF Signal
  <2>2. ASSUME Dead(Last(victims)), Last(victims) \notin Proc
        PROVE  UNCHANGED treeVars
    BY <2>2, ZenonT(60) DEF Dead, TreeIInv, treeVars
  <2>3. ASSUME UNCHANGED treeVars PROVE TreeIInv'
    <3>1. Rooted' /\ \A p \in Proc : Exists(p)' = Exists(p)
      BY <2>3, RootedSame, Zenon
    <3> QED BY <1>4, <2>3, <3>1, Zenon DEF Signal, TreeIInv, treeVars, supVars, outcome, broker
  <2> QED BY <1>4, <2>1, <2>2, <2>3, Zenon DEF Signal
<1>5. CASE Decide \/ Walk \/ Sleep \/ SignalFails \/ Deadline \/ Lifetime
  <2>1. /\ UNCHANGED treeVars /\ UNCHANGED code /\ UNCHANGED supVars
        /\ rpc # "boot" \/ UNCHANGED rpc
        /\ rpc' # "boot" \/ UNCHANGED rpc
        /\ rpc \in {"zombie", "gone"} => UNCHANGED <<rpc, rfail>>
        /\ rpc' \in {"zombie", "gone"} => UNCHANGED <<rpc, rfail>> \/ rfail'
    BY <1>5, ZenonT(60) DEF Decide, Walk, Sleep, SignalFails, Deadline, Lifetime
  <2>2. Rooted' /\ \A p \in Proc : Exists(p)' = Exists(p)
    BY <2>1, RootedSame, Zenon
  <2> QED BY <2>1, <2>2 DEF TreeIInv, treeVars, supVars, outcome, broker
<1> QED BY <1>1, <1>2, <1>3, <1>4, <1>5, Zenon DEF ReaperStep

(***************************************************************************)
(* Steps of the supervisor and of the broker's task, as the supervisor sees *)
(* it: none touches the tree, and none gets past the loops before the       *)
(* reaper is collected.                                                     *)
(***************************************************************************)
LEMMA SupervisorKeepsTree ==
    ASSUME TreeIInv,
           \/ Interrupt \/ SupKilled \/ Started \/ StartFails \/ WaitChild
           \/ LoopWait \/ LoopSignal \/ LoopService \/ DrainSignal \/ DrainService
           \/ Finish \/ ServiceEnds \/ UNCHANGED vars
    PROVE  TreeIInv'
<1>1. UNCHANGED treeVars /\ UNCHANGED <<rfail, code>>
  BY Zenon DEF Interrupt, SupKilled, Started, StartFails, WaitChild, LoopWait, LoopSignal, LoopService,
         DrainSignal, DrainService, Finish, ServiceEnds, vars, rVars, reaperRest
<1>2. Rooted' /\ \A p \in Proc : Exists(p)' = Exists(p)
  BY <1>1, RootedSame, Zenon
<1> USE DEF TreeIInv, treeVars, rVars, supVars, outcome, broker
<1>3. CASE Interrupt \/ SupKilled
  <2>1. CASE Interrupt
    <3>1. UNCHANGED <<rpc, wait, ready, failed, sup>>
      BY <2>1, Zenon DEF Interrupt
    <3> QED BY <1>1, <1>2, <3>1, Zenon
  <2>2. CASE SupKilled
    <3>1. UNCHANGED <<rpc, ready>> /\ sup' = "killed" /\ wait' = "waiting"
      BY <2>2, Zenon DEF SupKilled
    <3> QED BY <1>1, <1>2, <3>1, Zenon
  <2> QED BY <1>3, <2>1, <2>2, Zenon
<1>4. CASE Started \/ StartFails
  BY <1>1, <1>2, <1>4 DEF Started, StartFails
<1>5. CASE WaitChild
  BY <1>1, <1>2, <1>5, Zenon DEF WaitChild
<1>6. CASE LoopWait \/ LoopSignal
  BY <1>1, <1>2, <1>6, Zenon DEF LoopWait, LoopSignal
<1>7. CASE LoopService
  BY <1>1, <1>2, <1>7, Zenon DEF LoopService
<1>8. CASE DrainSignal \/ ServiceEnds
  BY <1>1, <1>2, <1>8, Zenon DEF DrainSignal, ServiceEnds
<1>9. CASE DrainService
  BY <1>1, <1>2, <1>9, Zenon DEF DrainService
<1>10. CASE Finish
  BY <1>1, <1>2, <1>10, Zenon DEF Finish
<1>11. CASE UNCHANGED vars
  BY <1>1, <1>2, <1>11, Zenon DEF vars
<1> QED BY <1>3, <1>4, <1>5, <1>6, <1>7, <1>8, <1>9, <1>10, <1>11, ZenonT(60)

(***************************************************************************)
(* The tree is rooted at the reaper and the reaper outlives it, in every    *)
(* state of supervisor, reaper, broker and command tree.                    *)
(***************************************************************************)
THEOREM TreeInvariant == Spec => []TreeIInv
<1>1. Init => TreeIInv
  BY SupervisorAssumption, Zenon DEF Init, TreeIInv, Rooted, Exists
<1>2. TreeIInv /\ [Next]_vars => TreeIInv'
  BY TreeStep, ReaperKeepsTree, SupervisorKeepsTree, Zenon DEF Next, ReaperStep
<1> QED BY <1>1, <1>2, PTL DEF Spec

(***************************************************************************)
(* "Keep the reaper alive until every descendant has been collected"        *)
(* (process.rs:121): whatever the tree forks, orphans or ignores, and for   *)
(* any number of processes, none is left when the supervisor exits, unless  *)
(* the reaper itself failed.                                                *)
(***************************************************************************)
THEOREM TreeGoneAtExit == Spec => []TreeGone
<1>1. TreeIInv => TreeGone
  BY Zenon DEF TreeIInv, TreeGone
<1> QED BY <1>1, TreeInvariant, PTL

(***************************************************************************)
(* The status the supervisor exits with is the command's (process.rs:92-107,*)
(* main.rs:166-170), never that of another process the reaper collected.    *)
(***************************************************************************)
THEOREM StatusIsCommands == Spec => []CommandStatus
<1>1. TreeIInv => CommandStatus
  BY SupervisorAssumption, Zenon DEF TreeIInv, CommandStatus, Exists
<1> QED BY <1>1, TreeInvariant, PTL
===============================================================================
