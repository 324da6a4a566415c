-------------------------------- MODULE DnsTcp --------------------------------
(***************************************************************************)
(* DNS over one TCP connection (broker/dns.rs, serve_tcp): the client may   *)
(* pipeline queries, stop in the middle of one, close, or go silent.        *)
(***************************************************************************)
EXTENDS DnsWire

CONSTANTS Messages,      \* what the client may send as one query: bytes, and, where they are
                         \* a good query, the labels and the type they ask for
          resolve(_),    \* FakeDns::resolve: the address of a domain, as octets
          MaxQueries     \* bound: queries on the connection

VARIABLES stream,    \* bytes of the client not yet read
          ended,     \* the client has closed its side
          asked,     \* history: the messages sent completely
          place,     \* the server: "prefix", "query", "length", "response", "done", "invalid", "error"
          size,      \* length of the query being read
          reply,     \* response being written
          out        \* bytes written to the client

dnsVars == <<stream, ended, asked, place, size, reply, out>>

DnsInit ==
    /\ stream = <<>> /\ ended = FALSE /\ asked = <<>>
    /\ place = "prefix" /\ size = 0 /\ reply = <<>> /\ out = <<>>

Serving == place \notin {"done", "invalid", "error"}
Frame(m) == Be16(Len(m.bytes)) \o m.bytes
-------------------------------------------------------------------------------
ClientAsks(m) ==
    /\ ~ended /\ Serving /\ Len(asked) < MaxQueries
    /\ stream' = stream \o Frame(m)
    /\ asked' = Append(asked, m)
    /\ UNCHANGED <<ended, place, size, reply, out>>

\* The client closes, possibly after the first n bytes of one more query.
ClientStops(n) ==
    /\ ~ended /\ Serving
    /\ stream' = stream \o SubSeq(Frame(CHOOSE m \in Messages : m.good), 1, n)
    /\ ended' = TRUE
    /\ UNCHANGED <<asked, place, size, reply, out>>

(***************************************************************************)
(* Resolver::answer, up to the address FakeDns gives.                       *)
(***************************************************************************)
Response(data) ==
    LET q == parse_query(data)
    IN  IF ~q.ok THEN <<>>
        ELSE IF q.qtype = 1 THEN build_a_response(q.id, q.domain, resolve(q.domain))
        ELSE build_empty_response(q.id, q.domain, q.qtype)

(***************************************************************************)
(* One exchange of serve_tcp: read_exact of the prefix, where the end of    *)
(* the stream ends the connection cleanly, read_exact of the query, and the *)
(* two writes.                                                              *)
(***************************************************************************)
ReadPrefix ==
    /\ place = "prefix"
    /\ \/ /\ Len(stream) >= 2
          /\ size' = U16(stream, 1)
          /\ stream' = SubSeq(stream, 3, Len(stream))
          /\ place' = "query"
       \/ /\ Len(stream) < 2 /\ ended
          /\ place' = "done" /\ UNCHANGED <<stream, size>>
    /\ UNCHANGED <<ended, asked, reply, out>>

ReadQuery ==
    /\ place = "query"
    /\ \/ /\ Len(stream) >= size
          /\ reply' = Response(SubSeq(stream, 1, size))
          /\ stream' = SubSeq(stream, size + 1, Len(stream))
          /\ place' = IF reply' = <<>> THEN "invalid" ELSE "length"
       \/ /\ Len(stream) < size /\ ended
          /\ place' = "invalid" /\ UNCHANGED <<stream, reply>>
    /\ UNCHANGED <<ended, asked, size, out>>

WriteLength ==
    /\ place = "length"
    /\ out' = out \o Be16(Len(reply))
    /\ place' = "response"
    /\ UNCHANGED <<stream, ended, asked, size, reply>>

WriteResponse ==
    /\ place = "response"
    /\ out' = out \o reply
    /\ reply' = <<>> /\ size' = 0 /\ place' = "prefix"
    /\ UNCHANGED <<stream, ended, asked>>

\* The 32 second timer of an exchange; a reset by the client ends it the same way.
Bug_PrefixTimer ==
    /\ place \in {"query", "length", "response"}
    /\ place' = "error"
    /\ UNCHANGED <<stream, ended, asked, size, reply, out>>

ExchangeTimeout ==
    /\ Serving
    /\ place' = "error"
    /\ UNCHANGED <<stream, ended, asked, size, reply, out>>

DnsNext ==
    \/ \E m \in Messages : ClientAsks(m)
    \/ \E n \in {0, 1, 2, 9} : ClientStops(n)
    \/ ReadPrefix \/ ReadQuery \/ WriteLength \/ WriteResponse \/ ExchangeTimeout

-------------------------------------------------------------------------------
(***************************************************************************)
(* The reference: the question section that asks for a list of labels and a *)
(* type, and the replies a client finds in what it has received.            *)
(***************************************************************************)
Question(labels, qtype) ==
    FlattenSeq([i \in DOMAIN labels |-> <<Len(labels[i])>> \o labels[i]])
        \o <<0>> \o Be16(qtype) \o <<0, 1>>

Replies ==
    LET from[pos \in Nat] ==
            LET end == pos + 1 + U16(out, pos)
            IN  IF pos >= Len(out) \/ end > Len(out) THEN <<>>
                ELSE <<SubSeq(out, pos + 2, end)>> \o from[end + 1]
    IN  from[1]

Answers(r, m) ==
    LET q == Question(m.labels, m.qtype)
        n == 12 + Len(q)
    IN  /\ m.good /\ Len(r) >= n
        /\ SubSeq(r, 1, 2) = SubSeq(m.bytes, 1, 2) /\ r[3] >= 128
        /\ SubSeq(r, 13, n) = q
        /\ IF m.qtype = 1
           THEN r[8] = 1 /\ SubSeq(r, Len(r) - 3, Len(r)) = resolve(Join(m.labels))
           ELSE r[8] = 0 /\ Len(r) = n

(***************************************************************************)
(* The client finds, in the order of its queries, for each well-formed one  *)
(* a reply with its id, its question and, for an A query, its domain's      *)
(* address.  A client that closes after its last query still gets every     *)
(* reply, and only a malformed or cut off query ends the connection as      *)
(* invalid (serve_tcp's framing; parse_query against encode_name).          *)
(***************************************************************************)
RepliesMatch ==
    LET r == Replies
    IN  /\ Len(r) <= Len(asked)
        /\ \A i \in DOMAIN r : Answers(r[i], asked[i])
        /\ place = "done" => Len(r) = Len(asked)
        /\ place = "invalid" => Len(r) = Len(asked) \/ ~asked[Len(r) + 1].good

(***************************************************************************)
(* An exchange ends although the client goes silent or stops reading.       *)
(***************************************************************************)
ExchangeEnds ==
    \A n \in 0..MaxQueries :
        Serving /\ Len(Replies) = n ~> ~Serving \/ Len(Replies) > n
===============================================================================
