----------------------------- MODULE MCUpstream ------------------------------
(***************************************************************************)
(* What serves an accepted stream (broker/tcp.rs:123-159): the DNS server,  *)
(* the direct connector, or a proxy client.  Each behaviour takes one.      *)
(***************************************************************************)
EXTENDS Handshake, Direct, DnsTcp

VARIABLE via

allVars == <<via, proxyVars, directVars, dnsVars>>

UpstreamInit ==
    /\ via \in {"dns", "direct", "proxy"}
    /\ HandshakeInit /\ DirectInit /\ DnsInit
    /\ via # "proxy" => kind = "http" /\ auth = "none" /\ target = "ip"

UpstreamNext ==
    \/ via = "proxy" /\ HandshakeNext /\ UNCHANGED <<via, directVars, dnsVars>>
    \/ via = "direct" /\ DirectNext /\ UNCHANGED <<via, proxyVars, dnsVars>>
    \/ via = "dns" /\ DnsNext /\ UNCHANGED <<via, proxyVars, directVars>>

UpstreamSpec ==
    /\ UpstreamInit /\ [][UpstreamNext]_allVars
    /\ WF_proxyVars(via = "proxy" /\ Timeout) /\ WF_proxyVars(via = "proxy" /\ Read)
    /\ DirectFairness
    /\ WF_dnsVars(via = "dns" /\ ExchangeTimeout)

(***************************************************************************)
(* Whatever serves a stream, setting it up and every exchange on it end:    *)
(* the proxy handshake, the direct connect and the DNS exchange, against    *)
(* servers, resolvers and clients that go silent at any point.              *)
(***************************************************************************)
ServiceSettles ==
    /\ via = "proxy" => Settles
    /\ via = "direct" => ConnectEnds
    /\ via = "dns" => ExchangeEnds

-----------------------------------------------------------------------------
(* Direct: the tens digit of an address tells its host. *)
MCHostOf == [x \in Address |-> x \div 10]

(* DNS: good queries, cut ones, and ones with a broken header, label or name. *)
a == <<97>>
bc == <<98, 99>>
MCResolve(domain) == <<198, 18, Len(domain), IF domain = <<>> THEN 0 ELSE domain[1]>>

Good(labels, qtype) ==
    [bytes |-> <<1 + Len(labels), qtype, 1, 0, 0, 1, 0, 0, 0, 0, 0, 0>> \o Question(labels, qtype),
     labels |-> labels, qtype |-> qtype, good |-> Len(Join(labels)) <= MaxName]
Broken(m, bytes) == [m EXCEPT !.bytes = bytes, !.good = FALSE]
Names == {<<>>, <<a>>, <<bc, a>>, <<a, a, a>>}
Whole == Good(<<bc, a>>, 1)
MCMessages ==
    {Good(n, t) : n \in Names, t \in {1, 28}}
        \cup {[Good(<<a>>, 1) EXCEPT !.bytes = @ \o <<0, 41>>]}                    \* a further record
        \cup {Broken(Whole, SubSeq(Whole.bytes, 1, n)) : n \in {0, 11, 12, 14, 17, 21}}
        \cup {Broken(Whole, [Whole.bytes EXCEPT ![i[1]] = i[2]]) :
                  i \in {<<3, 129>>, <<6, 0>>, <<13, 192>>, <<13, 64>>, <<13, 63>>, <<14, 255>>}}
=============================================================================
