------------------------------- MODULE FakeDns --------------------------------
(***************************************************************************)
(* The FakeIP pool (src/src/fake_dns.rs) behind the broker's resolver       *)
(* (src/src/broker/dns.rs): DNS clients ask for domains and keep the        *)
(* addresses they are given; a later connect turns the address back into a  *)
(* domain.  In between, other clients may make the pool wrap around.        *)
(*                                                                         *)
(* Addresses are integers: DNS_ADDR = POOL_START - 1, then the pool.  All   *)
(* pool operations run under Resolver's one mutex, so each is one step.     *)
(***************************************************************************)
EXTENDS Integers, Sequences

CONSTANTS Domain,       \* domain names
          Client,       \* DNS clients: application threads
          POOL_START,   \* first domain address
          PoolSize,     \* POOL_SIZE
          None

ASSUME PoolAssumption == /\ POOL_START \in Nat \ {0}
                         /\ PoolSize \in Nat \ {0}
                         /\ None \notin Domain
                         /\ None \notin Int

DNS_ADDR == POOL_START - 1
POOL_END == POOL_START + PoolSize - 1
Pool     == POOL_START .. POOL_END

VARIABLES domain_to_ip, ip_to_domain,   \* the two HashMaps; None is "absent"
          next_offset,                  \* pool index of the next allocation
          held                          \* per client: the last A answer it keeps

vars == <<domain_to_ip, ip_to_domain, next_offset, held>>

(***************************************************************************)
(* An answer a client keeps.  fresh: the query allocated the mapping (it    *)
(* did not hit an existing one); since: allocations made after the answer,  *)
(* counted up to PoolSize.  Both are history, read by no action.            *)
(***************************************************************************)
Answer == [domain : Domain, ip : Pool, fresh : BOOLEAN, since : 0..PoolSize]

TypeOK ==
    /\ domain_to_ip \in [Domain -> Pool \cup {None}]
    /\ ip_to_domain \in [Pool -> Domain \cup {None}]
    /\ next_offset \in 0..(PoolSize - 1)
    /\ held \in [Client -> Answer \cup {None}]

Init ==
    /\ domain_to_ip = [d \in Domain |-> None]
    /\ ip_to_domain = [ip \in Pool |-> None]
    /\ next_offset = 0
    /\ held = [c \in Client |-> None]
-------------------------------------------------------------------------------
lookup(ip) == IF ip \in Pool THEN ip_to_domain[ip] ELSE None

is_fake_ip(ip) == ip = DNS_ADDR \/ (POOL_START <= ip /\ ip <= POOL_END)

(***************************************************************************)
(* Resolver::target: what a connect to ip is routed to.                     *)
(***************************************************************************)
target(ip) ==
    IF is_fake_ip(ip)
    THEN IF lookup(ip) = None THEN [kind |-> "ENETUNREACH"]
                              ELSE [kind |-> "Domain", host |-> lookup(ip)]
    ELSE [kind |-> "Ip", addr |-> ip]

Bug_WrapEarly(n) == IF n >= PoolSize - 2 THEN 0 ELSE n + 1

Advance(n) == IF n = PoolSize - 1 THEN 0 ELSE n + 1     \* (n + 1) % PoolSize

OneMore(a) == [a EXCEPT !.since = IF @ < PoolSize THEN @ + 1 ELSE @]

Hold(c, d, ip) ==      \* c keeps a new answer, every other answer grows older
    held' = [x \in Client |->
                IF x = c THEN [domain |-> d, ip |-> ip, fresh |-> TRUE, since |-> 0]
                ELSE IF held[x] = None THEN None ELSE OneMore(held[x])]

Bug_ForgetOneWay(c, d) ==
    LET ip == POOL_START + next_offset
    IN  /\ domain_to_ip[d] = None
        /\ next_offset' = Advance(next_offset)
        /\ ip_to_domain' = [ip_to_domain EXCEPT ![ip] = d]
        /\ domain_to_ip' = [domain_to_ip EXCEPT ![d] = ip]
        /\ Hold(c, d, ip)

(***************************************************************************)
(* resolve on a domain without a mapping: take the slot at next_offset and  *)
(* forget its previous domain in both directions.                           *)
(***************************************************************************)
Allocate(c, d) ==
    LET ip  == POOL_START + next_offset
        old == ip_to_domain[ip]
    IN  /\ domain_to_ip[d] = None
        /\ next_offset' = Advance(next_offset)
        /\ ip_to_domain' = [ip_to_domain EXCEPT ![ip] = d]
        /\ domain_to_ip' = [x \in Domain |-> IF x = d THEN ip
                                             ELSE IF x = old THEN None
                                             ELSE domain_to_ip[x]]
        /\ Hold(c, d, ip)

(***************************************************************************)
(* resolve on the fast path: the mapping exists and is only read.           *)
(***************************************************************************)
Reuse(c, d) ==
    /\ domain_to_ip[d] # None
    /\ held' = [held EXCEPT ![c] = [domain |-> d, ip |-> domain_to_ip[d],
                                    fresh |-> FALSE, since |-> 0]]
    /\ UNCHANGED <<domain_to_ip, ip_to_domain, next_offset>>

(***************************************************************************)
(* Resolver::answer for an A query; any other type gets an empty answer and *)
(* touches nothing.                                                         *)
(***************************************************************************)
answer(c, d) == Allocate(c, d) \/ Reuse(c, d)

Next == \E c \in Client, d \in Domain : answer(c, d)

Spec == Init /\ [][Next]_vars
-------------------------------------------------------------------------------
(***************************************************************************)
(* The two HashMaps are inverse to each other: eviction forgets both        *)
(* directions (fake_dns.rs:61-67), so a connect recovers a domain that      *)
(* still resolves to the address it was given.                              *)
(***************************************************************************)
MapsAgree ==
    /\ \A d \in Domain : domain_to_ip[d] # None => ip_to_domain[domain_to_ip[d]] = d
    /\ \A ip \in Pool : ip_to_domain[ip] # None => domain_to_ip[ip_to_domain[ip]] = ip

(***************************************************************************)
(* An address handed out by an allocation leads a connect back to its       *)
(* domain until PoolSize further allocations have been made, whatever other *)
(* clients ask for (resolve then Resolver::target, fake_dns.rs:52-75).      *)
(***************************************************************************)
FreshAnswerRecovers ==
    \A c \in Client :
        held[c] # None /\ held[c].fresh /\ held[c].since < PoolSize
            => target(held[c].ip) = [kind |-> "Domain", host |-> held[c].domain]

(***************************************************************************)
(* A mapping never changes under a client except by the wrap-around reaching*)
(* its slot: "The same domain always gets the same IP until it is evicted   *)
(* by pool wrap-around" (fake_dns.rs:49-51).                                *)
(***************************************************************************)
StableUntilWrap ==
    [][\A d \in Domain :
          domain_to_ip[d] # None /\ domain_to_ip'[d] # domain_to_ip[d]
              => domain_to_ip[d] = POOL_START + next_offset /\ domain_to_ip'[d] = None]_vars

(***************************************************************************)
(* The pool refines the FIFO of domains: reading the slots from next_offset *)
(* on, around the ring, lists the mapped domains from the oldest allocation *)
(* to the newest.                                                           *)
(***************************************************************************)
Ring == [i \in 1..PoolSize |-> ip_to_domain[POOL_START + ((next_offset + i - 1) % PoolSize)]]

Fifo == INSTANCE DomainFifo WITH known <- SelectSeq(Ring, LAMBDA d : d # None)

(***************************************************************************)
(* "When the pool is exhausted allocations wrap around and the oldest       *)
(* mapping is silently overwritten" (fake_dns.rs:30-31).                    *)
(***************************************************************************)
EvictsOldest == Fifo!Spec
===============================================================================
