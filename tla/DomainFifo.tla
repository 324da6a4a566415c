------------------------------ MODULE DomainFifo ------------------------------
(***************************************************************************)
(* What FakeDns promises, without addresses: at most PoolSize domains are   *)
(* known at a time; asking for a known domain changes nothing; a new one    *)
(* displaces the domain that has been known longest, and only when the pool *)
(* is full (src/src/fake_dns.rs:28-31 and 49-51).                           *)
(***************************************************************************)
EXTENDS Naturals, Sequences

CONSTANTS Domain, PoolSize

VARIABLE known      \* the mapped domains, oldest allocation first

Known == {known[i] : i \in 1..Len(known)}

Init == known = <<>>

Ask(d) ==
    /\ d \notin Known
    /\ known' = Append(IF Len(known) = PoolSize THEN Tail(known) ELSE known, d)

Next == \E d \in Domain : Ask(d)

Spec == Init /\ [][Next]_known
===============================================================================
