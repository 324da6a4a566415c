------------------------------ MODULE MCRouting ------------------------------
(* A small address space for model checking Routing. *)
EXTENDS Routing

(* 0.0.0.0 and one address that stands for 127.0.0.0/8. *)
LoopbackAndZero == {a \in Ipv4 : \A i \in 1..(W - 1) : a[i] = 0}
=============================================================================
