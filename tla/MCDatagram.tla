----------------------------- MODULE MCDatagram -----------------------------
(* The calls of the checked instance of Datagram. *)
EXTENDS Datagram

Resolver == CHOOSE d \in Port53 : d # Virtual

(* Receives and sends, single and in batches of up to two.  A call has at  *)
(* most one deadline, the batch's own for recvmmsg, and none if it never   *)
(* blocks.  Sends name a resolver, no address, or one that is not on port  *)
(* 53.  Smaller batches, and sends that are refused, have no flags.        *)
Calls ==
  {r \in Request :
     /\ r.timed # {} => ~r.nonblock /\ r.timed = {IF r.batch THEN "batch" ELSE "socket"}
     /\ r.to \in {None, Resolver} \cup (Destination \ Port53)
     /\ r.to \in Destination \ Port53 => ~r.nonblock /\ r.timed = {}
     /\ r.batch /\ r.count < 2 => ~r.waitone /\ ~r.nonblock /\ r.timed = {} /\ r.to = None}
=============================================================================
