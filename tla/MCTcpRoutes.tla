----------------------------- MODULE MCTcpRoutes ------------------------------
(***************************************************************************)
(* TcpConnect with two sockets that use one port one after the other.  The  *)
(* application makes MaxCalls calls in all; whatever they leave behind, in  *)
(* the accept queue, the waiting lists and the relays, then runs dry.       *)
(***************************************************************************)
EXTENDS MCTcpConnect

CONSTANT MaxCalls

VARIABLE calls

Started == {c \in Call : pc[c] = "idle" /\ pc'[c] # "idle"}

RoutesNext ==
    /\ Next
    /\ calls' = calls + Cardinality(Started)
    /\ calls' <= MaxCalls

RoutesSpec == Init /\ calls = 0 /\ [][RoutesNext]_<<vars, calls>>
===============================================================================
