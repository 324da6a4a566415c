------------------------------- MODULE TcpTable -------------------------------
(***************************************************************************)
(* TcpConnect as an implementation of PeerTable: the kernel's sockets give  *)
(* the links, the calls between insert and commit the connects in progress. *)
(***************************************************************************)
EXTENDS TcpConnect

linkOf == [s \in Socket |-> IF Closed(s) THEN "down"
                            ELSE IF tcp[s].committed # None THEN "relayed" ELSE "up"]

wantOf == [s \in Socket |-> tcp[s].committed]

busyOf == [s \in Socket |->
              LET mine == {c \in Call : Inserted(c) /\ call[c].sock = s}
              IN  IF mine = {} THEN None ELSE call[CHOOSE c \in mine : TRUE].tgt]

Abstract == INSTANCE PeerTable WITH link <- linkOf, want <- wantOf, busy <- busyOf

(***************************************************************************)
(* The peer table of this composition is PeerTable's (tcp.rs:98-125,        *)
(* engine.rs:137-158), so what is proved of PeerTable holds here.           *)
(***************************************************************************)
TableRefined == Abstract!Spec
===============================================================================
