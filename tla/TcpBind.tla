------------------------------- MODULE TcpBind --------------------------------
(***************************************************************************)
(* prepare (broker/tcp_bind.rs): give the application's socket a source     *)
(* port before it connects to the relay, and on failure leave it as it was. *)
(* Each kernel call is one step; meanwhile other sockets take and release   *)
(* ports, and another application thread may bind the same socket.          *)
(***************************************************************************)
EXTENDS Naturals, FiniteSets

CONSTANTS Ports,    \* ephemeral ports
          Wildcard, Ip   \* INADDR_ANY, and an address the application has bound

ASSUME BindAssumption == Ports \subseteq Nat \ {0} /\ Wildcard # Ip

VARIABLES
    sock,       \* the socket: its address and IP_BIND_ADDRESS_NO_PORT
    free,       \* ports nobody has
    at,         \* prepare
    saved,      \* source and delayed, as prepare has read them
    outcome,    \* "none", "ok" or "error"
    orig,       \* history: the socket before prepare
    fault       \* history: calls that failed, and "other" for a bind by another thread

bindVars == <<sock, free, at, saved, outcome, orig, fault>>

BindInit ==
    /\ sock \in [ip : {Wildcard, Ip}, port : {0}, delayed : BOOLEAN]
    /\ free \in SUBSET Ports
    /\ at = "source" /\ saved = sock /\ outcome = "none"
    /\ orig = sock /\ fault = {}

(***************************************************************************)
(* The kernel's bind to ip and port 0.  It refuses when the socket has a    *)
(* port, and may refuse for reasons of its own (the address is gone, memory,*)
(* policy); with the option set the port is left for later; otherwise a     *)
(* free port is taken, and when there is none the address is cleared.       *)
(***************************************************************************)
kernel_bind(ip, ok) ==
    \/ ~ok /\ UNCHANGED <<sock, free>>
    \/ /\ sock.port = 0 /\ sock.delayed /\ ok
       /\ sock' = [sock EXCEPT !.ip = ip] /\ UNCHANGED free
    \/ /\ sock.port = 0 /\ ~sock.delayed /\ ok
       /\ \E p \in free : sock' = [sock EXCEPT !.ip = ip, !.port = p] /\ free' = free \ {p}
    \/ /\ sock.port = 0 /\ ~sock.delayed /\ ~ok /\ free = {}
       /\ sock' = [sock EXCEPT !.ip = Wildcard] /\ UNCHANGED free

defer_port(enabled, ok) ==
    /\ sock' = IF ok THEN [sock EXCEPT !.delayed = enabled] ELSE sock
    /\ fault' = IF ok THEN fault ELSE fault \cup {at}
    /\ UNCHANGED free
-------------------------------------------------------------------------------
Source ==               \* getsockname and getsockopt
    /\ at = "source"
    /\ saved' = sock
    /\ IF sock.port # 0 THEN at' = "end" /\ outcome' = "ok"
       ELSE at' = (IF sock.delayed THEN "disable" ELSE "bind") /\ UNCHANGED outcome
    /\ UNCHANGED <<sock, free, orig, fault>>

Disable ==
    /\ at = "disable"
    /\ \E ok \in BOOLEAN :
          /\ defer_port(FALSE, ok)
          /\ IF ok THEN at' = "bind" /\ UNCHANGED outcome ELSE at' = "end" /\ outcome' = "error"
    /\ UNCHANGED <<saved, orig>>

Reserve ==
    /\ at = "bind"
    /\ \E ok \in BOOLEAN :
          /\ kernel_bind(saved.ip, ok)
          /\ at' = IF ~ok THEN "defer" ELSE IF saved.delayed THEN "enable" ELSE "port"
    /\ UNCHANGED <<saved, outcome, orig, fault>>

Bug_NoDefer ==
    /\ at = "defer"
    /\ at' = "rebind"
    /\ UNCHANGED <<sock, free, saved, outcome, orig, fault>>

Defer ==                \* the error path: bind again, without claiming a port
    /\ at = "defer"
    /\ \E ok \in BOOLEAN :
          /\ defer_port(TRUE, ok)
          /\ at' = IF ok THEN "rebind" ELSE "option"
    /\ UNCHANGED <<saved, outcome, orig>>

Rebind ==
    /\ at = "rebind"
    /\ \E ok \in BOOLEAN :
          /\ kernel_bind(saved.ip, ok)
          /\ fault' = IF ok THEN fault ELSE fault \cup {at}
    /\ at' = "option"
    /\ UNCHANGED <<saved, outcome, orig>>

RestoreOption ==        \* always tried; the call fails whatever comes of it
    /\ at = "option"
    /\ \E ok \in BOOLEAN : defer_port(saved.delayed, ok)
    /\ at' = "end" /\ outcome' = "error"
    /\ UNCHANGED <<saved, orig>>

Enable ==               \* the reserved port stays
    /\ at = "enable"
    /\ \E ok \in BOOLEAN :
          /\ defer_port(TRUE, ok)
          /\ IF ok THEN at' = "port" /\ UNCHANGED outcome ELSE at' = "end" /\ outcome' = "error"
    /\ UNCHANGED <<saved, orig>>

Port ==
    /\ at = "port"
    /\ at' = "end" /\ outcome' = IF sock.port = 0 THEN "error" ELSE "ok"
    /\ UNCHANGED <<sock, free, saved, orig, fault>>

OtherSockets ==         \* take or release a port
    /\ at # "end"
    /\ \E p \in Ports \ {sock.port} : free' = IF p \in free THEN free \ {p} ELSE free \cup {p}
    /\ UNCHANGED <<sock, at, saved, outcome, orig, fault>>

OtherThread ==          \* binds the socket to an address and port of its own
    /\ at # "end" /\ sock.port = 0
    /\ \E p \in free : sock' = [sock EXCEPT !.ip = Ip, !.port = p] /\ free' = free \ {p}
    /\ fault' = fault \cup {"other"}
    /\ UNCHANGED <<at, saved, outcome, orig>>

BindNext ==
    \/ Source \/ Disable \/ Reserve \/ Defer \/ Rebind \/ RestoreOption \/ Enable \/ Port
    \/ OtherSockets \/ OtherThread
-------------------------------------------------------------------------------
(***************************************************************************)
(* A reservation that fails leaves the socket as it was, with its address,  *)
(* its option and no port, unless one of the restoring calls failed itself; *)
(* one that succeeds has added a port and nothing else ("Restore the        *)
(* address without claiming another port", tcp_bind.rs:17-18, while ports   *)
(* come and go).  An address that another thread binds meanwhile is kept,   *)
(* and so is the option.                                                    *)
(***************************************************************************)
ReservationRestores ==
    at = "end" =>
        /\ outcome = "ok" => sock.port # 0
        /\ fault \cap {"disable", "defer", "option", "enable"} = {} =>
              /\ sock.delayed = orig.delayed
              /\ "other" \in fault => sock.ip = Ip /\ sock.port # 0
              /\ fault = {} => sock.ip = orig.ip /\ (outcome = "error" => sock = orig)
===============================================================================
