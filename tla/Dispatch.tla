------------------------------- MODULE Dispatch -------------------------------
(***************************************************************************)
(* One system call from the filter to its answer: the kernel's notification *)
(* (broker/seccomp.rs), Broker::dispatch (broker/engine.rs), the access to  *)
(* the caller's descriptors (broker/access.rs) and the resolver files       *)
(* (broker/files.rs).  Between any two kernel calls of the broker, threads  *)
(* of the caller's process close and reuse the descriptor, a signal         *)
(* withdraws the notification, the caller or its process dies, and another  *)
(* process takes its number.                                                *)
(*                                                                         *)
(* One descriptor number is followed, in three descriptor tables: the       *)
(* caller's, its thread group leader's (the same unless the caller has a    *)
(* private one) and that of a stranger that reuses a dead task's number.    *)
(***************************************************************************)
EXTENDS Filter, FiniteSets

CONSTANTS File,       \* open files
          Kind,       \* "tcp", "udp", "unix", or "other": other sockets, and files that are none
          Foreign,    \* the stranger's file
          Closed

ASSUME DispatchAssumption ==
    /\ Foreign \in File /\ Closed \notin File
    /\ Kind \in [File -> {"tcp", "udp", "unix", "other"}]

VARIABLES
    method,     \* SocketAccess::method, "Thread" or "Process"
    shared,     \* the caller shares its leader's descriptor table
    table,      \* what the descriptor number is in each table
    tid, tgid,  \* who has the caller's and its leader's number: itself, "nobody" or "stranger"
    data,       \* the call
    status,     \* "none", "native", "pending", "answered", "gone" (withdrawn), "killed"
    answer,     \* what the call returned
    had,        \* history: the caller's files while its notification was pending
    given,      \* descriptors the broker put into the caller's table during the call
    pc,         \* the task that serves the notification
    request,    \* what it needs of the call
    pidfd,      \* the table behind its pidfd
    dup,        \* the file it has duplicated
    reply       \* what it will answer

targetVars == <<shared, table, tid, tgid>>
callVars   == <<data, status, answer, had, given>>
taskVars   == <<pc, request, pidfd, dup, reply>>
dispatchVars == <<method, targetVars, callVars, taskVars>>

NoCall    == [f \in {"arch", "nr", "args1", "args2", "args3", "args4", "args4+4"} |-> {}]
NoRequest == [op |-> "none", flags |-> {}]

DispatchInit ==
    /\ method \in {"Thread", "Process"} /\ shared \in BOOLEAN
    /\ \E f \in File \ {Foreign} :
          table = [t \in {"caller", "leader", "stranger"} |-> IF t = "stranger" THEN Foreign ELSE f]
    /\ tid = "caller" /\ tgid = "leader"
    /\ data = NoCall /\ status = "none" /\ answer = "none" /\ had = {} /\ given = 0
    /\ pc = "idle" /\ request = NoRequest /\ pidfd = "none" /\ dup = Closed /\ reply = "none"
-------------------------------------------------------------------------------
(* The application and the kernel. *)

Enter(d) ==
    /\ status = "none" /\ pc = "idle" /\ tid = "caller"
    /\ data' = d
    /\ LET verdict == evaluate(d)
       IN  /\ status' = IF verdict = "NOTIFY" THEN "pending"
                        ELSE IF verdict = "KILL" THEN "killed" ELSE "native"
           /\ answer' = IF verdict = "ENOSYS" THEN "ENOSYS" ELSE "none"
           /\ had' = IF verdict = "NOTIFY" THEN {table["caller"]} ELSE {}
    /\ UNCHANGED <<method, targetVars, given, taskVars>>

Return ==
    /\ status \in {"native", "answered", "gone"} /\ pc = "idle" /\ tid = "caller"
    /\ data' = NoCall /\ status' = "none" /\ answer' = "none" /\ had' = {} /\ given' = 0
    /\ UNCHANGED <<method, targetVars, taskVars>>

\* A thread opens, closes or replaces the descriptor in table t.
Change(t, f) ==
    /\ table[t] # f
    /\ table' = [x \in DOMAIN table |-> IF x = t \/ (shared /\ x # "stranger") THEN f ELSE table[x]]
    /\ had' = IF status = "pending" THEN had \cup {table'["caller"]} ELSE had
    /\ UNCHANGED <<method, shared, tid, tgid, data, status, answer, given, taskVars>>

Withdraw == status' = IF status = "pending" THEN "gone" ELSE status

Interrupted ==          \* a signal handler ends the call
    /\ status = "pending" /\ tid = "caller"
    /\ Withdraw /\ answer' = "EINTR"
    /\ UNCHANGED <<method, targetVars, data, had, given, taskVars>>

Dies(process) ==        \* the caller alone, or its process
    /\ tid = "caller" \/ process
    /\ Withdraw
    /\ tid' = IF tid = "caller" THEN "nobody" ELSE tid
    /\ tgid' = IF process /\ tgid = "leader" THEN "nobody" ELSE tgid
    /\ UNCHANGED <<method, shared, table, data, answer, had, given, taskVars>>

Reused ==               \* a stranger gets the number of a dead task
    /\ \/ tid = "nobody" /\ tid' = "stranger" /\ UNCHANGED tgid
       \/ tgid = "nobody" /\ tgid' = "stranger" /\ UNCHANGED tid
    /\ UNCHANGED <<method, shared, table, callVars, taskVars>>
-------------------------------------------------------------------------------
(* The broker. *)

Goto(place)  == pc' = place /\ UNCHANGED reply
Reply(r)     == /\ pc' = "respond"            \* error codes are not told apart in the state
                /\ reply' = IF r \in {"Continue", "Value"} THEN r ELSE "error"
IsValid      == status = "pending"          \* NOTIF_ID_VALID
Idle         == pc' = "idle" /\ reply' = "none" /\ request' = NoRequest /\ pidfd' = "none" /\ dup' = Closed
Kernel       == UNCHANGED <<method, targetVars, callVars>>

is_open(nr) == nr \in {{"open"}, {"openat"}, {"openat2"}}

flags(d) ==
    CASE d["nr"] \in {{"sendto"}, {"recvfrom"}, {"sendmmsg"}, {"recvmmsg"}} -> d["args3"]
      [] d["nr"] \in {{"sendmsg"}, {"recvmsg"}} -> d["args2"]
      [] OTHER -> {}

Operation(nr) ==
    CASE is_open(nr) -> "open"
      [] nr = {"socket"} -> "socket"
      [] nr = {"connect"} -> "connect"
      [] nr \in {{"getpeername"}, {"getsockopt"}} -> "peer"
      [] nr \in {{"sendto"}, {"sendmsg"}, {"sendmmsg"}} -> "send"
      [] OTHER -> "receive"

Receive ==              \* NOTIF_RECV, and a task for the notification
    /\ status = "pending" /\ pc = "idle"
    /\ request' = [op |-> Operation(data["nr"]), flags |-> flags(data)]
    /\ data' = NoCall
    /\ Goto("dispatch")
    /\ UNCHANGED <<method, targetVars, status, answer, had, given, pidfd, dup>>

socket_reply(family, kind, protocol) ==
    CASE family \in {"UNIX", "NETLINK"} -> "Continue"
      [] family \notin {"UNIX", "NETLINK", "INET"} -> "EAFNOSUPPORT"
      [] OTHER -> IF <<kind, protocol>> \in {<<"STREAM", "0">>, <<"STREAM", "TCP">>,
                                             <<"DGRAM", "0">>, <<"DGRAM", "UDP">>}
                  THEN "Continue" ELSE "EPROTONOSUPPORT"

FastOpen(r) == r.op = "send" /\ "FASTOPEN" \in r.flags

dispatch ==             \* up to the first use of the descriptor
    /\ pc = "dispatch"
    /\ \/ ~IsValid /\ Reply("EINTR")
       \/ IsValid /\ request.op = "open" /\ Goto("path")
       \/ /\ IsValid /\ request.op = "socket"
          /\ \E family \in {"UNIX", "NETLINK", "INET", "INET6"},
                kind \in {"STREAM", "DGRAM", "RAW"}, protocol \in {"0", "TCP", "UDP"} :
                Reply(socket_reply(family, kind, protocol))
       \/ IsValid /\ FastOpen(request) /\ Reply("EOPNOTSUPP")
       \/ IsValid /\ request.op \notin {"open", "socket"} /\ ~FastOpen(request) /\ Goto("get")
    /\ Kernel /\ UNCHANGED <<request, pidfd, dup>>
-------------------------------------------------------------------------------
(* SocketAccess::get. *)

pidfd_open(who) ==
    /\ pidfd' = who
    /\ IF who = "nobody" THEN Reply("ESRCH") ELSE Goto("getfd")

get ==
    /\ pc = "get"
    /\ \/ method = "Thread" /\ pidfd_open(tid)
       \/ method = "Process" /\ tid = "caller" /\ Goto("group") /\ UNCHANGED pidfd  \* /proc/tid/status
       \/ method = "Process" /\ tid = "stranger" /\ pidfd_open("stranger")
       \/ method = "Process" /\ tid = "nobody" /\ Reply("ENOENT") /\ UNCHANGED pidfd
    /\ Kernel /\ UNCHANGED <<request, dup>>

OpenGroup ==
    /\ pc = "group" /\ pidfd_open(tgid)
    /\ Kernel /\ UNCHANGED <<request, dup>>

Alive(t) == t = "stranger" \/ tid = t \/ tgid = t

pidfd_getfd ==
    /\ pc = "getfd"
    /\ \/ ~Alive(pidfd) /\ Reply("ESRCH") /\ UNCHANGED dup
       \/ Alive(pidfd) /\ table[pidfd] = Closed /\ Reply("EBADF") /\ UNCHANGED dup
       \/ /\ Alive(pidfd) /\ table[pidfd] # Closed
          /\ dup' = table[pidfd] /\ Goto(IF method = "Thread" THEN "got" ELSE "kcmp")
    /\ Kernel /\ UNCHANGED <<request, pidfd>>

verify_file ==
    /\ pc = "kcmp"
    /\ \/ tid = "nobody" /\ Reply("ESRCH")
       \/ tid # "nobody" /\ table[tid] = Closed /\ Reply("EBADF")
       \/ tid # "nobody" /\ table[tid] = dup /\ Goto("got")
       \/ tid # "nobody" /\ table[tid] \notin {Closed, dup} /\ Reply("EOPNOTSUPP")
    /\ Kernel /\ UNCHANGED <<request, pidfd, dup>>

Bug_NoRevalidation ==
    /\ pc = "got"
    /\ Goto(IF request.op = "open" THEN "match" ELSE "handle")
    /\ Kernel /\ UNCHANGED <<request, pidfd, dup>>

(* Broker::valid after get; the directory of a relative path is used as it is. *)
Got ==
    /\ pc = "got"
    /\ \/ request.op = "open" /\ Goto("match")
       \/ request.op # "open" /\ ~IsValid /\ Reply("EINTR")
       \/ request.op # "open" /\ IsValid /\ Goto("handle")
    /\ Kernel /\ UNCHANGED <<request, pidfd, dup>>

(***************************************************************************)
(* The rest of dispatch acts on the duplicate.  TcpConnect, PeerTable and   *)
(* Datagram model what connect_tcp, tcp_peer and datagram::dispatch do;     *)
(* here they return a value, an error or, for a socket that is not          *)
(* redirected, Continue.                                                    *)
(***************************************************************************)
Outcomes(kind, req) ==
    CASE kind = "unix" -> {"Continue"} \cup (IF req.op = "connect" THEN {"ECONNREFUSED", "EFAULT"} ELSE {})
      [] kind = "other" -> {"Continue", "ENOTSOCK", "EPROTONOSUPPORT"}
      [] kind = "tcp" /\ req.op \notin {"connect", "peer"} ->
           {"Continue"} \cup (IF "OOB" \in req.flags THEN {"EOPNOTSUPP"} ELSE {})
      [] OTHER -> {"Value", "Continue", "EIO"}

Handle ==
    /\ pc = "handle"
    /\ \E r \in Outcomes(Kind[dup], request) : Reply(r)
    /\ Kernel /\ UNCHANGED <<request, pidfd, dup>>

Respond ==              \* NOTIF_SEND; ENOENT when the notification is gone is ignored
    /\ pc = "respond"
    /\ \/ IsValid /\ status' = "answered" /\ answer' = reply
       \/ ~IsValid /\ UNCHANGED <<status, answer>>
    /\ Idle
    /\ UNCHANGED <<method, targetVars, data, had, given>>
===============================================================================
