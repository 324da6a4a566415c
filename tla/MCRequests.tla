----------------------------- MODULE MCRequests ------------------------------
(***************************************************************************)
(* Bootstrap, then the calls of the command under the broker.  The other    *)
(* behaviours try the filter with every call, or follow the reservation     *)
(* that a TCP connect starts with.                                          *)
(***************************************************************************)
EXTENDS Bootstrap, TcpBind

VARIABLE mode       \* "run", "filter" or "reserve"

requestVars == <<mode, bootVars, dispatchVars, bindVars>>

Calls == ToSet(IoUring) \cup ToSet(Notified) \cup {"getsockopt", "sendto", "recvfrom", "read"}

Data == {[NoCall EXCEPT !["arch"] = arch, !["nr"] = {c} \cup x32, !["args1"] = a1, !["args2"] = a2,
                        !["args3"] = a3, !["args4"] = lo, !["args4+4"] = hi] :
           arch \in {{"native"}, {"i386"}}, c \in Calls, x32 \in {{}, {"x32"}},
           a1 \in {{}, {"SOL_SOCKET"}}, a2 \in {{}, {"SO_PEERNAME"}},
           a3 \in {{}, {"OOB"}, {"FASTOPEN"}, {"OOB", "DONTWAIT"}, {"DONTWAIT"}},
           lo \in {{}, {"address"}}, hi \in {{}, {"address"}}}

Call(nr, a2, a3) == [NoCall EXCEPT !["arch"] = {"native"}, !["nr"] = {nr}, !["args2"] = a2, !["args3"] = a3]

ServedCalls == {Call("openat2", {}, {}), Call("socket", {}, {}), Call("connect", {}, {}),
                Call("getpeername", {}, {}), Call("sendmsg", {"FASTOPEN"}, {}),
                Call("recvmmsg", {}, {"OOB"}), Call("read", {}, {})}

MCKind == [f \in File |-> IF f = Foreign THEN "other" ELSE IF f = CHOOSE g \in File \ {Foreign} : TRUE
                          THEN "tcp" ELSE "unix"]

RequestsInit ==
    /\ mode \in {"run", "filter", "reserve"}
    /\ DispatchInit /\ BootstrapInit /\ BindInit
    /\ mode # "run" => shared /\ method = "Thread"
    /\ mode # "reserve" => sock.ip = Wildcard /\ ~sock.delayed /\ free = {}

Application ==
    \/ \E d \in ServedCalls : Enter(d)
    \/ Return \/ Interrupted \/ Dies(FALSE) \/ Reused
    \/ \E t \in {"caller", "leader"}, f \in (File \ {Foreign}) \cup {Closed} :
          status = "pending" /\ Change(t, f)

Broker ==
    \/ Receive \/ Serve
    \/ IF cmd = "opening"
       THEN ReadPath("file", "cwd") \/ Match({{}})
       ELSE \/ \E p \in Path, base \in {"cwd", "dirfd"} : ReadPath(p, base)
            \/ Match(SUBSET OpenFlag)

RequestsNext ==
    /\ UNCHANGED mode
    /\ \/ mode = "reserve" /\ BindNext /\ UNCHANGED <<bootVars, dispatchVars>>
       \/ mode = "filter" /\ (\E d \in Data : Enter(d)) /\ UNCHANGED <<bootVars, bindVars>>
       \/ /\ mode = "run" /\ UNCHANGED bindVars
          /\ \/ Boot
             \/ cmd = "exec" /\ Application /\ UNCHANGED bootVars
             \/ service = "running" /\ Broker /\ UNCHANGED bootVars

RequestsSpec ==
    /\ RequestsInit /\ [][RequestsNext]_requestVars
    /\ WF_requestVars(mode = "run" /\ (Fork \/ ForkFails \/ ReaperKilled \/ Terminate \/ ReaperEnds) /\ UNCHANGED <<mode, bindVars>>)
    /\ WF_requestVars(mode = "run" /\ (Install \/ WriteMetadata \/ ReadReady \/ verify_bootstrap \/ Verified)
                        /\ UNCHANGED <<mode, bindVars>>)
    /\ WF_requestVars(mode = "run" /\ (StartRuntime \/ ReadMetadata \/ ProbeAccess \/ BuildBroker \/ WriteReady \/ SupervisorEnds)
                        /\ UNCHANGED <<mode, bindVars>>)
    /\ WF_requestVars(mode = "run" /\ service = "running" /\ Broker /\ UNCHANGED <<mode, bootVars, bindVars>>)

(***************************************************************************)
(* Bootstrap's StartEnds, where the command starts.                         *)
(***************************************************************************)
StartsUp == mode = "run" => StartEnds
=============================================================================
