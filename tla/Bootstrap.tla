------------------------------- MODULE Bootstrap ------------------------------
(***************************************************************************)
(* How a command comes to run under the broker: ChildSetup::command and     *)
(* reaper in the two forked processes, Service::start in the supervisor     *)
(* (broker/mod.rs), over the control and the lifetime socket.  The last     *)
(* check before exec opens /etc/resolv.conf through the filter, so the      *)
(* command's call goes through Files.  How the tree ends is Supervisor's.   *)
(***************************************************************************)
EXTENDS Files

VARIABLES
    cmd,        \* "none", "setup", "filtered", "waiting", "verify", "opening", "exec", "dead"
    reaper,     \* "boot", "up", "gone"
    sup,        \* "start", "metadata", "probe", "build", "ready", "up", "failed", "gone"
    control,    \* the control socket: messages each end has sent
    term,       \* SIGTERM was sent to the reaper
    service,    \* the broker's task: "none", "running", "ended"
    rfail,      \* the reaper could not start its lifetime thread
    injected    \* the file the command verified was the broker's

bootVars == <<cmd, reaper, sup, control, term, service, rfail, injected>>

BootstrapInit ==
    /\ cmd = "none" /\ reaper = "boot" /\ sup = "start"
    /\ control = {} /\ term = FALSE /\ service = "none" /\ rfail = FALSE /\ injected = FALSE

SupervisorAlive == sup \notin {"failed", "gone"}     \* it holds control and life
-------------------------------------------------------------------------------
(* The reaper and the command. *)

Fork ==
    /\ reaper = "boot"
    /\ cmd' = "setup"
    /\ \E ok \in BOOLEAN : reaper' = (IF ok THEN "up" ELSE "gone") /\ rfail' = ~ok
    /\ UNCHANGED <<sup, control, term, service, injected, dispatchVars>>

ForkFails ==            \* or what run_command_tree does before it; there is no command then
    /\ reaper = "boot"
    /\ reaper' = "gone"
    /\ UNCHANGED <<cmd, sup, control, term, service, rfail, injected, dispatchVars>>

ReaperKilled ==         \* by a signal before run_command_tree blocks them
    /\ reaper = "boot" /\ term
    /\ reaper' = "gone"
    /\ UNCHANGED <<cmd, sup, control, term, service, rfail, injected, dispatchVars>>

Install ==
    /\ cmd = "setup"
    /\ cmd' \in {"filtered", "dead"}
    /\ UNCHANGED <<reaper, sup, control, term, service, rfail, injected, dispatchVars>>

SendMetadata == [NoCall EXCEPT !["arch"] = {"native"}, !["nr"] = {"sendmsg"}]

Bug_SendMsg ==
    /\ cmd = "filtered"
    /\ cmd' = "waiting" /\ Enter(SendMetadata)
    /\ UNCHANGED <<reaper, sup, control, term, service, rfail, injected>>

\* write(2), which the filter allows; EPIPE when the supervisor has gone.
WriteMetadata ==
    /\ cmd = "filtered"
    /\ IF SupervisorAlive THEN cmd' = "waiting" /\ control' = control \cup {"metadata"}
                          ELSE cmd' = "dead" /\ UNCHANGED control
    /\ UNCHANGED <<reaper, sup, term, service, rfail, injected, dispatchVars>>

ReadReady ==            \* the byte, or the end of the stream
    /\ cmd = "waiting"
    /\ \/ "ready" \in control /\ cmd' = "verify"
       \/ ~SupervisorAlive /\ "ready" \notin control /\ cmd' = "dead"
    /\ UNCHANGED <<reaper, sup, control, term, service, rfail, injected, dispatchVars>>

OpenResolvConf == [NoCall EXCEPT !["arch"] = {"native"}, !["nr"] = {"openat"}]

verify_bootstrap ==
    /\ cmd = "verify"
    /\ cmd' = "opening" /\ Enter(OpenResolvConf)
    /\ UNCHANGED <<reaper, sup, control, term, service, rfail, injected>>

Bug_AnyFile ==
    /\ cmd = "opening" /\ status = "answered"
    /\ injected' = (answer = "fd")
    /\ cmd' \in {"exec", "dead"}
    /\ Return
    /\ UNCHANGED <<reaper, sup, control, term, service, rfail>>

Verified ==             \* the seals and the contents are the broker's; then exec, which may fail
    /\ cmd = "opening" /\ status = "answered"
    /\ injected' = (answer = "fd")
    /\ cmd' \in IF answer = "fd" THEN {"exec", "dead"} ELSE {"dead"}
    /\ Return
    /\ UNCHANGED <<reaper, sup, control, term, service, rfail>>

CommandDies ==          \* killed from outside, or by the reaper
    /\ cmd \notin {"none", "dead"}
    /\ cmd' = "dead" /\ Dies(TRUE)
    /\ UNCHANGED <<reaper, sup, control, term, service, rfail, injected>>

\* Its lifetime thread sees the supervisor's end close, or the SIGTERM arrives.
Terminate == (term \/ ~SupervisorAlive) /\ reaper = "up" /\ CommandDies

ReaperEnds ==
    /\ reaper = "up" /\ cmd = "dead"
    /\ reaper' = "gone"
    /\ UNCHANGED <<cmd, sup, control, term, service, rfail, injected, dispatchVars>>
-------------------------------------------------------------------------------
(* supervise and Service::start in the supervisor. *)

\* main's run: the error drops control and life, signals the reaper and waits.
Fails == sup' = "failed" /\ term' = TRUE

StartRuntime ==         \* the runtime and its signal handlers; the reaper starts meanwhile
    /\ sup = "start"
    /\ \/ sup' = "metadata" /\ UNCHANGED term
       \/ Fails
    /\ UNCHANGED <<cmd, reaper, control, service, rfail, injected, dispatchVars>>

ReadMetadata ==         \* or the end of the stream, when no copy of the other end is left
    /\ sup = "metadata"
    /\ \/ "metadata" \in control /\ sup' = "probe" /\ UNCHANGED term
       \/ "metadata" \notin control /\ reaper # "boot" /\ cmd \in {"none", "dead"} /\ Fails
    /\ UNCHANGED <<cmd, reaper, control, service, rfail, injected, dispatchVars>>

ProbeAccess ==          \* the descriptors, the memory, ADDFD_SEND and the diagnostics
    /\ sup = "probe"
    /\ \/ cmd # "dead" /\ sup' = "build" /\ UNCHANGED term
       \/ Fails
    /\ UNCHANGED <<cmd, reaper, control, service, rfail, injected, dispatchVars>>

BuildBroker ==          \* Receiver::start and Broker::new; the task is spawned
    /\ sup = "build"
    /\ \/ sup' = "ready" /\ service' = "running" /\ UNCHANGED term
       \/ Fails /\ UNCHANGED service
    /\ UNCHANGED <<cmd, reaper, control, rfail, injected, dispatchVars>>

WriteReady ==           \* EPIPE drops the service
    /\ sup = "ready"
    /\ \/ cmd # "dead" /\ sup' = "up" /\ control' = control \cup {"ready"} /\ UNCHANGED <<term, service>>
       \/ cmd = "dead" /\ Fails /\ service' = "ended" /\ UNCHANGED control
    /\ UNCHANGED <<cmd, reaper, rfail, injected, dispatchVars>>

\* Dropping the service aborts the task that serves the notification.
Abandoned == Idle /\ UNCHANGED <<method, targetVars, callVars>>

ServiceFails ==         \* supervise forwards SIGTERM and goes on waiting for the reaper
    /\ sup = "up" /\ service = "running"
    /\ service' = "ended" /\ term' = TRUE
    /\ Abandoned
    /\ UNCHANGED <<cmd, reaper, sup, control, rfail, injected>>

SupervisorGone ==       \* and its service with it
    /\ sup # "gone" /\ sup' = "gone"
    /\ service' = IF service = "running" THEN "ended" ELSE service
    /\ Abandoned
    /\ UNCHANGED <<cmd, reaper, control, term, rfail, injected>>

SupervisorEnds == sup \in {"failed", "up"} /\ reaper = "gone" /\ SupervisorGone   \* wait_child

SupervisorKilled == SupervisorGone

NoListener ==           \* the last copy of the listener is closed: ENOSYS
    /\ service = "ended" /\ cmd = "exec" /\ status = "pending"
    /\ status' = "answered" /\ answer' = "no listener"
    /\ UNCHANGED <<bootVars, method, targetVars, data, had, given, taskVars>>

Boot ==
    \/ Fork \/ ForkFails \/ ReaperKilled \/ Install \/ WriteMetadata \/ ReadReady \/ verify_bootstrap
    \/ Verified \/ CommandDies \/ ReaperEnds
    \/ StartRuntime \/ ReadMetadata \/ ProbeAccess \/ BuildBroker \/ WriteReady \/ ServiceFails
    \/ SupervisorEnds \/ SupervisorKilled \/ NoListener
-------------------------------------------------------------------------------
(***************************************************************************)
(* The command's program runs only under its filter and after a complete    *)
(* handshake: the broker was started, said so, and answered the command's   *)
(* own open with its file; every failure on the way keeps it from exec      *)
(* (ChildSetup::command, Service::start).                                   *)
(***************************************************************************)
ExecSupervised ==
    cmd = "exec" => /\ {"metadata", "ready"} \subseteq control
                    /\ service # "none" /\ injected

(***************************************************************************)
(* Starting ends: the command executes under a running supervisor, or all   *)
(* processes are gone, whatever step fails or dies on either side; neither  *)
(* side waits for ever for the other over the control socket or in a        *)
(* notified call ("File uses write(2) ... No filter exemption", mod.rs:55). *)
(* Excepted is a reaper whose lifetime thread could not be started.         *)
(***************************************************************************)
Settled == cmd \in {"exec", "dead"} /\ sup \in {"up", "gone"}
StartEnds ==
    /\ <>(Settled \/ rfail \/ (reaper = "gone" /\ sup = "gone"))
    /\ sup = "gone" ~> (cmd \in {"none", "dead"} \/ rfail)
===============================================================================
