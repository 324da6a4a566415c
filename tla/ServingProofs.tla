---------------------------- MODULE ServingProofs -----------------------------
(***************************************************************************)
(* Proofs about a notified call: the broker acts on the caller's own file,  *)
(* and gives it a descriptor exactly when its open returns one; about the   *)
(* bootstrap: nothing runs that the broker has not verified; and about      *)
(* Broker::run: it neither cuts off nor leaves behind a relay, for any      *)
(* number of notifications and any capacity of channel and requests.        *)
(***************************************************************************)
EXTENDS MCRequests, Engine, TLAPS

(***************************************************************************)
(* While a call is pending its thread lives, so what its number names is    *)
(* its own: a file fetched or compared through it, and found valid after,   *)
(* is one the thread had during the call.                                   *)
(***************************************************************************)
CallInv ==
    /\ status = "pending" => tid = "caller" /\ table["caller"] \in had
    /\ status \in {"none", "pending"} => answer # "fd"
    /\ reply # "fd"
    /\ pc = "group" => method = "Process"
    /\ pc = "getfd" /\ method = "Thread" /\ status = "pending" => pidfd = "caller"
    /\ pc = "got" /\ status = "pending" => dup \in had

CallIInv == CallInv /\ OwnFile /\ NoStrayDescriptor

\* The kernel answers a call whose listener has gone (NoListener).
Answered ==
    /\ status = "pending" /\ status' = "answered" /\ answer' = "no listener"
    /\ UNCHANGED <<method, targetVars, data, had, given, taskVars>>

(***************************************************************************)
(* Every step of the caller, its process, the kernel or the broker in the   *)
(* course of a call, for every call, path, descriptor and set of flags.     *)
(***************************************************************************)
CallStep ==
    \/ \E d : Enter(d)
    \/ Return \/ Interrupted \/ Reused
    \/ \E process : Dies(process)
    \/ \E t, f : Change(t, f)
    \/ Receive \/ Serve
    \/ \E path, base : ReadPath(path, base)
    \/ \E Flags : Match(Flags)
    \/ Abandoned
    \/ Answered

(***************************************************************************)
(* The application, the kernel and other processes preserve the invariant:  *)
(* death and signals withdraw the call, and a reused number comes after.    *)
(***************************************************************************)
LEMMA KernelSteps ==
    ASSUME CallIInv,
           \/ \E d : Enter(d)
           \/ Return \/ Interrupted \/ Reused
           \/ \E process : Dies(process)
           \/ \E t, f : Change(t, f)
           \/ Answered
    PROVE  CallIInv'
<1> USE DEF CallIInv, CallInv, OwnFile, NoStrayDescriptor, targetVars, taskVars
<1>1. ASSUME NEW d, Enter(d) PROVE CallIInv'
  <2>1. /\ status = "none" /\ pc = "idle" /\ tid = "caller"
        /\ status' = "pending" => had' = {table["caller"]}
        /\ answer' \in {"ENOSYS", "none"}
        /\ UNCHANGED <<method, targetVars, given, taskVars>>
        BY <1>1, ZenonT(60) DEF Enter
  <2> QED BY <2>1, ZenonT(60)
<1>2. CASE Return
      BY <1>2, ZenonT(60) DEF Return
<1>3. CASE Interrupted
      BY <1>3, ZenonT(60) DEF Interrupted, Withdraw
<1>4. CASE Reused
      BY <1>4, ZenonT(60) DEF Reused, callVars
<1>5. ASSUME NEW process, Dies(process) PROVE CallIInv'
      BY <1>5, ZenonT(60) DEF Dies, Withdraw
<1>6. ASSUME NEW t, NEW f, Change(t, f) PROVE CallIInv'
  <2>1. /\ had' = IF status = "pending" THEN had \cup {table'["caller"]} ELSE had
        /\ UNCHANGED <<method, tid, status, answer, given, taskVars>>
        BY <1>6, ZenonT(60) DEF Change
  <2> QED BY <2>1, ZenonT(60)
<1>7. CASE Answered
      BY <1>7, ZenonT(40) DEF Answered
<1> HIDE DEF CallIInv, CallInv, OwnFile, NoStrayDescriptor, targetVars, taskVars
<1> QED BY <1>1, <1>2, <1>3, <1>4, <1>5, <1>6, <1>7, Zenon

(***************************************************************************)
(* The steps of Broker::dispatch, SocketAccess and ResolverFiles.           *)
(***************************************************************************)
LEMMA BrokerSteps ==
    ASSUME CallIInv,
           \/ Receive \/ Serve
           \/ \E path, base : ReadPath(path, base)
           \/ \E Flags : Match(Flags)
           \/ Abandoned
    PROVE  CallIInv'
<1> USE DEF CallIInv, CallInv, OwnFile, NoStrayDescriptor, targetVars, callVars,
            Kernel, Goto, Reply, IsValid
<1>1. CASE Receive
      BY <1>1, ZenonT(60) DEF Receive
<1>2. CASE dispatch
  <2>1. /\ pc' \in {"respond", "path", "get"} /\ reply' # "fd"
        /\ UNCHANGED <<method, targetVars, callVars, pidfd, dup>>
        BY <1>2, ZenonT(60) DEF dispatch
  <2> QED BY <2>1, ZenonT(60)
<1>3. CASE get
  <2>1. /\ pc' \in {"respond", "group", "getfd"} /\ reply' # "fd"
        /\ pc' = "group" => method = "Process"
        /\ pc' = "getfd" /\ method = "Thread" => pidfd' = tid
        /\ UNCHANGED <<method, targetVars, callVars, dup>>
        BY <1>3, ZenonT(60) DEF get, pidfd_open
  <2> QED BY <2>1, ZenonT(60)
<1>4. CASE OpenGroup
      BY <1>4, ZenonT(60) DEF OpenGroup, pidfd_open
<1>5. CASE pidfd_getfd
      BY <1>5, ZenonT(60) DEF pidfd_getfd
<1>6. CASE verify_file
      BY <1>6, ZenonT(60) DEF verify_file
<1>7. CASE Got
      BY <1>7, ZenonT(60) DEF Got
<1>8. CASE Handle
  <2>1. pc' = "respond" /\ reply' # "fd" /\ UNCHANGED <<method, targetVars, callVars>>
        BY <1>8, ZenonT(60) DEF Handle
  <2> QED BY <2>1, ZenonT(60)
<1>9. CASE Respond
      BY <1>9, ZenonT(60) DEF Respond, Idle
<1>10. CASE reopen
      BY <1>10, ZenonT(60) DEF reopen
<1>11. CASE addfd_send
      BY <1>11 DEF addfd_send, Idle
<1>12. ASSUME NEW path, NEW base, ReadPath(path, base) PROVE CallIInv'
      BY <1>12, ZenonT(60) DEF ReadPath
<1>13. ASSUME NEW Flags, Match(Flags) PROVE CallIInv'
  <2>1. /\ pc' \in {"respond", "reopen"} /\ reply' # "fd"
        /\ UNCHANGED <<method, targetVars, callVars>>
        BY <1>13, ZenonT(60) DEF Match
  <2> QED BY <2>1, ZenonT(60)
<1>14. CASE Abandoned
      BY <1>14, ZenonT(60) DEF Abandoned, Idle
<1> HIDE DEF CallIInv, CallInv, OwnFile, NoStrayDescriptor, targetVars, callVars,
             Kernel, Goto, Reply, IsValid
<1> QED BY <1>1, <1>2, <1>3, <1>4, <1>5, <1>6, <1>7, <1>8, <1>9, <1>10, <1>11, <1>12, <1>13, <1>14, ZenonT(40)
        DEF Serve

(***************************************************************************)
(* What the two sides of the control socket know of each other: the service *)
(* exists before the ready byte is written, and the metadata was read       *)
(* before the service was built.                                            *)
(***************************************************************************)
BootInv ==
    /\ cmd \in {"waiting", "verify", "opening", "exec"} => "metadata" \in control
    /\ cmd \in {"verify", "opening", "exec"} => "ready" \in control
    /\ sup \in {"probe", "build", "ready", "up"} => "metadata" \in control
    /\ sup \in {"ready", "up"} => service # "none"
    /\ "ready" \in control => service # "none"

(***************************************************************************)
(* The steps of the three processes preserve it, and a step of the call     *)
(* machinery leaves it alone or belongs to Boot.                            *)
(***************************************************************************)
LEMMA BootSteps == ASSUME BootInv, ExecSupervised, Boot
                   PROVE  BootInv' /\ ExecSupervised'
<1> USE DEF BootInv, ExecSupervised
<1>1. CASE Fork \/ ForkFails \/ ReaperKilled \/ Install
      BY <1>1, ZenonT(60) DEF Fork, ForkFails, ReaperKilled, Install
<1>2. CASE WriteMetadata
      BY <1>2, ZenonT(60) DEF WriteMetadata
<1>3. CASE ReadReady
      BY <1>3, ZenonT(60) DEF ReadReady
<1>4. CASE verify_bootstrap
      BY <1>4, ZenonT(60) DEF verify_bootstrap
<1>5. CASE Verified
      BY <1>5, ZenonT(40) DEF Verified
<1>6. CASE CommandDies \/ ReaperEnds
      BY <1>6, ZenonT(40) DEF CommandDies, ReaperEnds
<1>7. CASE StartRuntime \/ ReadMetadata \/ ProbeAccess
      BY <1>7, ZenonT(60) DEF StartRuntime, ReadMetadata, ProbeAccess, Fails
<1>8. CASE BuildBroker
      BY <1>8, ZenonT(60) DEF BuildBroker, Fails
<1>9. CASE WriteReady
      BY <1>9, ZenonT(60) DEF WriteReady, Fails
<1>10. CASE ServiceFails
      BY <1>10, ZenonT(60) DEF ServiceFails
<1>11. CASE SupervisorEnds \/ SupervisorKilled
      BY <1>11, ZenonT(60) DEF SupervisorEnds, SupervisorKilled, SupervisorGone
<1>12. CASE NoListener
      BY <1>12, ZenonT(40) DEF NoListener, bootVars
<1> HIDE DEF BootInv, ExecSupervised
<1> QED BY <1>1, <1>2, <1>3, <1>4, <1>5, <1>6, <1>7, <1>8, <1>9, <1>10, <1>11, <1>12, ZenonT(40) DEF Boot

(***************************************************************************)
(* What Boot does to a call in progress is a step of the call.              *)
(***************************************************************************)
LEMMA BootCalls == ASSUME Boot
                   PROVE  \/ \E d : Enter(d)
                          \/ Return \/ Abandoned
                          \/ \E process : Dies(process)
                          \/ Answered
                          \/ UNCHANGED dispatchVars
BY ZenonT(40) DEF Boot, Fork, ForkFails, ReaperKilled, Install, WriteMetadata, ReadReady, verify_bootstrap,
       Verified, CommandDies, ReaperEnds, StartRuntime, ReadMetadata, ProbeAccess, BuildBroker, WriteReady,
       ServiceFails, SupervisorEnds, SupervisorKilled, SupervisorGone, NoListener, Answered

RequestsIInv == CallIInv /\ BootInv /\ ExecSupervised

(***************************************************************************)
(* The composition of bootstrap, application and broker starts in the       *)
(* invariant.                                                               *)
(***************************************************************************)
LEMMA RequestsStart == RequestsInit => RequestsIInv
BY ZenonT(60) DEF RequestsInit, DispatchInit, BootstrapInit, RequestsIInv, CallIInv, CallInv, OwnFile,
       NoStrayDescriptor, BootInv, ExecSupervised

(***************************************************************************)
(* Every step of the composition is one of the call, of the bootstrap, or   *)
(* of prepare, which touches neither.                                       *)
(***************************************************************************)
LEMMA RequestsStep == ASSUME RequestsIInv, [RequestsNext]_requestVars
                      PROVE  RequestsIInv'
<1> USE DEF RequestsIInv
<1>1. ASSUME UNCHANGED dispatchVars PROVE CallIInv'
      BY <1>1, ZenonT(60) DEF dispatchVars, targetVars, callVars, taskVars, CallIInv, CallInv, OwnFile,
                  NoStrayDescriptor
<1>2. ASSUME UNCHANGED bootVars PROVE (BootInv /\ ExecSupervised)'
      BY <1>2, ZenonT(60) DEF bootVars, BootInv, ExecSupervised
<1>3. CASE UNCHANGED requestVars
      BY <1>1, <1>2, <1>3, Zenon DEF requestVars
<1>4. CASE BindNext /\ UNCHANGED <<bootVars, dispatchVars>>
      BY <1>1, <1>2, <1>4, Zenon
<1>5. CASE (\E d \in Data : Enter(d)) /\ UNCHANGED bootVars
      BY <1>2, <1>5, KernelSteps, Zenon
<1>6. CASE Boot
  <2>1. (BootInv /\ ExecSupervised)'
        BY <1>6, BootSteps, Zenon
  <2>2. CallIInv'
        BY <1>1, <1>6, BootCalls, KernelSteps, BrokerSteps, Zenon
  <2> QED BY <2>1, <2>2, Zenon
<1>7. CASE Application /\ UNCHANGED bootVars
      BY <1>2, <1>7, KernelSteps, ZenonT(40) DEF Application
<1>8. CASE Broker /\ UNCHANGED bootVars
      BY <1>2, <1>8, BrokerSteps, Zenon DEF Broker
<1> QED BY <1>3, <1>4, <1>5, <1>6, <1>7, <1>8, Zenon DEF RequestsNext

(***************************************************************************)
(* The strengthened invariant of calls and bootstrap.                       *)
(***************************************************************************)
THEOREM RequestsInvariant == RequestsSpec => []RequestsIInv
<1>1. RequestsIInv /\ [RequestsNext]_requestVars => RequestsIInv'
      BY RequestsStep, ZenonT(60)
<1> QED BY RequestsStart, <1>1, PTL DEF RequestsSpec

(***************************************************************************)
(* Whatever calls a thread makes, with any descriptors, paths and flags,    *)
(* and whatever its process and its signals do meanwhile, a handler acts    *)
(* only on a file the thread itself had during the call (access.rs:42-135,  *)
(* engine.rs:65-93, 171-236).                                               *)
(***************************************************************************)
THEOREM ActsOnOwnFile ==
    DispatchInit /\ [][CallStep]_dispatchVars => [](OwnFile /\ NoStrayDescriptor)
<1>1. DispatchInit => CallIInv
      BY ZenonT(60) DEF DispatchInit, CallIInv, CallInv, OwnFile, NoStrayDescriptor
<1>2. ASSUME CallIInv, CallStep PROVE CallIInv'
      BY <1>2, KernelSteps, BrokerSteps, Zenon DEF CallStep
<1>3. ASSUME CallIInv, UNCHANGED dispatchVars PROVE CallIInv'
      BY <1>3, ZenonT(60) DEF dispatchVars, targetVars, callVars, taskVars, CallIInv, CallInv, OwnFile,
                  NoStrayDescriptor
<1>4. CallIInv /\ [CallStep]_dispatchVars => CallIInv'
      BY <1>2, <1>3, ZenonT(60)
<1>5. CallIInv => OwnFile /\ NoStrayDescriptor
      BY ZenonT(60) DEF CallIInv
<1> QED BY <1>1, <1>4, <1>5, PTL

(***************************************************************************)
(* In the composition with the bootstrap, the broker's failure and the      *)
(* supervisor's death too, a descriptor stays behind only for an open that  *)
(* returned it (seccomp.rs:75-87).                                          *)
(***************************************************************************)
THEOREM NoDescriptorLeft == RequestsSpec => [](OwnFile /\ NoStrayDescriptor)
<1>1. RequestsIInv => OwnFile /\ NoStrayDescriptor
      BY ZenonT(60) DEF RequestsIInv, CallIInv
<1> QED BY <1>1, RequestsInvariant, PTL

(***************************************************************************)
(* No interleaving of the three processes and no failure lets the command   *)
(* execute before the broker has answered its open (mod.rs:44-134).         *)
(***************************************************************************)
THEOREM ExecOnlySupervised == RequestsSpec => []ExecSupervised
BY RequestsInvariant, PTL DEF RequestsIInv

(***************************************************************************)
(* prepare, call by call: what the socket is like when each of its kernel   *)
(* calls is due.  A port, once bound by another thread, stays.              *)
(***************************************************************************)
SocketState == [ip : {Wildcard, Ip}, port : Ports \cup {0}, delayed : BOOLEAN]

Unfailed == fault \cap {"disable", "defer", "option", "enable"} = {}

BindInv ==
    /\ sock \in SocketState /\ saved \in SocketState /\ orig \in SocketState
    /\ orig.port = 0 /\ free \subseteq Ports
    /\ at \in {"source", "disable", "bind", "defer", "rebind", "option", "enable", "port", "end"}
    /\ "other" \in fault => sock.ip = Ip /\ sock.port # 0
    /\ at \notin {"source", "end"} => saved = orig
    /\ at \in {"source", "disable", "port"} => sock.delayed = orig.delayed
    /\ at \in {"bind", "defer", "enable"} => ~sock.delayed
    /\ at \in {"rebind", "option"} /\ Unfailed => sock.delayed
    /\ at \in {"disable", "enable"} => orig.delayed
    /\ at \in {"enable", "port"} => sock.port # 0
    /\ "other" \notin fault =>
          /\ at \in {"source", "disable", "bind", "enable", "port"} => sock.ip = orig.ip
          /\ at \in {"source", "disable", "bind", "defer", "rebind"} => sock.port = 0
          /\ at = "option" /\ Unfailed /\ "rebind" \notin fault => sock.ip = orig.ip /\ sock.port = 0

BindIInv == BindInv /\ ReservationRestores

(***************************************************************************)
(* Each call of prepare, and each step of other sockets and threads between *)
(* two of them, preserves that.                                             *)
(***************************************************************************)
LEMMA BindSteps == ASSUME BindIInv, BindNext PROVE BindIInv'
<1> USE BindAssumption DEF BindIInv, BindInv, SocketState, Unfailed, ReservationRestores
<1>1. CASE Source
      BY <1>1 DEF Source
<1>2. CASE Disable
      BY <1>2, ZenonT(40) DEF Disable, defer_port
<1>3. CASE Reserve
      BY <1>3, ZenonT(40) DEF Reserve, kernel_bind
<1>4. CASE Defer
      BY <1>4, ZenonT(40) DEF Defer, defer_port
<1>5. CASE Rebind
      BY <1>5, ZenonT(40) DEF Rebind, kernel_bind
<1>6. CASE RestoreOption
      BY <1>6 DEF RestoreOption, defer_port
<1>7. CASE Enable
      BY <1>7, ZenonT(40) DEF Enable, defer_port
<1>8. CASE Port
      BY <1>8 DEF Port
<1>9. CASE OtherSockets
      BY <1>9 DEF OtherSockets
<1>10. CASE OtherThread
      BY <1>10, ZenonT(40) DEF OtherThread
<1> QED BY <1>1, <1>2, <1>3, <1>4, <1>5, <1>6, <1>7, <1>8, <1>9, <1>10, ZenonT(40) DEF BindNext

(***************************************************************************)
(* Whatever ports come and go and whatever another thread binds, a failed   *)
(* reservation leaves the socket as it was (tcp_bind.rs:6-46).              *)
(***************************************************************************)
THEOREM FailedReservationRestores == RequestsSpec => []ReservationRestores
<1>1. RequestsInit => BindIInv
  <2> SUFFICES ASSUME BindInit PROVE BindIInv
      BY ZenonT(60) DEF RequestsInit
  <2> QED BY BindAssumption, ZenonT(60) DEF BindInit, BindIInv, BindInv, SocketState, ReservationRestores
<1>2. ASSUME BindIInv, UNCHANGED bindVars PROVE BindIInv'
      BY <1>2, ZenonT(60) DEF bindVars, BindIInv, BindInv, Unfailed, ReservationRestores
<1>3. BindIInv /\ [RequestsNext]_requestVars => BindIInv'
      BY <1>2, BindSteps, ZenonT(40) DEF RequestsNext, requestVars
<1>4. BindIInv => ReservationRestores
      BY ZenonT(60) DEF BindIInv
<1> QED BY <1>1, <1>3, <1>4, PTL DEF RequestsSpec
-------------------------------------------------------------------------------

(***************************************************************************)
(* No request is left once run drains, so none adds a relay any more; and   *)
(* only run's return cancels relays.                                        *)
(***************************************************************************)
RelayInv ==
    /\ DOMAIN note = Note
    /\ relay \in [Note -> {"none", "running", "finished", "cancelled"}]
    /\ eng \in {"select", "join", "drain", "done"}
    /\ eng \in {"drain", "done"} =>
          \A n \in Note : note[n] \notin {"request", "last_poll", "finished"}
    /\ eng # "done" => \A n \in Note : relay[n] # "cancelled"

EngineIInv == RelayInv /\ RelaysDrained

(***************************************************************************)
(* The kernel, the receiver and the service hand out no requests and leave  *)
(* relays and the position of run alone.                                    *)
(***************************************************************************)
LEMMA OtherSteps ==
    ASSUME EngineIInv,
           DOMAIN note' = Note,
           \A n \in Note : note'[n] # note[n] =>
               note'[n] \notin {"request", "last_poll", "finished"},
           UNCHANGED <<relay, eng, result>>,
           shut' = shut \/ shut # "Abort"
    PROVE  EngineIInv'
BY ZenonT(60) DEF EngineIInv, RelayInv, RelaysDrained

(***************************************************************************)
(* Every step preserves the invariant.                                      *)
(***************************************************************************)
LEMMA EngineStep == ASSUME EngineIInv, [Next]_vars PROVE EngineIInv'
<1>1. ASSUME NEW n \in Note, Trap(n) \/ WithdrawNote(n) PROVE EngineIInv'
      BY <1>1, OtherSteps, ZenonT(60) DEF Trap, WithdrawNote, engVars, EngineIInv, RelayInv
<1>2. CASE LastExit \/ RxCheck \/ RxPoll \/ RxPolled \/ RxFatal \/ DropReceiver \/ Signal
  <2>1. UNCHANGED <<note, relay, eng, result, shut>>
        BY <1>2, ZenonT(60) DEF LastExit, RxCheck, RxPoll, RxPolled, RxFatal, DropReceiver, Signal, RxGoto,
                    engVars
  <2> QED BY <2>1, OtherSteps, ZenonT(60) DEF EngineIInv, RelayInv
<1>3. CASE RxRecv \/ RxSend
  <2>1. /\ UNCHANGED <<relay, eng, result, shut>>
        /\ \/ note' = note
           \/ \E n : note' = [note EXCEPT ![n] = "received"]
           \/ \E n : note' = [note EXCEPT ![n] = "answered"]
        BY <1>3, ZenonT(60) DEF RxRecv, RxSend, RxGoto, engVars
  <2> QED BY <2>1, OtherSteps, ZenonT(60) DEF EngineIInv, RelayInv
<1>4. ASSUME NEW force \in BOOLEAN, begin_shutdown(force) PROVE EngineIInv'
      BY <1>4, OtherSteps, ZenonT(60) DEF begin_shutdown, EngineIInv, RelayInv
<1> USE DEF EngineIInv, RelayInv, RelaysDrained
<1>5. ASSUME NEW n \in Note, TaskLastPoll(n) \/ TaskAnswer(n) PROVE EngineIInv'
      BY <1>5, ZenonT(60) DEF TaskLastPoll, TaskAnswer, engVars
<1>6. ASSUME NEW n \in Note, EngJoin(n) \/ Aborted(n) PROVE EngineIInv'
      BY <1>6, ZenonT(60) DEF EngJoin, Aborted, Break, engVars
<1>7. ASSUME NEW n \in Note, RelayEnds(n) PROVE EngineIInv'
      BY <1>7, ZenonT(60) DEF RelayEnds
<1>8. CASE EngNotify \/ EngEnd
  <2>1. /\ eng = "select" /\ eng' \in {"select", "join"} /\ relay' = relay
        /\ DOMAIN note' = Note
        BY <1>8, ZenonT(60) DEF EngNotify, EngEnd, Break
  <2> QED BY <2>1, ZenonT(60)
<1>9. CASE EngJoined
      BY <1>9, ZenonT(60) DEF EngJoined, Requests, RunReturns, Cancelled
<1>10. CASE Drain
      BY <1>10, ZenonT(60) DEF Drain, RunReturns, Cancelled
<1>11. CASE DrainFails
      BY <1>11, ZenonT(60) DEF DrainFails, RunReturns, Cancelled
<1>12. CASE UNCHANGED vars
      BY <1>12, ZenonT(60) DEF vars
<1> QED BY <1>1, <1>2, <1>3, <1>4, <1>5, <1>6, <1>7, <1>8, <1>9, <1>10, <1>11, <1>12, ZenonT(60) DEF Next

(***************************************************************************)
(* Every relay is over when run returns, and, unless it was told to abort   *)
(* or fails, has finished by itself (engine.rs:95-169, 238-262).            *)
(***************************************************************************)
THEOREM RelaysNeverCut == Spec => []RelaysDrained
<1>1. Init => EngineIInv
      BY ZenonT(60) DEF Init, EngineIInv, RelayInv, RelaysDrained
<1>2. EngineIInv /\ [Next]_vars => EngineIInv'
      BY EngineStep, Zenon
<1>3. EngineIInv => RelaysDrained
      BY Zenon DEF EngineIInv
<1> QED BY <1>1, <1>2, <1>3, PTL DEF Spec
===============================================================================
