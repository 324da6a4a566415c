-------------------------------- MODULE Engine --------------------------------
(***************************************************************************)
(* The life of the broker: the thread that receives seccomp notifications   *)
(* (src/src/broker/receiver.rs), the loop that hands them to request tasks  *)
(* and drains the relays at the end (Broker::run and drain_relays in        *)
(* engine.rs), and the Service that shuts both down (mod.rs).               *)
(*                                                                         *)
(* What a request does is TcpConnect's subject.  Here it is a task that may *)
(* add a relay to Broker::relays just before it answers, in one poll that   *)
(* an abort cannot interrupt.                                               *)
(***************************************************************************)
EXTENDS Naturals, Sequences, FiniteSets

CONSTANTS Note,        \* notifications, in the order applications cause them
          ChannelCap,  \* capacity of the channel to the broker (256)
          RequestCap   \* most requests at a time (256)

ASSUME EngineAssumption == {ChannelCap, RequestCap} \subseteq Nat \ {0}

VARIABLES
    note,              \* where a notification is
    users,             \* some process still runs under the filter
    rx, hand,          \* the receiver thread and the notification it holds
    stop, wake,        \* Receiver's flag and eventfd
    drop,              \* Receiver::drop: "no", "kill" (signalling), "joined"
    channel, open,     \* the mpsc channel and whether the broker still has its end
    eng, result,       \* Broker::run: position and result
    relay,             \* the relay task a notification led to
    shut               \* the watch channel

rxVars  == <<rx, hand, stop, wake, drop>>
engVars == <<channel, open, eng, result, relay, shut>>
vars == <<note, users, rx, hand, stop, wake, drop, channel, open, eng, result, relay, shut>>

None == "none"

TypeOK ==
    /\ note \in [Note -> {"none", "queued", "gone", "received", "request", "last_poll",
                          "finished", "answered", "aborted"}]
    /\ users \in BOOLEAN
    /\ rx \in {"check", "poll", "polled", "recv", "blocked", "send", "done"}
    /\ hand \in Note \cup {None}
    /\ stop \in BOOLEAN /\ wake \in BOOLEAN
    /\ drop \in {"no", "kill", "joined"}
    /\ Len(channel) <= ChannelCap
    /\ \A i \in 1..Len(channel) : channel[i] \in Note \cup {"error"}
    /\ open \in BOOLEAN
    /\ eng \in {"select", "join", "drain", "done"}
    /\ result \in {"none", "ok", "err"}
    /\ relay \in [Note -> {"none", "running", "finished", "cancelled"}]
    /\ shut \in {"Running", "Drain", "Abort"}
    /\ Cardinality({n \in Note : note[n] \in {"request", "last_poll", "finished"}}) <= RequestCap

Init ==
    /\ note = [n \in Note |-> "none"]
    /\ users = TRUE
    /\ rx = "check" /\ hand = None /\ stop = FALSE /\ wake = FALSE /\ drop = "no"
    /\ channel = <<>> /\ open = TRUE
    /\ eng = "select" /\ result = "none"
    /\ relay = [n \in Note |-> "none"]
    /\ shut = "Running"
-------------------------------------------------------------------------------
Queued == {n \in Note : note[n] = "queued"}

(***************************************************************************)
(* The applications and the kernel.  A thread that is killed takes back a   *)
(* notification nobody has received.                                        *)
(***************************************************************************)
Trap(n) ==
    /\ users /\ note[n] = "none"
    /\ note' = [note EXCEPT ![n] = "queued"]
    /\ UNCHANGED <<users, rxVars, engVars>>

WithdrawNote(n) ==
    /\ note[n] = "queued"
    /\ note' = [note EXCEPT ![n] = "gone"]
    /\ UNCHANGED <<users, rxVars, engVars>>

LastExit ==             \* the listener then reports EPOLLHUP
    /\ users /\ \A n \in Note : note[n] \in {"none", "gone", "answered"}
    /\ users' = FALSE
    /\ UNCHANGED <<note, rxVars, engVars>>
-------------------------------------------------------------------------------
(***************************************************************************)
(* The receiver thread.                                                     *)
(***************************************************************************)
RxGoto(label) == rx' = label /\ UNCHANGED <<users, hand, stop, wake, drop, engVars>>

RxCheck ==
    /\ rx = "check"
    /\ RxGoto(IF stop THEN "done" ELSE "poll") /\ UNCHANGED note

RxPoll ==               \* epoll_wait returns, or fails for good
    /\ rx = "poll"
    /\ \/ /\ Queued # {} \/ ~users \/ wake
          /\ RxGoto("polled")
       \/ RxGoto("check")                                    \* EINTR
    /\ UNCHANGED note

RxPolled ==
    /\ rx = "polled"
    /\ RxGoto(IF stop THEN "done"
              ELSE IF Queued # {} THEN "recv"
              ELSE IF ~users THEN "done" ELSE "check")
    /\ UNCHANGED note

(***************************************************************************)
(* SECCOMP_IOCTL_NOTIF_RECV.  The notification that made the listener       *)
(* readable may be gone: the call fails or blocks until there is another.   *)
(***************************************************************************)
RxRecv ==
    /\ rx \in {"recv", "blocked"}
    /\ \/ \E n \in Queued : /\ note' = [note EXCEPT ![n] = "received"]
                            /\ rx' = "send" /\ hand' = n
                            /\ UNCHANGED <<users, stop, wake, drop, engVars>>
       \/ /\ rx = "recv" /\ Queued = {}
          /\ RxGoto("blocked") /\ UNCHANGED note
       \/ /\ rx = "recv"                                     \* ENOENT, ENOMEM...
          /\ RxGoto("check") /\ UNCHANGED note

RxFatal ==              \* an error that ends the thread; lost if the channel is full
    /\ rx \in {"poll", "recv"}
    /\ channel' = IF open /\ Len(channel) < ChannelCap THEN Append(channel, "error") ELSE channel
    /\ rx' = "done"
    /\ UNCHANGED <<note, users, hand, stop, wake, drop, open, eng, result, relay, shut>>

Bug_DropWhenFull ==
    /\ rx = "send"
    /\ hand' = None
    /\ rx' = "check"
    /\ channel' = IF Len(channel) < ChannelCap THEN Append(channel, hand) ELSE channel
    /\ UNCHANGED <<note, users, stop, wake, drop, open, eng, result, relay, shut>>

RxSend ==               \* try_send
    /\ rx = "send"
    /\ hand' = None
    /\ \/ /\ open /\ Len(channel) < ChannelCap
          /\ channel' = Append(channel, hand)
          /\ rx' = "check"
          /\ UNCHANGED note
       \/ /\ open /\ Len(channel) = ChannelCap               \* EAGAIN
          /\ note' = [note EXCEPT ![hand] = "answered"]
          /\ rx' = "check"
          /\ UNCHANGED channel
       \/ /\ ~open
          /\ rx' = "done"
          /\ UNCHANGED <<note, channel>>
    /\ UNCHANGED <<users, stop, wake, drop, open, eng, result, relay, shut>>
-------------------------------------------------------------------------------
Requests == {n \in Note : note[n] \in {"request", "last_poll", "finished"}}

Break(r) == eng' = "join" /\ result' = r

(***************************************************************************)
(* The select of Broker::run.  An answer fails only with ENOENT, because    *)
(* its caller is gone, which respond ignores.                               *)
(***************************************************************************)
EngNotify ==
    /\ eng = "select" /\ shut = "Running"
    /\ channel # <<>>
    /\ channel' = Tail(channel)
    /\ \/ /\ Head(channel) = "error" /\ Break("err")
          /\ UNCHANGED <<note, open>>
       \/ /\ Head(channel) # "error" /\ Cardinality(Requests) < RequestCap
          /\ note' = [note EXCEPT ![Head(channel)] = "request"]
          /\ UNCHANGED <<open, eng, result>>
       \/ /\ Head(channel) # "error" /\ Cardinality(Requests) >= RequestCap
          /\ note' = [note EXCEPT ![Head(channel)] = "answered"]
          /\ UNCHANGED <<open, eng, result>>
    /\ UNCHANGED <<users, rxVars, relay, shut>>

EngEnd ==               \* shutdown, the channel's end, or dns or ingress failing
    /\ eng = "select"
    /\ \/ shut # "Running" /\ Break("ok")
       \/ channel = <<>> /\ rx = "done" /\ Break("ok")
       \/ Break("err")
    /\ UNCHANGED <<note, users, rxVars, channel, open, relay, shut>>

EngJoin(n) ==           \* requests.join_next; the task may have panicked
    /\ eng = "select" /\ note[n] = "finished"
    /\ note' = [note EXCEPT ![n] = "answered"]
    /\ \/ UNCHANGED <<eng, result>>
       \/ Break("err")
    /\ UNCHANGED <<users, rxVars, channel, open, relay, shut>>

(***************************************************************************)
(* A request task: dispatch, whose last poll may spawn a relay, and the     *)
(* answer.                                                                  *)
(***************************************************************************)
TaskLastPoll(n) ==
    /\ note[n] = "request"
    /\ note' = [note EXCEPT ![n] = "last_poll"]
    /\ UNCHANGED <<users, rxVars, engVars>>

TaskAnswer(n) ==
    /\ note[n] = "last_poll"
    /\ note' = [note EXCEPT ![n] = "finished"]
    /\ \/ relay' = [relay EXCEPT ![n] = "running"]
       \/ UNCHANGED relay
    /\ UNCHANGED <<users, rxVars, channel, open, eng, result, shut>>

RelayEnds(n) ==
    /\ relay[n] = "running"
    /\ relay' = [relay EXCEPT ![n] = "finished"]
    /\ UNCHANGED <<note, users, rxVars, channel, open, eng, result, shut>>

(***************************************************************************)
(* abort_all and the joins: a task ends at its next await, or completes.    *)
(***************************************************************************)
Aborted(n) ==
    /\ eng = "join"
    /\ note[n] \in {"request", "finished"}
    /\ note' = [note EXCEPT ![n] = IF @ = "request" THEN "aborted" ELSE "answered"]
    /\ UNCHANGED <<users, rxVars, engVars>>

Cancelled == [n \in Note |-> IF relay[n] = "running" THEN "cancelled" ELSE relay[n]]

RunReturns(r) ==            \* run's locals go: the channel, and the relays it took
    /\ eng' = "done" /\ result' = r
    /\ open' = FALSE /\ channel' = <<>>
    /\ relay' = Cancelled

Bug_TakeBeforeJoin ==
    /\ eng = "join"
    /\ \/ result = "ok" /\ eng' = "drain" /\ UNCHANGED <<channel, open, result, relay>>
       \/ result = "err" /\ RunReturns("err")
    /\ UNCHANGED <<note, users, rxVars, shut>>

EngJoined ==
    /\ eng = "join"
    /\ Requests = {}
    /\ \/ result = "ok" /\ eng' = "drain" /\ UNCHANGED <<channel, open, result, relay>>
       \/ result = "err" /\ RunReturns("err")
    /\ UNCHANGED <<note, users, rxVars, shut>>

Bug_DrainIgnoresAbort ==
    /\ eng = "drain"
    /\ \A n \in Note : relay[n] # "running"
    /\ RunReturns("ok")
    /\ UNCHANGED <<note, users, rxVars, shut>>

Drain ==                \* drain_relays
    /\ eng = "drain"
    /\ \/ (\A n \in Note : relay[n] # "running") /\ RunReturns("ok")
       \/ shut = "Abort" /\ RunReturns("ok")
    /\ UNCHANGED <<note, users, rxVars, shut>>

DrainFails ==           \* the deadline, ingress failing, or a relay that panicked
    /\ eng = "drain"
    /\ \E n \in Note : relay[n] \in {"running", "finished"}
    /\ RunReturns("err")
    /\ UNCHANGED <<note, users, rxVars, shut>>
-------------------------------------------------------------------------------
(***************************************************************************)
(* Service.  begin_shutdown comes from the supervisor at any moment; stop   *)
(* waits for the task, then drops the receiver.                             *)
(***************************************************************************)
begin_shutdown(force) ==
    /\ shut # "Abort"
    /\ shut' = IF force THEN "Abort" ELSE "Drain"
    /\ UNCHANGED <<note, users, rxVars, channel, open, eng, result, relay>>

DropReceiver ==
    /\ eng = "done" /\ drop = "no" /\ shut = "Abort"
    /\ stop' = TRUE /\ wake' = TRUE
    /\ drop' = "kill"
    /\ UNCHANGED <<note, users, rx, hand, engVars>>

Bug_SignalOnce ==
    /\ drop = "kill"
    /\ \/ rx = "done" /\ drop' = "joined" /\ UNCHANGED rx
       \/ rx # "done" /\ drop' = "joined" /\ rx' = IF rx = "blocked" THEN "check" ELSE rx
    /\ UNCHANGED <<note, users, hand, stop, wake, engVars>>

Signal ==               \* pthread_kill, again every 5 ms until the thread has finished
    /\ drop = "kill"
    /\ \/ rx = "done" /\ drop' = "joined" /\ UNCHANGED rx
       \/ /\ rx # "done" /\ UNCHANGED drop
          /\ rx' = IF rx \in {"poll", "blocked"} THEN "check" ELSE rx
    /\ UNCHANGED <<note, users, hand, stop, wake, engVars>>
-------------------------------------------------------------------------------
EngStep == EngNotify \/ EngJoined \/ Drain \/ (EngEnd /\ result' = "ok")

Next ==
    \/ \E n \in Note : Trap(n) \/ WithdrawNote(n) \/ TaskLastPoll(n) \/ TaskAnswer(n)
                       \/ EngJoin(n) \/ Aborted(n) \/ RelayEnds(n)
    \/ LastExit
    \/ RxCheck \/ RxPoll \/ RxPolled \/ RxRecv \/ RxFatal \/ RxSend
    \/ EngNotify \/ EngEnd \/ EngJoined \/ Drain \/ DrainFails
    \/ \E force \in BOOLEAN : begin_shutdown(force)
    \/ DropReceiver \/ Signal

Spec == Init /\ [][Next]_vars

(***************************************************************************)
(* Threads and tasks keep running, select polls every ready branch, and     *)
(* transient errors (EINTR, ENOENT, ENOMEM) do not recur forever.  Nothing  *)
(* is assumed of applications, relays or the drain's deadline, nor that a   *)
(* request ends: a receive without a timeout waits for ever.  Its last poll *)
(* does not wait, and an abort ends it at the await where it waits.         *)
(***************************************************************************)
FairSpec ==
    /\ Spec
    /\ WF_vars(RxCheck) /\ WF_vars(RxPolled) /\ WF_vars(RxSend)
    /\ WF_vars(RxRecv)
    /\ SF_vars(RxPoll /\ rx' = "polled") /\ SF_vars(RxRecv /\ rx' = "send")
    /\ WF_vars(EngStep)
    /\ \A n \in Note : WF_vars(TaskAnswer(n)) /\ WF_vars(EngJoin(n)) /\ WF_vars(Aborted(n))
    /\ WF_vars(DropReceiver) /\ WF_vars(Signal)
-------------------------------------------------------------------------------
(***************************************************************************)
(* No relay outlives run: what is spawned belongs to the JoinSet that       *)
(* cancels it ("JoinSet also owns cancellation", engine.rs:165).  And       *)
(* "Notification EOF can precede completion of the last command's writes    *)
(* and proxy handshakes" (engine.rs:163): unless it was told to abort, run  *)
(* returns Ok only after every relay that any request spawned has finished, *)
(* those spawned while requests were being aborted included.                *)
(***************************************************************************)
RelaysDrained ==
    eng = "done" =>
        \A n \in Note :
            /\ relay[n] # "running"
            /\ result = "ok" /\ shut # "Abort" => relay[n] \in {"none", "finished"}

(***************************************************************************)
(* An abort ends the broker even if relays never finish and the drain's     *)
(* deadline is far away (engine.rs:246-248).                                *)
(***************************************************************************)
AbortEnds == shut = "Abort" ~> eng = "done"

(***************************************************************************)
(* Receiver::drop returns: the thread leaves a receive that blocks because  *)
(* its notification disappeared (receiver.rs:30-31, 152-166).               *)
(***************************************************************************)
ReceiverJoined == drop = "kill" ~> drop = "joined" /\ rx = "done"

(***************************************************************************)
(* While the broker runs, every notification gets a task or is answered     *)
(* EAGAIN, although other requests may hold the channel and all the slots   *)
(* for requests for ever (receiver.rs:87-95, engine.rs:119-120).            *)
(***************************************************************************)
Served ==
    \A n \in Note : note[n] = "queued" ~>
        note[n] \in {"request", "answered", "gone"} \/ eng # "select" \/ rx = "done"
===============================================================================
