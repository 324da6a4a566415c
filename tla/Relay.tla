-------------------------------- MODULE Relay ---------------------------------
(***************************************************************************)
(* relay::run (src/src/broker/relay.rs): one task copies bytes both ways    *)
(* between the application's socket and the host stream through two bounded *)
(* buffers, and closes both once either side has ended and the queues have  *)
(* drained.  The two peers and the kernel run between any two system calls. *)
(*                                                                         *)
(* Bytes are counted at each place they pass.  "up" is application to host, *)
(* "down" host to application: the peer has sent[d], the relay has read[d]  *)
(* and flushed[d], and the other peer has got[d].                           *)
(***************************************************************************)
EXTENDS Naturals

CONSTANTS BUFFER,       \* capacity of to_application and of to_host
          SockBuf,      \* capacity of a socket's send queue
          MaxBytes      \* bound: bytes each peer sends

ASSUME RelayAssumption == {BUFFER, SockBuf, MaxBytes} \subseteq Nat \ {0}

Dir == {"up", "down"}

VARIABLES
    pc, progress, queued,       \* the loop of run and its locals
    eof,                        \* "none", or the side whose EOF set close_after_drain
    mark,                       \* history: sent["up"] when it was set
    sent, fin, read, flushed, got,
    reset,                      \* the sockets that a peer has reset
    result                      \* "none", "ok" or "err": how run returned

counts == <<sent, read, flushed, got>>
relayVars == <<pc, progress, queued, eof, mark, sent, fin, read, flushed, got, reset, result>>

RelayTypeOK ==
    /\ pc \in {"host", "flush_app", "queue", "app", "flush_host", "error", "outq", "inq",
               "select", "drop", "done"}
    /\ progress \in BOOLEAN
    /\ queued \in BOOLEAN
    /\ eof \in {"none", "host", "app"}
    /\ mark \in Nat
    /\ fin \in [Dir -> BOOLEAN]
    /\ sent \in [Dir -> Nat] /\ read \in [Dir -> Nat]
    /\ flushed \in [Dir -> Nat] /\ got \in [Dir -> Nat]
    /\ \A d \in Dir : /\ got[d] <= flushed[d] /\ flushed[d] <= read[d] /\ read[d] <= sent[d]
                      /\ read[d] - flushed[d] <= BUFFER
    /\ reset \in [{"app", "host"} -> BOOLEAN]
    /\ result \in {"none", "ok", "err"}

RelayInit ==
    /\ pc = "host" /\ progress = FALSE /\ queued = FALSE
    /\ eof = "none" /\ mark = 0
    /\ sent = [d \in Dir |-> 0] /\ fin = [d \in Dir |-> FALSE]
    /\ read = [d \in Dir |-> 0] /\ flushed = [d \in Dir |-> 0] /\ got = [d \in Dir |-> 0]
    /\ reset = [x \in {"app", "host"} |-> FALSE]
    /\ result = "none"
-------------------------------------------------------------------------------
Sender(d) == IF d = "up" THEN "app" ELSE "host"
Sink(d)   == IF d = "up" THEN "host" ELSE "app"

Closing     == eof # "none"                     \* close_after_drain
Pending(d)  == read[d] - flushed[d]             \* to_host, to_application
Unread(d)   == sent[d] - read[d]                \* FIONREAD of Sender(d)
OutQueue(d) == flushed[d] - got[d]              \* TIOCOUTQ of Sink(d)

Space(d) == BUFFER - Pending(d)

Lesser(m, n) == IF m < n THEN m ELSE n

(***************************************************************************)
(* The peers.  A peer sends, ends its stream or resets it while the relay   *)
(* has the socket; what the relay wrote reaches the other peer until that   *)
(* socket is reset.                                                         *)
(***************************************************************************)
PeerSend(d) ==
    /\ ~fin[d] /\ ~reset[Sender(d)] /\ pc # "done"
    /\ sent[d] < MaxBytes
    /\ sent' = [sent EXCEPT ![d] = @ + 1]
    /\ UNCHANGED <<pc, progress, queued, eof, mark, fin, read, flushed, got, reset, result>>

PeerEnd(d) ==
    /\ ~fin[d] /\ ~reset[Sender(d)] /\ pc # "done"
    /\ fin' = [fin EXCEPT ![d] = TRUE]
    /\ UNCHANGED <<pc, progress, queued, eof, mark, counts, reset, result>>

PeerGet(d) ==
    /\ ~reset[Sink(d)]
    /\ got[d] < flushed[d]
    /\ got' = [got EXCEPT ![d] = @ + 1]
    /\ UNCHANGED <<pc, progress, queued, eof, mark, sent, fin, read, flushed, reset, result>>

PeerReset(x) ==
    /\ ~reset[x] /\ pc # "done"
    /\ reset' = [reset EXCEPT ![x] = TRUE]
    /\ UNCHANGED <<pc, progress, queued, eof, mark, counts, fin, result>>
-------------------------------------------------------------------------------
Proceed(label) == pc' = label

ReturnError ==          \* `?` and `return Err`: both streams are dropped
    /\ pc' = "done"
    /\ result' = "err"
    /\ UNCHANGED <<progress, queued, eof, mark, counts, fin, reset>>

(***************************************************************************)
(* try_read of d's source into the free space of its buffer.                *)
(***************************************************************************)
TryRead(d, label) ==
    LET n == Lesser(Unread(d), Space(d))
    IN  \/ /\ Unread(d) > 0
           /\ read' = [read EXCEPT ![d] = @ + n]
           /\ progress' = TRUE
           /\ Proceed(label)
           /\ UNCHANGED <<queued, eof, mark, sent, fin, flushed, got, reset, result>>
        \/ /\ Unread(d) = 0 /\ fin[d] /\ ~reset[Sender(d)]              \* Ok(0)
           /\ eof' = IF Closing THEN eof ELSE Sender(d)
           /\ mark' = IF Closing THEN mark ELSE sent["up"]
           /\ progress' = TRUE
           /\ Proceed(label)
           /\ UNCHANGED <<queued, counts, fin, reset, result>>
        \/ /\ Unread(d) = 0 /\ ~fin[d] /\ ~reset[Sender(d)]             \* WouldBlock
           /\ Proceed(label)
           /\ UNCHANGED <<progress, queued, eof, mark, counts, fin, reset, result>>
        \/ Unread(d) = 0 /\ reset[Sender(d)] /\ ReturnError

Skip(label) ==
    /\ Proceed(label)
    /\ UNCHANGED <<progress, queued, eof, mark, counts, fin, reset, result>>

ReadHost ==             \* the top of the loop
    /\ pc = "host"
    /\ \/ ~Closing /\ Space("down") > 0 /\ TryRead("down", "flush_app")
       \/ (Closing \/ Space("down") = 0) /\ Skip("flush_app")

(***************************************************************************)
(* flush: try_write what is pending; the kernel takes what it has room for. *)
(***************************************************************************)
Flush(d, label) ==
    \/ Pending(d) = 0 /\ Skip(label)
    \/ Pending(d) > 0 /\ reset[Sink(d)] /\ ReturnError
    \/ /\ Pending(d) > 0 /\ ~reset[Sink(d)] /\ OutQueue(d) >= SockBuf   \* WouldBlock
       /\ Skip(label)
    \/ /\ Pending(d) > 0 /\ ~reset[Sink(d)] /\ OutQueue(d) < SockBuf
       /\ \E n \in 1..Lesser(Pending(d), SockBuf - OutQueue(d)) :
             flushed' = [flushed EXCEPT ![d] = @ + n]
       /\ progress' = TRUE
       /\ Proceed(label)
       /\ UNCHANGED <<queued, eof, mark, sent, fin, read, got, reset, result>>

FlushApp  == pc = "flush_app" /\ Flush("down", "queue")
FlushHost == pc = "flush_host" /\ Flush("up", "error")

QueueLen ==
    /\ pc = "queue"
    /\ queued' = (Unread("up") > 0)
    /\ Proceed("app")
    /\ UNCHANGED <<progress, eof, mark, counts, fin, reset, result>>

ReadApp ==              \* after an EOF only what is already queued
    LET reads == (~Closing \/ queued) /\ Space("up") > 0
    IN  /\ pc = "app"
        /\ \/ reads /\ TryRead("up", "flush_host")
           \/ ~reads /\ Skip("flush_host")

TakeError ==
    /\ pc = "error"
    /\ \/ Closing /\ reset["app"] /\ ReturnError
       \/ ~(Closing /\ reset["app"]) /\ Skip("outq")

Bug_AnyQueue == Closing /\ \A d \in Dir : Pending(d) = 0

Drained == Closing /\ (\A d \in Dir : Pending(d) = 0) /\ OutQueue("down") = 0

(***************************************************************************)
(* The end of the loop: the queues are empty, or go round again at once     *)
(* after progress, or wait in select.                                       *)
(***************************************************************************)
CheckOut ==
    /\ pc = "outq"
    /\ \/ Drained /\ Skip("inq")
       \/ ~Drained /\ progress /\ Proceed("host") /\ progress' = FALSE
                   /\ UNCHANGED <<queued, eof, mark, counts, fin, reset, result>>
       \/ ~Drained /\ ~progress /\ Skip("select")

Bug_IgnoreInQueue ==
    /\ pc = "inq"
    /\ Skip("drop")

CheckIn ==
    /\ pc = "inq"
    /\ \/ Unread("up") = 0 /\ Skip("drop")
       \/ Unread("up") > 0 /\ progress /\ Proceed("host") /\ progress' = FALSE
                           /\ UNCHANGED <<queued, eof, mark, counts, fin, reset, result>>
       \/ Unread("up") > 0 /\ ~progress /\ Skip("select")

Readable(d) == Unread(d) > 0 \/ fin[d] \/ reset[Sender(d)]
Writable(d) == OutQueue(d) < SockBuf \/ reset[Sink(d)]

Bug_NoTimer ==
    /\ pc = "select"
    /\ \/ ~Closing /\ Space("down") > 0 /\ Readable("down")
       \/ (~Closing \/ queued) /\ Space("up") > 0 /\ Readable("up")
       \/ \E d \in Dir : Pending(d) > 0 /\ Writable(d)
    /\ Skip("host")

Select ==
    /\ pc = "select"
    /\ \/ ~Closing /\ Space("down") > 0 /\ Readable("down")
       \/ (~Closing \/ queued) /\ Space("up") > 0 /\ Readable("up")
       \/ \E d \in Dir : Pending(d) > 0 /\ Writable(d)
       \/ Closing                                               \* the 10 ms timer
    /\ Skip("host")

Drop ==                 \* return Ok: the streams are closed
    /\ pc = "drop"
    /\ Proceed("done")
    /\ result' = "ok"
    /\ UNCHANGED <<progress, queued, eof, mark, counts, fin, reset>>

RelayStep ==
    \/ ReadHost \/ FlushApp \/ QueueLen \/ ReadApp \/ FlushHost \/ TakeError
    \/ CheckOut \/ CheckIn \/ Select \/ Drop

RelayNext ==
    \/ RelayStep
    \/ \E d \in Dir : PeerSend(d) \/ PeerEnd(d) \/ PeerGet(d)
    \/ \E x \in {"app", "host"} : PeerReset(x)

RelaySpec == RelayInit /\ [][RelayNext]_relayVars

(***************************************************************************)
(* The task is polled whenever it can go on, and both peers keep taking     *)
(* what was written to them.                                                *)
(***************************************************************************)
RelayFairSpec == RelaySpec /\ WF_relayVars(RelayStep) /\ \A d \in Dir : WF_relayVars(PeerGet(d))
-------------------------------------------------------------------------------
(***************************************************************************)
(* When the host stream's end closed the relay, the application has         *)
(* received everything the host sent (relay.rs:13, 69-77), not only what    *)
(* the relay had written.                                                   *)
(***************************************************************************)
HostEndDelivered == result = "ok" /\ eof = "host" => got["down"] = sent["down"]

(***************************************************************************)
(* Whatever the application had sent when an EOF was noticed has been       *)
(* written to the host before the relay closes (relay.rs:45-46, 70-73).     *)
(***************************************************************************)
ApplicationForwarded == result = "ok" => flushed["up"] >= mark

(***************************************************************************)
(* "Relays close both directions after either EOF once queued data has      *)
(* drained" (README.md:83): once an EOF is noticed the relay returns, when  *)
(* both peers keep reading.                                                 *)
(***************************************************************************)
ClosesAfterEof == Closing ~> pc = "done"

(***************************************************************************)
(* What makes the two safety properties inductive.                          *)
(***************************************************************************)
RelayIInv ==
    /\ RelayTypeOK
    /\ mark <= sent["up"]
    /\ eof = "host" => fin["down"] /\ read["down"] = sent["down"]
    /\ pc \in {"inq", "drop"} =>
          /\ Closing
          /\ \A d \in Dir : read[d] = flushed[d]
          /\ got["down"] = flushed["down"]
    /\ pc = "drop" => flushed["up"] >= mark
    /\ pc = "done" <=> result # "none"
    /\ HostEndDelivered
    /\ ApplicationForwarded
===============================================================================
