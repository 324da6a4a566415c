-------------------------------- MODULE Filter --------------------------------
(***************************************************************************)
(* The seccomp filter (broker/seccomp.rs) and the kernel's evaluation of    *)
(* it.  A 32-bit word is the set of the bits and names that are set in it,  *)
(* {} being 0: JEQ compares words, JSET looks for a common member.          *)
(***************************************************************************)
EXTENDS Naturals, Sequences, SequencesExt

LOAD(field)         == [code |-> "LOAD", field |-> field, k |-> {}, jt |-> 0, jf |-> 0]
JUMP(c, k, jt, jf)  == [code |-> c, field |-> "", k |-> k, jt |-> jt, jf |-> jf]
JEQ(k, jt, jf)      == JUMP("JEQ", k, jt, jf)
JSET(k, jt, jf)     == JUMP("JSET", k, jt, jf)
RET(action)         == [code |-> "RET", field |-> action, k |-> {}, jt |-> 0, jf |-> 0]

IoUring  == <<"io_uring_setup", "io_uring_enter", "io_uring_register">>
Notified == <<"open", "openat", "openat2", "socket", "connect", "getpeername",
              "sendmsg", "sendmmsg", "recvmsg", "recvmmsg">>

\* jump(JEQ, syscall, 0, 1) and a RET, for each system call of a list.
Each(calls, action) == FlattenSeq([i \in DOMAIN calls |-> <<JEQ({calls[i]}, 0, 1), RET(action)>>])

Bug_JumpOne(call, flags) ==
    <<JEQ({call}, 0, 8), LOAD("args3"), JSET(flags, 4, 0), LOAD("args4"), JEQ({}, 0, 3),
      LOAD("args4+4"), JEQ({}, 0, 1), RET("ALLOW"), RET("NOTIFY")>>

Transfer(call, flags) ==
    <<JEQ({call}, 0, 8), LOAD("args3"), JSET(flags, 5, 0), LOAD("args4"), JEQ({}, 0, 3),
      LOAD("args4+4"), JEQ({}, 0, 1), RET("ALLOW"), RET("NOTIFY")>>

filter ==
    <<LOAD("arch"), JEQ({"native"}, 1, 0), RET("KILL"),
      LOAD("nr"), JSET({"x32"}, 0, 1), RET("ENOSYS")>>
    \o Each(IoUring, "ENOSYS")
    \o <<JEQ({"getsockopt"}, 0, 6), LOAD("args1"), JEQ({"SOL_SOCKET"}, 0, 3),
         LOAD("args2"), JEQ({"SO_PEERNAME"}, 0, 1), RET("NOTIFY"), RET("ALLOW")>>
    \o Transfer("sendto", {"OOB", "FASTOPEN"}) \o Transfer("recvfrom", {"OOB"})
    \o Each(Notified, "NOTIFY")
    \o <<RET("ALLOW")>>

(***************************************************************************)
(* The kernel runs the program on the data of a call; field is the one its  *)
(* accumulator was loaded from.                                             *)
(***************************************************************************)
evaluate(data) ==
    LET run[pc \in DOMAIN filter, field \in DOMAIN data] ==
            LET ins      == filter[pc]
                goto(hit) == run[pc + 1 + IF hit THEN ins.jt ELSE ins.jf, field]
            IN  CASE ins.code = "RET"  -> ins.field
                  [] ins.code = "LOAD" -> run[pc + 1, ins.field]
                  [] ins.code = "JEQ"  -> goto(data[field] = ins.k)
                  [] ins.code = "JSET" -> goto(data[field] \cap ins.k # {})
    IN  run[1, "arch"]
-------------------------------------------------------------------------------
(***************************************************************************)
(* The reference: which calls the broker has to see.                        *)
(***************************************************************************)
NamesAddress(d) == d["args4"] # {} \/ d["args4+4"] # {}

Expected(d) ==
    LET is(calls) == d["nr"] \in {{c} : c \in calls}
    IN  CASE d["arch"] # {"native"} -> "KILL"
          [] d["arch"] = {"native"} /\ ("x32" \in d["nr"] \/ is(ToSet(IoUring))) -> "ENOSYS"
          [] OTHER ->
               IF \/ is({"open", "openat", "openat2", "socket", "connect", "getpeername"})
                  \/ is({"sendmsg", "sendmmsg", "recvmsg", "recvmmsg"})
                  \/ is({"getsockopt"}) /\ d["args1"] = {"SOL_SOCKET"} /\ d["args2"] = {"SO_PEERNAME"}
                  \/ is({"sendto"}) /\ (NamesAddress(d) \/ d["args3"] \cap {"OOB", "FASTOPEN"} # {})
                  \/ is({"recvfrom"}) /\ (NamesAddress(d) \/ "OOB" \in d["args3"])
               THEN "NOTIFY" ELSE "ALLOW"
===============================================================================
