-------------------------------- MODULE Files ---------------------------------
(***************************************************************************)
(* ResolverFiles::open (broker/files.rs): the broker answers opens of       *)
(* resolv.conf and nsswitch.conf with its own sealed files.                 *)
(***************************************************************************)
EXTENDS Dispatch

(***************************************************************************)
(* A path, as the tests of open tell it apart: "plain" has another file     *)
(* name; "name" has the file name of a resolver file but leads elsewhere;   *)
(* "file" and "slash" lead to one, "slash" spelt with a trailing / or /.;   *)
(* "link" leads to one and is a symbolic link.                              *)
(***************************************************************************)
Path == {"plain", "name", "file", "slash", "link"}

OpenFlag == {"DIRECTORY", "PATH", "CREAT", "EXCL", "WRITE", "TRUNC", "NOFOLLOW"}

ReadPath(path, base) ==         \* memory::path, the file name test, absolute_path's base
    /\ pc = "path"
    /\ \/ Reply("EFAULT") /\ UNCHANGED request       \* bad memory, or nobody to read it from
       \/ tid # "nobody" /\ path = "plain" /\ Reply("Continue") /\ UNCHANGED request
       \/ /\ tid # "nobody" /\ path # "plain"
          /\ request' = [op |-> "open", flags |-> {path}]
          /\ Goto(IF base = "dirfd" THEN "get" ELSE "match")
    /\ Kernel /\ UNCHANGED <<pidfd, dup>>

(***************************************************************************)
(* The decision of open on the flags, which openat2 reads from an open_how. *)
(***************************************************************************)
open_reply(path, fl) ==
    CASE path = "name" -> "Continue"
      [] path = "slash" \/ (path # "name" /\ "DIRECTORY" \in fl) -> "ENOTDIR"
      [] OTHER ->
           IF "PATH" \notin fl /\ {"CREAT", "EXCL"} \subseteq fl THEN "EEXIST"
           ELSE IF "PATH" \notin fl /\ fl \cap {"WRITE", "TRUNC"} # {} THEN "EACCES"
           ELSE IF path = "link" /\ "NOFOLLOW" \in fl
                THEN IF "PATH" \in fl THEN "Continue" ELSE "ELOOP"
           ELSE "reopen"

\* open_how: a size, a mode or a resolve field that cannot be honoured, or bad memory.
open_how(path) == IF path = "name" THEN {} ELSE {"EINVAL", "E2BIG", "EOPNOTSUPP", "EFAULT"}

Match(Flags) ==                 \* the path is matched, the flags are read and checked
    /\ pc = "match"
    /\ \E path \in request.flags :
       \E r \in {open_reply(path, fl) : fl \in Flags} \cup open_how(path) :
          IF r = "reopen" THEN Goto("reopen") ELSE Reply(r)
    /\ Kernel /\ UNCHANGED <<request, pidfd, dup>>

reopen ==                       \* ConfigFile::reopen, then Broker::valid
    /\ pc = "reopen"
    /\ \/ Reply("EMFILE")
       \/ IF IsValid THEN Goto("addfd") ELSE Reply("EINTR")
    /\ Kernel /\ UNCHANGED <<request, pidfd, dup>>

\* NOTIF_ADDFD without SEND: the descriptor first, its number in a later response.
Bug_AddThenSend ==
    /\ pc = "addfd"
    /\ \/ IsValid /\ given' = given + 1 /\ pc' = "respond" /\ reply' = "fd"
       \/ ~IsValid /\ Reply("ENOENT") /\ UNCHANGED given
    /\ UNCHANGED <<method, targetVars, data, status, answer, had, request, pidfd, dup>>

\* NOTIF_ADDFD with SEND installs the descriptor and answers the call in one step.  It fails
\* when the call is gone, or the caller's table is full; the error is then the answer.
addfd_send ==
    /\ pc = "addfd"
    /\ \/ /\ IsValid
          /\ given' = given + 1 /\ status' = "answered" /\ answer' = "fd"
          /\ Idle
       \/ /\ Reply(IF IsValid THEN "EMFILE" ELSE "ENOENT")
          /\ UNCHANGED <<given, status, answer, request, pidfd, dup>>
    /\ UNCHANGED <<method, targetVars, data, had>>

Serve ==        \* the task of a notification
    \/ dispatch \/ get \/ OpenGroup \/ pidfd_getfd \/ verify_file \/ Got \/ Handle \/ Respond
    \/ reopen \/ addfd_send
-------------------------------------------------------------------------------
(***************************************************************************)
(* A handler acts only on a file that the notified thread itself had at the *)
(* descriptor number while its call was pending: not on one of a stranger   *)
(* that reuses a dead thread's number, nor of a private table's namesake,   *)
(* however descriptors are closed and reused (get, verify_file, and the     *)
(* second valid of dispatch).                                               *)
(***************************************************************************)
OwnFile == pc = "handle" => dup \in had

(***************************************************************************)
(* The broker leaves a descriptor in the caller's table if and only if the  *)
(* caller's open returned that descriptor, also when a signal or death      *)
(* withdraws the call while it is served ("atomic seccomp FD injection",    *)
(* files.rs:1; addfd_send).                                                 *)
(***************************************************************************)
NoStrayDescriptor == given = IF answer = "fd" THEN 1 ELSE 0

(***************************************************************************)
(* The program behind the filter sends the broker exactly the calls it has  *)
(* to see, over all its jumps: opens, sockets, connects and names; messages *)
(* and transfers with an address or a flag that needs it ("Plain send/recv  *)
(* need no broker work, but addresses and special flags still do",          *)
(* seccomp.rs:153-154); it never lets io_uring or another ABI through.      *)
(***************************************************************************)
FilterExact ==
    data # NoCall =>
        /\ status \notin {"native", "killed"} <=> Expected(data) = "NOTIFY"
        /\ status = "killed" <=> Expected(data) = "KILL"
        /\ answer = "ENOSYS" <=> Expected(data) = "ENOSYS"
===============================================================================
