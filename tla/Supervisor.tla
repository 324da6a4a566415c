------------------------------ MODULE Supervisor ------------------------------
(***************************************************************************)
(* The processes of scproxy and how they end: the supervisor (main.rs), the *)
(* reaper it forks (process.rs) and the command tree below it, with the     *)
(* broker service (broker/mod.rs) seen from the supervisor's two loops.     *)
(*                                                                         *)
(* Processes of the tree fork, exit and ignore SIGTERM at will.  Signals    *)
(* other than SIGKILL and SIGCHLD are one kind, "TERM".                     *)
(***************************************************************************)
EXTENDS Naturals, Sequences, FiniteSets, Functions

CONSTANTS Proc,       \* processes of the tree, each a PID used once
          Command,    \* the first of them
          Reaper, None

ASSUME SupervisorAssumption == Command \in Proc /\ Reaper \notin Proc /\ None \notin Proc

VARIABLES
    proc, parent,     \* the kernel's process table
    rpc,              \* the reaper
    rsig,             \* signals pending for the reaper
    termination,      \* "none", "grace" until the deadline, then "expired"
    how,              \* the signal of this round of signal_descendants
    rfail,            \* the reaper returned an error
    code,             \* whose exit status command_exit_code is
    pending, victims, \* signal_descendants: PIDs to list, descendants found
    life,             \* the lifetime socket: "open", "closed", "signalled"
    sup, sig,         \* the supervisor, and whether it has a signal to handle
    wait,             \* its waitpid thread
    terminating, failed, interrupted,
    service, shut,    \* Service: its task, and the watch channel
    ready             \* the broker has answered the command's handshake

treeVars   == <<proc, parent>>
plan       == <<how, pending, victims>>
reaperRest == <<termination, rfail, code, plan>>
rVars      == <<rpc, rsig, reaperRest, life>>
outcome    == <<terminating, failed, interrupted>>
broker     == <<service, shut, ready>>
supVars    == <<sup, sig, wait, outcome, broker>>
vars       == <<treeVars, rVars, supVars>>

TypeOK ==
    /\ proc \in [Proc -> {"none", "alive", "zombie", "gone"}]
    /\ parent \in [Proc -> Proc \cup {Reaper}]
    /\ rpc \in {"boot", "reap", "decide", "walk", "signal", "sleep", "zombie", "gone"}
    /\ rsig \subseteq {"TERM", "CHLD"}
    /\ termination \in {"none", "grace", "expired"}
    /\ how \in {"TERM", "KILL"}
    /\ code \in Proc \cup {None}
    /\ \A i \in 1..Len(pending) : pending[i] \in Proc \cup {Reaper}
    /\ \A i \in 1..Len(victims) : victims[i] \in Proc
    /\ life \in {"open", "closed", "signalled"}
    /\ sup \in {"start", "loop", "drain", "failing", "exited", "killed"}
    /\ wait \in {"waiting", "reaped"}
    /\ {sig, terminating, failed, interrupted, rfail, ready} \subseteq BOOLEAN
    /\ service \in {"running", "ok", "err", "taken"}
    /\ shut \in {"Running", "Drain", "Abort"}

Init ==
    /\ proc = [p \in Proc |-> "none"]
    /\ parent = [p \in Proc |-> Reaper]
    /\ rpc = "boot" /\ rsig = {} /\ termination = "none" /\ code = None
    /\ how = "TERM" /\ rfail = FALSE /\ ready = FALSE
    /\ pending = <<>> /\ victims = <<>> /\ life = "open"
    /\ sup = "start" /\ sig = FALSE /\ wait = "waiting"
    /\ terminating = FALSE /\ failed = FALSE /\ interrupted = FALSE
    /\ service = "running" /\ shut = "Running"
-------------------------------------------------------------------------------
(***************************************************************************)
(* The tree.  Children of a process that dies go to the reaper, which is a  *)
(* child subreaper.                                                         *)
(***************************************************************************)
Exists(p) == proc[p] \in {"alive", "zombie"}

Children(x) == {q \in Proc : Exists(q) /\ parent[q] = x}

Dead(p) ==              \* effect of p's death on the process table
    /\ proc' = [proc EXCEPT ![p] = "zombie"]
    /\ parent' = [q \in Proc |-> IF parent[q] = p THEN Reaper ELSE parent[q]]
    /\ rsig' = IF parent[p] = Reaper \/ \E q \in Proc : proc[q] = "zombie" /\ parent[q] = p
               THEN rsig \cup {"CHLD"} ELSE rsig

Fork(p) ==
    /\ proc[p] = "alive" /\ ready
    /\ \E q \in Proc : /\ proc[q] = "none"
                       /\ proc' = [proc EXCEPT ![q] = "alive"]
                       /\ parent' = [parent EXCEPT ![q] = p]
    /\ UNCHANGED <<rVars, supVars>>

Exit(p) ==
    /\ proc[p] = "alive"
    /\ Dead(p)
    /\ UNCHANGED <<rpc, reaperRest, life, supVars>>

ReapedByParent(p) ==
    /\ proc[p] = "zombie" /\ parent[p] # Reaper /\ proc[parent[p]] = "alive"
    /\ proc' = [proc EXCEPT ![p] = "gone"]
    /\ UNCHANGED <<parent, rVars, supVars>>
-------------------------------------------------------------------------------
(***************************************************************************)
(* run_command_tree blocks the signals, then forks the command.  Before     *)
(* that a signal ends the reaper.  If the lifetime thread cannot be         *)
(* started, the reaper returns with the command running.                    *)
(***************************************************************************)
Boot ==
    /\ rpc = "boot"
    /\ proc' = [proc EXCEPT ![Command] = "alive"]
    /\ \/ rpc' = "reap" /\ UNCHANGED rfail
       \/ rpc' = "zombie" /\ rfail' = TRUE
    /\ UNCHANGED <<parent, rsig, termination, code, plan, life, supVars>>

BootKilled ==
    /\ rpc = "boot" /\ "TERM" \in rsig
    /\ rpc' = "zombie"
    /\ UNCHANGED <<treeVars, rsig, termination, rfail, code, plan, life, supVars>>

Bug_AnyStatus(p) == p

exit_code(p) == IF p = Command THEN p ELSE code

Bug_ReturnWithCommand == Children(Reaper) = {} \/ code # None

ECHILD == Children(Reaper) = {}     \* waitpid finds no child

(***************************************************************************)
(* One waitpid(-1, WNOHANG) of wait_for_command_tree: collect a zombie,     *)
(* find the rest alive, or return because no child is left.                 *)
(***************************************************************************)
Reap ==
    /\ rpc = "reap"
    /\ \/ \E p \in Children(Reaper) :
             /\ proc[p] = "zombie"
             /\ proc' = [proc EXCEPT ![p] = "gone"]
             /\ code' = exit_code(p)
             /\ UNCHANGED rpc
       \/ /\ \A p \in Children(Reaper) : proc[p] = "alive"
          /\ rpc' = IF ECHILD THEN "zombie" ELSE "decide"
          /\ UNCHANGED <<proc, code>>
    /\ UNCHANGED <<parent, rsig, termination, rfail, plan, life, supVars>>

Bug_NeverKill ==
    /\ rpc = "decide"
    /\ IF termination = "none"
       THEN rpc' = "sleep" /\ UNCHANGED plan
       ELSE /\ rpc' = "walk" /\ pending' = <<Reaper>>
            /\ UNCHANGED <<how, victims>>
    /\ UNCHANGED <<treeVars, rsig, termination, rfail, code, life, supVars>>

Decide ==               \* SIGKILL once the grace period is over
    /\ rpc = "decide"
    /\ IF termination = "none"
       THEN rpc' = "sleep" /\ UNCHANGED plan
       ELSE /\ rpc' = "walk" /\ pending' = <<Reaper>> /\ UNCHANGED victims
            /\ how' = IF termination = "expired" THEN "KILL" ELSE "TERM"
    /\ UNCHANGED <<treeVars, rsig, termination, rfail, code, life, supVars>>

(***************************************************************************)
(* signal_descendants reads the children of one process at a time, while    *)
(* the tree changes, and then signals what it found, children first.        *)
(***************************************************************************)
Last(list)  == list[Len(list)]
Front(list) == SubSeq(list, 1, Len(list) - 1)

\* The lines of a children file: each child once, in some order.
Listed(children) == CHOOSE list \in [1..Cardinality(children) -> children] : IsInjective(list)

Walk ==
    LET pid   == Last(pending)
        found == Listed(Children(pid) \ Range(victims))
    IN  /\ rpc = "walk"
        /\ pending' = Front(pending) \o found
        /\ victims' = victims \o found
        /\ rpc' = IF pending' = <<>> THEN "signal" ELSE "walk"
        /\ UNCHANGED <<treeVars, rsig, termination, how, rfail, code, life, supVars>>

Signal ==
    /\ rpc = "signal"
    /\ \/ /\ victims = <<>>
          /\ rpc' = "sleep"
          /\ UNCHANGED <<treeVars, rsig, victims>>
       \/ /\ victims # <<>>
          /\ victims' = Front(victims)
          /\ UNCHANGED rpc
          /\ \/ proc[Last(victims)] = "alive" /\ Dead(Last(victims))
             \/ /\ ~(proc[Last(victims)] = "alive" /\ how = "KILL")
                /\ UNCHANGED <<treeVars, rsig>>
    /\ UNCHANGED <<termination, how, rfail, code, pending, life, supVars>>

SignalFails ==          \* /proc cannot be read or kill fails: the reaper returns
    /\ rpc \in {"walk", "signal"}
    /\ rpc' = "zombie" /\ rfail' = TRUE
    /\ UNCHANGED <<treeVars, rsig, termination, code, plan, life, supVars>>

Deadline ==
    /\ termination = "grace"
    /\ termination' = "expired"
    /\ UNCHANGED <<treeVars, rpc, rsig, rfail, code, plan, life, supVars>>

Bug_RestartDeadline(s) == IF s = "TERM" THEN "grace" ELSE termination

received(s) == IF s = "TERM" /\ termination = "none" THEN "grace" ELSE termination

Sleep ==                \* sigtimedwait: a signal, or the deadline, or 100 ms after it
    /\ rpc = "sleep"
    /\ rpc' = "reap"
    /\ \/ \E s \in rsig : rsig' = rsig \ {s} /\ termination' = received(s)
       \/ termination = "expired" /\ UNCHANGED <<rsig, termination>>
    /\ UNCHANGED <<treeVars, rfail, code, plan, life, supVars>>

Lifetime ==             \* the broker-lifetime thread of the reaper
    /\ life = "closed" /\ rpc \notin {"boot", "zombie", "gone"}
    /\ life' = "signalled"
    /\ rsig' = rsig \cup {"TERM"}
    /\ UNCHANGED <<treeVars, rpc, termination, rfail, code, plan, supVars>>
-------------------------------------------------------------------------------
forward_signal ==       \* kill(child, signal)
    rsig' = IF rpc = "gone" THEN rsig ELSE rsig \cup {"TERM"}

(***************************************************************************)
(* Someone signals the supervisor, or its process group as a terminal does. *)
(***************************************************************************)
Interrupt ==
    /\ sup \in {"start", "loop", "drain"} /\ ~sig
    /\ sig' = TRUE
    /\ rsig' \in {rsig, IF rpc = "gone" THEN rsig ELSE rsig \cup {"TERM"}}
    /\ UNCHANGED <<treeVars, rpc, reaperRest, life, sup, wait, outcome, broker>>

SupKilled ==            \* SIGKILL: its state is gone, its end of the lifetime socket closes
    /\ sup \in {"start", "loop", "drain", "failing"}
    /\ sup' = "killed"
    /\ life' = IF life = "open" THEN "closed" ELSE life
    /\ sig' = FALSE /\ wait' = "waiting" /\ service' = "taken" /\ shut' = "Running"
    /\ terminating' = FALSE /\ failed' = FALSE /\ interrupted' = FALSE
    /\ UNCHANGED <<treeVars, rpc, rsig, reaperRest, ready>>

Started ==              \* Service::start succeeds; its last write reaches the command
    /\ sup = "start" /\ proc[Command] = "alive"
    /\ sup' = "loop" /\ ready' = TRUE
    /\ UNCHANGED <<treeVars, rVars, sig, wait, outcome, service, shut>>

StartFails ==           \* run(): _life is gone, signal the reaper, wait for it
    /\ sup = "start"
    /\ sup' = "failing" /\ failed' = TRUE
    /\ life' = "closed"
    /\ forward_signal
    /\ UNCHANGED <<treeVars, rpc, reaperRest, sig, wait, terminating, interrupted, broker>>

WaitChild ==            \* waitpid(child)
    /\ sup \in {"loop", "failing"} /\ wait = "waiting"
    /\ rpc = "zombie"
    /\ rpc' = "gone" /\ wait' = "reaped"
    /\ UNCHANGED <<treeVars, rsig, reaperRest, life, sup, sig, outcome, broker>>

begin_shutdown(force) ==
    shut' = IF shut = "Abort" \/ force THEN "Abort" ELSE "Drain"

LoopWait ==             \* the first loop ends
    /\ sup = "loop" /\ wait = "reaped"
    /\ sup' = "drain"
    /\ begin_shutdown(terminating \/ failed)
    /\ UNCHANGED <<treeVars, rVars, sig, wait, outcome, service, ready>>

LoopSignal ==
    /\ sup = "loop" /\ sig
    /\ sig' = FALSE /\ terminating' = TRUE
    /\ forward_signal
    /\ UNCHANGED <<treeVars, rpc, reaperRest, life, sup, wait, failed, interrupted, broker>>

LoopService ==          \* service.wait() in the first loop
    /\ sup = "loop" /\ service \in {"ok", "err"}
    /\ service' = "taken"
    /\ \/ service = "ok" /\ UNCHANGED <<rsig, terminating, failed>>
       \/ service = "err" /\ failed' = TRUE /\ terminating' = TRUE /\ forward_signal
    /\ UNCHANGED <<treeVars, rpc, reaperRest, life, sup, sig, wait, interrupted, shut, ready>>

DrainSignal ==          \* the second loop never signals the child
    /\ sup = "drain" /\ service # "taken" /\ sig
    /\ sig' = FALSE /\ interrupted' = TRUE
    /\ begin_shutdown(TRUE)
    /\ UNCHANGED <<treeVars, rVars, sup, wait, terminating, failed, service, ready>>

DrainService ==
    /\ sup = "drain" /\ service \in {"ok", "err"}
    /\ service' = "taken"
    /\ failed' = (failed \/ service = "err")
    /\ UNCHANGED <<treeVars, rVars, sup, sig, wait, terminating, interrupted, shut, ready>>

Finish ==               \* stop() after the second loop, or run()'s error return
    /\ \/ sup = "drain" /\ service = "taken" /\ begin_shutdown(TRUE)
       \/ sup = "failing" /\ wait = "reaped" /\ UNCHANGED shut
    /\ sup' = "exited"
    /\ life' = IF life = "open" THEN "closed" ELSE life
    /\ UNCHANGED <<treeVars, rpc, rsig, reaperRest, sig, wait, outcome, service, ready>>

(***************************************************************************)
(* The broker's task (see Engine) may end with or without an error at any   *)
(* time, and does end once it is told to abort; a drain may wait for ever.  *)
(***************************************************************************)
ServiceEnds ==
    /\ service = "running" /\ sup \in {"loop", "drain"}
    /\ service' \in {"ok", "err"}
    /\ UNCHANGED <<treeVars, rVars, sup, sig, wait, outcome, shut, ready>>

ReaperStep == Boot \/ BootKilled \/ Reap \/ Decide \/ Walk \/ Signal \/ Sleep

Next ==
    \/ \E p \in Proc : Fork(p) \/ Exit(p) \/ ReapedByParent(p)
    \/ Boot \/ BootKilled \/ Reap \/ Decide \/ Walk \/ Signal \/ SignalFails \/ Sleep
    \/ Deadline \/ Lifetime
    \/ Interrupt \/ SupKilled \/ Started \/ StartFails \/ WaitChild
    \/ LoopWait \/ LoopSignal \/ LoopService \/ DrainSignal \/ DrainService \/ Finish
    \/ ServiceEnds

Spec == Init /\ [][Next]_vars

(***************************************************************************)
(* Threads run, select serves each ready branch, the clock advances and the *)
(* service ends once told to abort (Engine).  Nothing is assumed of the     *)
(* tree.                                                                    *)
(***************************************************************************)
FairSpec ==
    /\ Spec
    /\ WF_vars(ReaperStep) /\ WF_vars(Deadline) /\ WF_vars(Lifetime)
    /\ WF_vars(WaitChild) /\ WF_vars(LoopWait) /\ WF_vars(LoopSignal)
    /\ WF_vars(LoopService) /\ WF_vars(DrainSignal) /\ WF_vars(DrainService)
    /\ WF_vars(Finish) /\ WF_vars(ServiceEnds /\ shut = "Abort")
-------------------------------------------------------------------------------
(***************************************************************************)
(* The supervisor exits only when no process of the command tree is left,   *)
(* however they forked, were orphaned or ignored signals, unless the reaper *)
(* itself failed ("Keep the reaper alive until every descendant has been    *)
(* collected", process.rs:121).                                             *)
(***************************************************************************)
TreeGone == sup = "exited" /\ ~rfail => \A p \in Proc : ~Exists(p)

(***************************************************************************)
(* Without a failure the status that reaches the supervisor is the          *)
(* command's, never that of a descendant the reaper collected, before or    *)
(* after the command (process.rs:92-107, main.rs:166-170).                  *)
(***************************************************************************)
CommandStatus == sup = "exited" /\ ~failed /\ ~rfail => code = Command

(***************************************************************************)
(* "Termination signals are forwarded to the command tree with a two-second *)
(* grace period" (README.md:87): once a signal was forwarded or the broker  *)
(* failed, the supervisor ends, even if the tree ignores SIGTERM and more   *)
(* signals keep arriving ("Preserve the first deadline", process.rs:152).   *)
(***************************************************************************)
Terminates == terminating ~> sup \in {"exited", "killed"}

(***************************************************************************)
(* If the supervisor is killed, the lifetime socket brings the tree down    *)
(* (mod.rs:67-86), unless the reaper itself failed.                         *)
(***************************************************************************)
OrphansTerminate == sup = "killed" ~> (rfail \/ \A p \in Proc : ~Exists(p))

(***************************************************************************)
(* The tree has no cycle: of any processes that exist, one has its parent   *)
(* outside of them.  Orphans move to the reaper, so a parent is alive.      *)
(***************************************************************************)
Rooted ==
    /\ \A p \in Proc : Exists(p) => parent[p] = Reaper \/ proc[parent[p]] = "alive"
    /\ \A S \in SUBSET {p \in Proc : Exists(p)} : S # {} => \E p \in S : parent[p] \notin S

(***************************************************************************)
(* What makes TreeGone and CommandStatus hold.  The reaper sees ECHILD only *)
(* when the tree is empty, because the tree is rooted at it; the command    *)
(* is its own child, so its status passes through exit_code; and the        *)
(* supervisor gets past its loops only after waitpid(child).                *)
(***************************************************************************)
TreeIInv ==
    /\ proc \in [Proc -> {"none", "alive", "zombie", "gone"}]
    /\ parent \in [Proc -> Proc \cup {Reaper}]
    /\ Rooted
    /\ rpc = "boot" => \A p \in Proc : proc[p] = "none"
    /\ rpc \in {"zombie", "gone"} /\ ~rfail => \A p \in Proc : ~Exists(p)
    /\ wait = "reaped" => rpc = "gone"
    /\ sup \in {"drain", "exited"} => wait = "reaped"
    /\ parent[Command] = Reaper
    /\ proc[Command] = "gone" => code = Command
    /\ ready \/ sup \in {"loop", "drain"} \/ (sup \in {"failing", "exited"} /\ ~failed)
           => proc[Command] # "none"
===============================================================================
