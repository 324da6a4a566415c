-------------------------------- MODULE Direct --------------------------------
(***************************************************************************)
(* The direct connector (proxy/direct.rs): relay tasks resolve a host with  *)
(* the host's own resolver and try the addresses it returns.  A lookup runs *)
(* in a detached thread that cannot be cancelled: the task may time out or  *)
(* be aborted, and start over, while the thread still holds its permit.     *)
(***************************************************************************)
EXTENDS Naturals, Sequences, Functions, FiniteSets

CONSTANTS Task,         \* relay tasks
          Worker,       \* lookup threads
          MaxLookups,   \* permits of the semaphore (32)
          Host,
          Address,
          HostOf,       \* the host an address belongs to
          MaxAnswers,   \* bound: entries of a getaddrinfo result
          Nobody

ASSUME DirectAssumption ==
    /\ IsFiniteSet(Task) /\ IsFiniteSet(Worker)
    /\ MaxLookups \in Nat \ {0} /\ MaxAnswers \in Nat
    /\ HostOf \in [Address -> Host]
    /\ Nobody \notin Task /\ Nobody \notin Host

VARIABLES
    permits,    \* free permits of the semaphore
    worker,     \* "idle", "native" in getaddrinfo, "sent" with the permit still held
    receiver,   \* the task whose oneshot receiver the worker's sender reaches
    query,      \* the host a worker looks up
    step,       \* the task: "idle", "acquired", "lookup", "connect", "ok", "error"
    host,       \* the host it connects to
    untried,    \* addresses it has yet to try
    tried       \* history: addresses it has tried, in order

lookups    == <<permits, worker, receiver, query>>
directVars == <<lookups, step, host, untried, tried>>

DirectInit ==
    /\ permits = MaxLookups
    /\ worker = [w \in Worker |-> "idle"]
    /\ receiver = [w \in Worker |-> Nobody]
    /\ query = [w \in Worker |-> Nobody]
    /\ step = [t \in Task |-> "idle"]
    /\ host = [t \in Task |-> Nobody]
    /\ untried = [t \in Task |-> <<>>]
    /\ tried = [t \in Task |-> <<>>]

Go(t, place) == step' = [step EXCEPT ![t] = place]

Bug_KeepReceiver(t) == UNCHANGED receiver

\* Dropping the future drops the oneshot receiver; the sender then reaches nobody.
Abandon(t) == receiver' = [w \in Worker |-> IF receiver[w] = t THEN Nobody ELSE receiver[w]]
-------------------------------------------------------------------------------
(***************************************************************************)
(* connect and the first lines of run_lookup: a permit, or EAGAIN at once.  *)
(***************************************************************************)
Acquire(t, h) ==
    /\ step[t] = "idle"
    /\ host' = [host EXCEPT ![t] = h]
    /\ \/ permits > 0 /\ permits' = permits - 1 /\ Go(t, "acquired")
       \/ permits = 0 /\ Go(t, "error") /\ UNCHANGED permits
    /\ UNCHANGED <<worker, receiver, query, untried, tried>>

Spawn(t, w) ==
    /\ step[t] = "acquired" /\ worker[w] = "idle"
    /\ worker' = [worker EXCEPT ![w] = "native"]
    /\ receiver' = [receiver EXCEPT ![w] = t]
    /\ query' = [query EXCEPT ![w] = host[t]]
    /\ Go(t, "lookup")
    /\ UNCHANGED <<permits, host, untried, tried>>

\* The closure that owns the permit is dropped with the thread it never became.
SpawnFails(t) ==
    /\ step[t] = "acquired"
    /\ permits' = permits + 1
    /\ Go(t, "error")
    /\ UNCHANGED <<worker, receiver, query, host, untried, tried>>

(***************************************************************************)
(* resolve_ipv4: the addresses of getaddrinfo's list, each once, in order.  *)
(***************************************************************************)
Push(addresses, ip) == IF ip \in Range(addresses) THEN addresses ELSE Append(addresses, ip)

Collected(list) ==
    LET addresses[n \in 0..Len(list)] == IF n = 0 THEN <<>> ELSE Push(addresses[n - 1], list[n])
    IN  addresses

Unique(list) == Collected(list)[Len(list)]

Lists(h) == UNION {[1..n -> {a \in Address : HostOf[a] = h}] : n \in 0..MaxAnswers}

(***************************************************************************)
(* The native call ends with a list of addresses, or with an error, which   *)
(* an empty list stands for: the task fails either way.  The result goes to *)
(* the receiver, if there still is one; only then is the permit dropped.    *)
(***************************************************************************)
NativeEnds(w) ==
    /\ worker[w] = "native"
    /\ worker' = [worker EXCEPT ![w] = "sent"]
    /\ \/ receiver[w] = Nobody /\ UNCHANGED <<receiver, step, untried>>
       \/ /\ receiver[w] # Nobody
          /\ receiver' = [receiver EXCEPT ![w] = Nobody]
          /\ \E list \in Lists(query[w]) :
                /\ untried' = [untried EXCEPT ![receiver[w]] = Unique(list)]
                /\ Go(receiver[w], "connect")
    /\ UNCHANGED <<permits, query, host, tried>>

Bug_LosePermit(w) ==
    /\ worker[w] = "native"
    /\ worker' = [worker EXCEPT ![w] = "idle"]
    /\ receiver' = [receiver EXCEPT ![w] = Nobody]
    /\ step' = IF receiver[w] = Nobody THEN step ELSE [step EXCEPT ![receiver[w]] = "error"]
    /\ UNCHANGED <<permits, query, host, untried, tried>>

\* The thread ends without a result: the receiver sees a closed channel.
WorkerStops(w) ==
    /\ worker[w] = "native"
    /\ worker' = [worker EXCEPT ![w] = "sent"]
    /\ receiver' = [receiver EXCEPT ![w] = Nobody]
    /\ step' = IF receiver[w] = Nobody THEN step ELSE [step EXCEPT ![receiver[w]] = "error"]
    /\ UNCHANGED <<permits, query, host, untried, tried>>

Release(w) ==
    /\ worker[w] = "sent"
    /\ worker' = [worker EXCEPT ![w] = "idle"]
    /\ query' = [query EXCEPT ![w] = Nobody]
    /\ permits' = permits + 1
    /\ UNCHANGED <<receiver, step, host, untried, tried>>

(***************************************************************************)
(* LOOKUP_TIMEOUT.  It is shorter than CONNECT_TIMEOUT, which therefore     *)
(* only ends the attempts that follow the lookup.                           *)
(***************************************************************************)
Bug_ReturnPermit(t) ==
    /\ step[t] = "lookup"
    /\ Go(t, "error") /\ Abandon(t)
    /\ permits' = permits + 1
    /\ UNCHANGED <<worker, query, host, untried, tried>>

LookupTimeout(t) ==
    /\ step[t] = "lookup"
    /\ Go(t, "error") /\ Abandon(t)
    /\ UNCHANGED <<permits, worker, query, host, untried, tried>>

(***************************************************************************)
(* connect_with_lookup: one address after the other until one accepts.      *)
(***************************************************************************)
Attempt(t) ==
    /\ step[t] = "connect"
    /\ IF untried[t] = <<>>
       THEN Go(t, "error") /\ UNCHANGED <<untried, tried>>
       ELSE /\ untried' = [untried EXCEPT ![t] = Tail(@)]
            /\ tried' = [tried EXCEPT ![t] = Append(@, Head(untried[t]))]
            /\ \E next \in {"ok", "connect", "error"} : Go(t, next)    \* "error": set_nodelay fails
    /\ UNCHANGED <<lookups, host>>

ConnectTimeout(t) ==
    /\ step[t] = "connect"
    /\ Go(t, "error")
    /\ UNCHANGED <<lookups, host, untried, tried>>

Reset(t) ==
    /\ Go(t, "idle")
    /\ host' = [host EXCEPT ![t] = Nobody]
    /\ untried' = [untried EXCEPT ![t] = <<>>]
    /\ tried' = [tried EXCEPT ![t] = <<>>]

\* The task has ended, or shutdown or the relay's own 32 second timer cancels it at an
\* await; another task takes its place.
Over(t) ==
    /\ step[t] \in {"lookup", "connect", "ok", "error"}
    /\ Reset(t) /\ Abandon(t)
    /\ UNCHANGED <<permits, worker, query>>

DirectNext ==
    \/ \E t \in Task :
          \/ \E h \in Host : Acquire(t, h)
          \/ \E w \in Worker : Spawn(t, w)
          \/ SpawnFails(t) \/ LookupTimeout(t) \/ Attempt(t) \/ ConnectTimeout(t) \/ Over(t)
    \/ \E w \in Worker : NativeEnds(w) \/ WorkerStops(w) \/ Release(w)

DirectSpec == DirectInit /\ [][DirectNext]_directVars

\* Timers fire, tasks are polled, threads exit; a native lookup may never return.
DirectFairness ==
    /\ \A t \in Task : /\ WF_directVars((\E w \in Worker : Spawn(t, w)) \/ SpawnFails(t))
                       /\ WF_directVars(LookupTimeout(t))
                       /\ WF_directVars(ConnectTimeout(t))
    /\ \A w \in Worker : WF_directVars(Release(w))
-------------------------------------------------------------------------------
Busy(w) == worker[w] # "idle"

(***************************************************************************)
(* Every permit is free, with a task about to start its thread, or held by  *)
(* a thread until its native call has really ended: timeouts and aborts     *)
(* never let more than MaxLookups threads live at once ("Keep its permit    *)
(* until the native call really ends, even after a timeout",                *)
(* direct.rs:72-74), and no path loses a permit.                            *)
(***************************************************************************)
LookupsBounded ==
    permits + Cardinality({t \in Task : step[t] = "acquired"})
            + Cardinality({w \in Worker : Busy(w)}) = MaxLookups

(***************************************************************************)
(* A task tries only addresses of its own host, none of them twice, even    *)
(* when the answer to a lookup it or its predecessor gave up on arrives     *)
(* late (run_lookup's oneshot channel; resolve_ipv4's contains).            *)
(***************************************************************************)
TriesOwnHost ==
    \A t \in Task : LET all == tried[t] \o untried[t]
                   IN  IsInjective(all) /\ \A i \in DOMAIN all : HostOf[all[i]] = host[t]

(***************************************************************************)
(* As long as native lookups do end, permits become free again and again:   *)
(* no number of timeouts, aborts and failed spawns leaves every further     *)
(* direct connect with EAGAIN.                                              *)
(***************************************************************************)
CapacityReturns ==
    (\A w \in Worker : []<>(worker[w] # "native")) => []<>(permits > 0)

(***************************************************************************)
(* A direct connect ends although native lookups and peers never answer.    *)
(***************************************************************************)
ConnectEnds ==
    \A t \in Task : step[t] \in {"acquired", "lookup", "connect"}
                      ~> step[t] \notin {"acquired", "lookup", "connect"}
===============================================================================
