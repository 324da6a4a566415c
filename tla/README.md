# TLA+ specifications of scproxy

scproxy runs a command under a seccomp filter that hands its network system
calls to a supervisor. The supervisor answers DNS with addresses from a private
pool (FakeIP), turns a later `connect` to such an address back into a domain,
and relays the connection over a direct, SOCKS5 or HTTP CONNECT route.

This directory holds specifications of its concurrent parts, TLC configurations
that check them on small instances, and TLAPS proofs of the main safety
properties for every instance. `PROJECT.json` lists the runs, the theorems, the
source lines of every definition, the hazards and which property covers each.

    tlc -workers 2 -config TcpRoutes.cfg MCTcpRoutes
    tlapm PeerTableProofs.tla

## The system and its models

| Part | Source (`src/src/`) | Module | State |
|---|---|---|---|
| FakeIP pool and resolver | `fake_dns.rs`, `broker/dns.rs` | `FakeDns`, abstract `DomainFifo` | whole |
| DNS messages | `fake_dns.rs` | `DnsWire` | whole, on bytes |
| Per-socket connect locks | `broker/tcp.rs`, `broker/engine.rs` | `ConnectLocks` | whole |
| Peer table and cleanup | `broker/tcp.rs`, `broker/engine.rs`, `broker/diagnostics.rs` | `PeerMap`, abstract `PeerTable` | whole; netlink encoding left out |
| TCP connects | `broker/tcp.rs`, `tcp_ingress.rs`, `tcp_bind.rs`, `connect.rs` | `TcpConnect` | whole; `prepare` is one step |
| Source-port reservation | `broker/tcp_bind.rs` | `TcpBind` | whole, one step per kernel call |
| Relay | `broker/relay.rs` | `Relay` | whole |
| Broker loop, receiver, shutdown | `broker/engine.rs`, `receiver.rs`, `mod.rs` | `Engine` | whole; a request is one opaque task, which may never end |
| Seccomp filter | `broker/seccomp.rs` | `Filter` | the program; not the privilege checks of `install` |
| Request dispatch, descriptor access | `broker/engine.rs`, `access.rs`, `seccomp.rs` | `Dispatch` | whole; the handlers behind it are one step |
| Resolver files | `broker/files.rs` | `Files` | opens; paths are classes, contents left out |
| Bootstrap | `broker/mod.rs`, `main.rs`, `process.rs`, `files.rs` | `Bootstrap` | whole; the probes are one step |
| Supervisor, reaper, command tree | `main.rs`, `process.rs` | `Supervisor` | whole; the start handshake is one step |
| DNS servers, datagram calls | `broker/dns.rs`, `datagram.rs`, `message.rs` | `Datagram` | whole but `getpeername` |
| DNS over TCP | `broker/dns.rs` | `DnsTcp` | whole |
| Routing rules | `rule.rs`, `config.rs` | `Routing` | whole; text already parsed |
| Proxy handshakes, `ProxyStream` | `proxy/` | `Handshake` | whole; requests not encoded |
| Direct connector | `proxy/direct.rs` | `Direct` | whole; errors of a lookup are not told apart |

How they interact: `Bootstrap` brings the command under its filter and the
broker into service; `Supervisor` ends both. A call that `Filter` sends to the
broker is received by `Engine`, which runs a task for it. `Dispatch` is that task:
it fetches the caller's descriptor and hands it on, opens to `Files`, TCP connects
to `TcpConnect`, datagram calls to `Datagram`. `TcpConnect` uses `ConnectLocks`,
`PeerMap` and `TcpBind`, asks `FakeDns` what an address stands for and `Routing`
where to send it. The accepted stream is served by `DnsTcp`, or connected by
`Direct` or `Handshake` and then copied by `Relay`.

Three compositions share one state space.

* `TcpConnect` composes the locks, the table, the ingress and the kernel's
  sockets. It extends `ConnectLocks`, whose actions are conjuncts of its own, and
  takes what the broker does with the peer map from `PeerMap`. It implements
  `PeerTable`, the promise of the table on its own: `TcpTable` has the mapping, the
  run `tcp_tables` checks it and `TcpTableProofs` proves it.
* `MCRequests` composes `Bootstrap`, `Files`, `Dispatch` and `Filter`: the command
  starts, its verifying open passes through filter and broker, then its own calls
  do, while the supervisor, the service and the command may die. Two further
  modes of it try the filter with every call and run `TcpBind`.
* `MCUpstream` puts what can serve a stream side by side; a behaviour takes one of
  `Handshake`, `Direct` and `DnsTcp`.

The other modules meet at their interfaces only: for instance the service is, to
`Supervisor`, a task that may end at any time and does once told to abort.

### How state and actions correspond to the code

* **FakeDns.** `domain_to_ip`, `ip_to_domain` and `next_offset` are the fields
  of the pool. `Allocate` and `Reuse` are the two paths of `resolve`, each under
  the resolver's mutex and so one step. `held` records answers clients keep.
* **ConnectLocks.** `locks` is the map of weak mutexes, `arc` the strong
  references calls hold, `owner` the holders.
* **PeerMap, PeerTable.** `peers` is `Broker::peers` with `pending` and `fresh`;
  `snapshot` is the dump under way, which visits sockets one at a time while
  they connect and close. `PeerMap` has what the code does with the two,
  `PeerTable` the connects around it reduced to `want` and `busy`, the targets of the
  connect that committed and of the one under way.
* **TcpConnect.** `pc` and `call` are the position and locals of each
  `connect_tcp`; `worker` is its `spawn_blocking` connect; `waiting` and `reg`
  are `Ingress::waiting` and the registrations; `tcp` and `backlog` are the
  kernel's sockets and accept queue. A step runs from one await to the next. The
  worker is queued, taken by a thread, inside `connect(2)`, back from it and
  finished, so that a cancellation can meet it at each of these places. A stream
  carries the source address `accept` returns and whether it is still open; a
  registration remembers whether its connection was lost. `MCTcpRoutes` bounds the
  number of calls, not what follows from them.
* **Relay.** `pc` walks through the loop of `relay::run` one system call at a
  time. Bytes are counters at each place they pass: sent, read, flushed, got.
* **Engine.** `note` says where each notification is; `rx` is the receiver
  thread; the engine's position covers `run` and `drain_relays`.
* **Supervisor.** `proc` and `parent` are the kernel's process table; `rpc` is
  the reaper's loop with `signal_descendants` split into one step per process
  listed; `sup` is the supervisor's two loops; `life` is the lifetime socket.
* **Datagram.** `forward` and `reverse` are the server tables, `task` the
  locals of each call of `dispatch`; `rx` is the socket's receive queue.
* **Routing.** A rule is appended by a step and inserted into the trie, which
  is a function from bit strings to nodes; lookups are operators.
* **Direct.** `permits` is the semaphore, `worker` the detached threads,
  `receiver` the oneshot channel from a thread to a task. A task that times out or
  is aborted drops its end and starts over while the thread lives on.
* **DnsWire, DnsTcp.** `parse_query` and the builders are operators on byte
  sequences. `stream` and `out` are the two directions of the connection, `place`
  the position in one exchange of `serve_tcp`.
* **Filter.** The program is a sequence of instructions with their jump offsets;
  a word is the set of names and bits set in it. `evaluate` is the kernel.
* **Dispatch, Files.** `table` is what one descriptor number means to the caller,
  to its thread group leader and to a stranger that reuses a dead task's number.
  `pc` walks through `dispatch`, `SocketAccess::get` and `ResolverFiles::open`,
  one kernel call at a time; `status` is the notification.
* **Bootstrap.** `cmd`, `reaper` and `sup` are the three processes, `control` the
  messages on the control socket.
* **TcpBind.** `sock` is the socket's address and option, `free` the ports nobody
  has, `at` the position in `prepare`.
* **Handshake.** `wire` holds the items the server sent: bytes of a SOCKS5
  reply, lines of an HTTP response, bytes of the tunnel. `stage` is the client's
  place, `buffered` what `BufReader` has taken from the socket, `relayed` what the
  relay has read, `streamed` the tunnel bytes sent so far.

## What is checked

State counts are of distinct states.

| Run | States | What it shows |
|---|---|---|
| `fake_dns` | 20,429 | the maps are inverse; a fresh answer leads back to its domain until the pool has wrapped; eviction is FIFO (refines `DomainFifo`) |
| `tcp_tables` | 598,350 | with interrupts, disconnects and the cleanup tick, connects of one socket exclude each other, `connect_tcp` implements `PeerTable`, and a reported connection keeps the peer that was asked for |
| `tcp_calls` | 97,233 | at the limit of permits, every connect is answered, wherever a cancellation meets the worker, and no path loses, doubles or keeps a permit |
| `tcp_routes` | 1,794,523 | with disconnects and a port that passes from socket to socket, no relay gets an open stream of another socket or for another target; connects of different sockets share no lock |
| `relay` | 278,074 | after an EOF the relay closes, having delivered the host's stream and forwarded the application's |
| `engine` | 84,974 | no relay is cut short or missed by the drain; an abort ends; the receiver is joined; every notification gets a request or EAGAIN |
| `supervisor` | 415,000 | exit only when the tree is gone, with the command's status; termination reaches a tree that ignores signals, also after the supervisor was killed |
| `datagram` | 648,012 | replies carry the address their query named; calls report exactly what they moved; abandoned calls and calls with a deadline end on an idle socket |
| `routing` | 112,945 | longest prefix first, of equal prefixes the first rule, domain rules in order: against a definition over the rules as written |
| `upstream` | 52,401 | no byte of a tunnel is lost or added, and only accepted tunnels open; lookups stay within their permits, which return; a task tries only addresses of its own host; each DNS query on a TCP connection gets its reply in order; handshakes, direct connects and exchanges end |
| `requests` | 395,938 | the filter notifies exactly the calls it should; a handler acts only on the caller's own file; an injected descriptor is never stray; the command runs only after a complete start, and starting ends; a failed reservation restores the socket |
| `tcp_reserve` | | a violation, see below |

Each property of each passing run has a mutant in `PROJECT.json`: a change to
one definition, such as a dropped guard, under which the property fails. The
`TypeOK` of a module documents its state and is proved where a proof uses it.

### A disagreement between the text and the code

`tcp_reserve` checks what a comment says and finds it violated. A connection that
ends gives an automatically assigned port back, but `getsockname` goes on
reporting it. `prepare` returns that port (`tcp_bind.rs:8`), the connect is
registered under it, and `connect(2)` then picks any free port; when that is another
one, the stream finds no registration (against `tcp_ingress.rs:39`). In the run the
first connection ends by its own cancellation: a blocking `connect(2)` has sent its
SYN, the call is interrupted, and `shutdown` disconnects the socket. The end of an
established connection and a failed connect do the same. A port that `bind` has
reserved and no connection has used yet is kept by AF_UNSPEC, so that this is not
one of the ways.

### Where a property stops

Five properties are stated for less than the text around the code suggests. The
hazards in `PROJECT.json` name the lines.

* `PeerNameRequested` is about connects that were reported as made or in
  progress. An interrupt that meets a connect just finished leaves the socket
  connected to the ingress without a peer entry (`connect.rs:31`), and
  `getpeername` then reports the ingress.
* `RoutedAsRequested` is about streams that are still open, and the target is
  compared for registrations whose connection was not lost before its stream came.
  A registration outlives its connection when the socket is disconnected, or when
  the cancellation of a repeated connect shuts it down in SYN_SENT. If the socket
  then connects to another target from the same port, the endpoints are the same
  and the older registration takes the stream. A stream that is reset while it
  waits in the accept queue keeps its source address; it goes to the registration
  of the socket that has the address by then (`tcp_ingress.rs:102`).
* `Served` ends where a request starts, or the notification is answered with
  EAGAIN. A request may take for ever: a receive without a deadline waits for a
  datagram (`datagram.rs:215-256`). What each handler promises is stated of it
  (`Answered`, `Released`, `TimesOut`).
* `ApplicationForwarded` ends at the host socket's send queue. The relay does not
  wait for that queue (`relay.rs:67`), and a close with unread input resets the
  connection and discards it.
* `TreeGone` and the others about the tree use each PID once. The first loop of
  `supervise` can signal the reaper's PID after the waiting thread has released
  it (`main.rs:143`); the second loop takes care not to (`main.rs:160-161`).

The facts about Linux used here were confirmed by experiment: a socket whose
connection has ended reports an automatically assigned port it has given back, and
connects from another; AF_UNSPEC leaves a port that `bind` reserved with a socket
that has no connection; an explicitly bound port survives a disconnect; `shutdown`
disconnects a socket in SYN_SENT and does nothing to a closed one, except that after
a failed asynchronous connect only AF_UNSPEC helps; `getpeername` fails in SYN_SENT;
a stream reset in the accept queue is accepted with its old source address, also
when another socket uses it; `close` with unread input resets the connection and
discards the send queue.

## Bounds

The bounds are small sets chosen so that the case a property is about happens.

* FakeDns: four domains in a pool of three, so that the pool wraps.
* TcpConnect: two overlapping calls. `tcp_tables` has one socket, two targets and
  a second mutex, so that a pruned entry could be replaced. `tcp_calls` has one
  permit, a blocking socket, a native target and a FakeIP, which at each lookup has
  a domain and is relayed, or has none; one mutex is enough for one socket without
  the tick, since a new one replaces the old in the same entry. `tcp_routes` has two sockets, two
  permits and a single port, so that each socket takes the port over from the
  other, and four calls in all: one socket connects and disconnects, and either
  connects again. Sockets that share a port on addresses of their own are left to the
  proof, and so are longer histories.
* Relay: buffers of one byte, a socket queue of two and three bytes each way
  fill every queue and leave one byte over.
* Engine: three notifications, channel and request set of one, so both are full.
* Supervisor: three processes give a command, a child and an orphan.
* Datagram: one call at a time, single or a batch of up to two, two queries under
  way, the virtual resolver, two others and an address not on port 53. The server
  table holds two, so that it is full when the third resolver is named. Calls of
  several threads that overlap on the socket are left to the proof, which is for
  any number of calls.
* Routing: addresses of two bits, three rules. Nesting, ties and the whole
  address space as a prefix all occur. The trie does the same at each bit.
* Upstream: three tunnel bytes, one header, domain names of length 0 and 3; two
  tasks, two lookup threads and two permits, so that a task meets the limit with
  its own earlier lookup still running, and a host with one and one with two
  addresses; two pipelined DNS queries out of good ones with up to three labels
  and ones cut or broken at each test of the parser, with names of up to four
  bytes accepted so that the limit is met.
* Requests: two files of the caller and one of a stranger; both access methods,
  shared and private tables; in the mode that tries the filter, all values of
  every word it loads that it can tell apart; in the mode that reserves, two
  ports, none, some or all of them free.

Symmetry is used in `tcp_tables` and `tcp_routes`, which have no liveness property.
The refinement in `tcp_tables` is a safety property that treats the permuted calls,
mutexes, registrations and targets alike.

## Environment assumptions

* Supervisor: `/proc` lists the children of a live process, PIDs of the tree are
  not reused within a run, SIGTERM, SIGINT and SIGHUP are one kind.
* Datagram: `bind` returns an endpoint not in use. The last validity check and
  the write to the caller's memory are one step. Payload, control data and
  `MSG_PEEK` are left out. The filter is not WAIT_KILLABLE, so any call may be
  abandoned between two steps.
* Handshake: a line or a byte arrives whole, and the server answers only what it
  waits for. The end of the stream inside the headers of a 200 response counts
  as their end, as in `do_connect`; `TunnelIntact` says so.
* Relay: a peer may stop, end its stream or reset it at any time.
* Direct: a native lookup may never return. The lookup's timer is shorter than
  that of the connect, so the latter ends only the attempts.
* DnsTcp: strings are ASCII and labels contain no dot. A label with a dot would be
  echoed as two, since the name is joined and split again.
* Dispatch: `NOTIF_ID_VALID`, `NOTIF_SEND` and `NOTIF_ADDFD` with `SEND` are each
  atomic, and a withdrawn notification's id is never valid again. A pidfd stays
  with the task it was opened for.
* TcpBind: any bind may fail and leave the socket as it was; one that finds no port
  clears the address, as the comment at `tcp_bind.rs:17` says; with the option set a bind takes no port.

## Fairness

Runs without a liveness property assume none. The others assume that tasks and threads
that can go on are run, as tokio and the kernel's scheduler do, that timers fire,
and:

* TcpConnect: strong fairness for taking a lock, since tokio's mutex is FIFO. A
  worker inside `connect(2)` is not assumed to come back by itself.
* Relay: both peers keep reading. Nothing is assumed of what they send.
* Engine: EINTR, ENOENT and ENOMEM do not recur for ever. Nothing is assumed of
  applications, of relays or of the drain, nor that a request ever reaches its last
  poll.
* Supervisor: the service ends once told to abort (`AbortEnds` of `Engine`). Nothing is
  assumed of the command tree.
* Datagram: tasks are polled and deadlines pass. No datagram needs to arrive.
* Upstream: timers fire, the relay polls, a task in its turn starts its thread or
  fails to, a thread that has sent its result exits. Servers, clients and native
  lookups may stall; `CapacityReturns` has the end of native lookups as premise.
* Requests: each of the three processes and the broker's task goes on when it can.
  Nothing is assumed of the command once it runs, nor of failures or deaths.

## What is proved

TLAPS proves the following for every value of the constants that satisfies the
named assumption of each module.

* **LookupProofs**, FakeDns: types, that the maps are inverse, that a mapping
  changes only by wrap-around, and that fresh answers recover their domain. The
  last needs the distance in the ring between an answer's slot and `next_offset`
  tied to the allocations since.
* **LookupProofs**, Direct: `AnswersOwnTask` says which task a thread's channel
  reaches: one that waits for a lookup, of this very host, and for no other
  thread. That no permit is lost or doubled is a count over tasks and threads;
  `Counting` says how the count changes with one member. `TriesOwnHost` needs
  that a task has no addresses before its lookup answers, and that what
  `resolve_ipv4` collects from a list has the list's members and none twice
  (`UniqueAddresses`).
* **LookupProofs**, Routing: `RulesIInv` says what the trie and the list of domain
  actions are of the rules given: the node at the end of a rule's prefix exists
  and holds the action of the first rule that ends there, and the domain rules
  stand in the order given. A lookup walks down while there are children
  (`Reached`), so that it meets every node on the address's path that has an
  action, and the last one met is the longest prefix. Its induction on the depth
  takes the least counterexample (`WFMin`), as does that of `UniqueAddresses`.
* **TcpConnectProofs**: for the lock table alone, `LocksIInv` adds that a strong
  reference is the one in the table and that no lock stands for two sockets;
  exclusion and independence follow. Then the whole of `TcpConnect` implements
  `ConnectLocks`, one step per action, so both hold of it too. `ConnectsInvariant`
  collects what `IngressProofs` and `TcpTableProofs` start from. A call past
  line 60 of `tcp.rs` owns the lock of its socket (`HoldsIInv`), a worker that can
  still act belongs to a call that waits for it (`WorkersIInv`), and a call that
  found its socket closed is the only one that can connect it to the ingress until
  it returns, so that a committed connection has the target that was committed
  last (`SocketsIInv`).
* **PeerTableProofs**: `PeersIInv` adds why the cleanup spares a relayed socket:
  it was committed after the dump began, or the dump has seen it, or has yet to
  reach it. The theorems take `PeersAssumption` as a hypothesis, and `TcpConnect`
  assumes it of its instance.
* **TcpTableProofs**: `TcpConnect` implements `PeerTable` (`TableIsPeerTable`). The
  mapping derives `link` from the kernel's socket and `busy` from the one call
  between insert and commit; that there is one is `HoldsIInv` with the exclusion,
  that no other step moves a committed socket `SocketsIInv`. What PeerTableProofs
  shows then holds of `connect_tcp`, and `PeerNameRequested` follows: `getpeername`
  reports what was asked for, with interrupts, disconnects and cleanup.
* **IngressProofs**, registrations: `IngressIInv` says whose a registration is,
  its call's until the commit and its relay task's from then on, and that the
  waiting lists hold nothing else and nothing twice. So each registration gives
  its permit back once.
* **IngressProofs**, routes: `RoutedAsRequested` needs three facts of connections,
  which with it make `RoutesIInv`. An open stream in the accept queue is of the
  connection its socket has (`StreamsCurrent`). A registration whose connect has sent
  its SYN has its connection up until it counts as lost, while its call waits
  (`CallsConnected`) and, with the target it was made for, after the commit
  (`RelaysConnected`). When a stream is delivered, the address it came from belongs
  to one socket that is up (`NamesIInv`), so an open stream is of the socket it
  matches, and its target is that of the socket's connection. `SocketMoves` lists
  what a step may do to a socket (go down, be bound, open or end a connection, or
  keep it), `RegMoves` what it may do to a registration; each action is shown to be
  one of them, and each fact is then proved once per move.
* **IngressProofs**, permits: `PermitsIInv` is the count over registrations and
  calls about to register, `PermitsConserved` follows, and the bound on the
  ingress's entries from an injection into the registrations.
* **TrafficProofs**, Datagram: `SourcesIInv` adds that every reply under way, in a
  queue or in a task, names the server that stands for its query's address, and
  that an entry of `forward` is never overwritten. `SourcePreserved` follows.
  `CountsIInv` says at each place of `dispatch` how far the count is behind what
  the kernel moved, and that only a batch reaches the tail; `CountExact` follows.
* **TrafficProofs**, Relay: `RelayIInv` adds what the two last checks before the
  return have established, so that a byte arriving between them changes nothing.
* **LifecycleProofs**, Handshake: `HandshakeIInv` says at each stage of the client
  what is ahead of it, in `BufReader`'s buffer and on the wire together: the rest
  of the reply or of the header lines, as far as the server has sent it, and after
  it the tunnel's bytes from the first one on. A reply is as long as its address
  type and length byte say, so `skip_addr` ends where the tunnel begins; a line is
  taken whole, so the blank one does. `TunnelIntact` follows: what was relayed, the
  buffer and the wire are together the stream.
* **LifecycleProofs**, Supervisor: `TreeIInv` adds that the processes form a tree
  rooted at the reaper (`Rooted`: of any processes that exist, one has its parent
  outside of them). A reaper with no child left then has no descendant left, which
  is what `waitpid` reports before it returns, and the supervisor leaves its loops
  only after collecting the reaper. The command is a child of the reaper from its
  start to its end, so that its status is the one kept.
* **ServingProofs**, Engine: `EngineIInv` adds that no request is left once `run`
  drains, so that none starts a relay any more, and that only `run`'s return
  cancels relays.
* **ServingProofs**, requests: `CallInv` says that while a call is pending its
  thread lives, so that what its number names is its own. A file fetched or
  compared through that number, and found valid after, is then one the thread had
  during the call; a file of a stranger can be fetched only after the caller is
  gone, and the second `valid` stops it. `ActsOnOwnFile` states this for any
  behaviour of the process, any call and any files, `NoDescriptorLeft` for the
  composed system. `BootInv` adds what the two ends of the control socket know of
  each other, `BindInv` what `prepare` knows at each of its places.

These inductive invariants were checked with TLC before they were proved:
`LocksIInv`, `PeersIInv`, `RelayIInv`, `TreeIInv`,
`SourcesIInv`, `CountsIInv`, `RulesIInv`, `HandshakeIInv` and, of `TcpConnect`,
`HoldsIInv`, `WorkersIInv`, `SocketsIInv`, `NamesIInv`, `IngressIInv`,
`PermitsIInv` and `RoutesIInv`. The longest of them, `IngressIInv` and `RulesIInv`,
are conjunctions of named clauses, so that a step of a proof expands only the
clause it is about. Most leaves that need no arithmetic name Zenon: in modules of this
size, preparing a leaf for the SMT solver takes longer than solving it.

The assumptions are facts about the constants: `None` and its like are no members
of the sets they stand beside, sizes and limits are natural
numbers (`PoolAssumption`, `TcpAssumption`, `TableAssumption`, `IngressAssumption`
and so on, each beside the constants it is about).

Only model-checked:

* all liveness properties; the prover does not handle fairness and ENABLED;
* the refinement of `DomainFifo`, whose mapping filters a sequence;
* `RepliesMatch`, which rests on what a parser of byte strings computes, written
  with recursion and sequence operators that the prover does not reason about;
* `FilterExact`, which runs a program of fixed length: the instance TLC checks has
  every value the filter can tell apart, and a proof would only repeat it.

## Not modelled

* Process memory and socket helpers (`memory.rs`, `sockets.rs`): wrappers of one
  system call each, whose failures are error branches of their callers. `path`
  has a loop over pages; it reads memory and decides nothing else.
* `getpeername` on a datagram socket and the layouts of messages (`message.rs`)
  and of the netlink dump (`diagnostics.rs`): conversions of data that no property
  here tells apart.
* The privilege checks and kernel fallbacks of `seccomp::install`: they succeed or
  fail before anything else happens (`Install` of `Bootstrap`).
* The contents of the two resolver files: text in, text out.
* The text of rules and proxies, and the command line: parsed before any of the
  processes exists, the latter by a library.

## Plan

Built so far: the pool, the locks and the peer table, `TcpConnect` composing them,
relay, broker loop, supervisor, datagrams, routing and handshakes; then the direct
connector, DNS over TCP with the message parser, the filter, request dispatch with
the resolver files, the bootstrap, and the reservation in single steps. Left:

1. `Bootstrap` and `Supervisor` in one state space: the start as refinement of the
   one step it is in `Supervisor`;
2. calls of several threads in `Dispatch` at once.
