# zonzon: specifications

TLA+ specifications of zonzon, a DNS server, HTTP proxy and SNI proxy with a control plane that
changes its configuration while it runs. Paths below are relative to `src/packages/`; `dns-handler.ts` and
the other names without a directory are in `core/src/`.

- [1. The system](#1-the-system)
- [2. Modules](#2-modules)
- [3. Runs](#3-runs)
- [4. Fairness](#4-fairness)
- [5. Proofs](#5-proofs)
- [6. What the code does and a reader may not expect](#6-what-the-code-does-and-a-reader-may-not-expect)
- [7. Not modelled](#7-not-modelled)
- [8. Plan](#8-plan)

## 1. The system

One Node.js process. Everything runs on one event loop, so a stretch of code without `await` or callback is
atomic, and every `await`, timer and socket event is a point at which others run. That is the grain of the
modules: **one action is one handler up to its next await**, and events that come from outside (packets,
connections, timers, completed file operations, signals) are actions that may happen in any order.

| component | state it keeps | operations | talks to |
|---|---|---|---|
| **ZonzonDaemon, startEngine** (`cli/src/cli.ts`) | the fields `dnsHandler`, `httpHandler`, `sniProxy`; `isShuttingDown` | start, stop, the control plane's subscriber (stop, then start), shutdown on a signal, forced exit after 10 s | opens and closes the listeners; is called by ConfigService |
| **ConfigService, PessimisticLock** (`control-plane/src/domain/config/config.service.ts`) | `locked`, `queue`; `config`; the configuration file and its temporary files | acquire, release, updateConfig, getConfig, subscribe | file system; calls the daemon's subscriber |
| **ConfigHandler, ControlPlane** (`config.handler.ts`, `index.ts`) | `seenNonces`, `currentPoWWindow`; the HTTP server | authentication, proof of work, GET and PUT, start, stop | calls ConfigService |
| **DnsHandler** (`dns-handler.ts`) | UDP, TCP, TLS and HTTPS listeners; `pendingUpstreamQueries`; `activeTcpConnections`, `activeUpstreamConnections` | queries over each transport, forwarding upstream, start, stop | RateLimiter, DevDnsServer, DNSSEC validator, upstream resolver |
| **DevDnsServer** (`dns-service.ts`) | `cacheMap` | resolve, getFromCache, addToCache; encoding and decoding of packets | firewall |
| **RateLimiter** (`rate-limiter.ts`) | `buckets` | allow, garbageCollect, destroy | used by DnsHandler for UDP and TCP |
| **HttpHandler, HttpProxyService** (`http-handler.ts`, `http-proxy.ts`) | `activeConnections`, `circuitBreakers`, `loopSecret` | routing of a request, proxying, CONNECT tunnels, start, stop | firewall, DNS lookup, target |
| **SniProxyService** (`sni-proxy.ts`) | `activeConnections` | ClientHello, choice of the target, tunnel, start, stop | firewall, DNS lookup, target |
| **firewall, DNSSEC, crypto, schemas, audit** | none that changes (audit keeps counters) | pure functions, verification, key files, validation, logging | used by the others |

What is hard in each, and what makes it correct:

- **ConfigService.** Several PUT requests are in `updateConfig` at once, each with two file operations that may
  fail, in a process that may die. Correct: one at a time and in order; memory never gets ahead of the file;
  at every instant a file that is whole, and that a restart accepts unless sealing has outgrown the schema (section 6); an
  answer to each request; all of it together: an atomic, durable register.
- **ZonzonDaemon.** The subscriber is not awaited by anyone, so reloads overlap with each other and with
  shutdown; `stop()` awaits and then nulls a field that another call may have set. Correct: the daemon ends up
  serving the latest configuration with all listeners, loses no listener, and ends on a signal.
- **DnsHandler, UDP and HTTPS.** For each forwarded query an answer, a socket error and a timer race, and
  `stop()` races all of them; the limit on pending queries is kept by the entries each of them removes.
  Correct: one reply, an exact count, no upstream socket without something that will close it.
- **DnsHandler, TCP and TLS.** Several queries of one connection and their upstream connections share the
  client's socket, and each may end it. Correct: the connection limit counts exactly the connections served,
  no query is answered twice, no client waits for ever, `stop()` ends the upstream connections.
- **DevDnsServer.** Map order is order of use, expiry is lazy, the key is made of names and types. Correct:
  the cache is bounded, evicts what was used longest ago, serves nothing too old, and what it serves is what
  would have been computed.
- **RateLimiter.** Buckets expire, are collected and are evicted, in any order. Correct: the map is bounded, nobody
  gets more than the counting scheme allows, nobody is refused without cause.
- **Tunnels.** The socket to the target is made after an `await`, when the client or the proxy may be gone.
  Correct: both ends go together, in the end or at once, and the set that `stop()` relies on is exact.
- **ConfigHandler.** The set of used nonces is cleared when the clock enters a new window, between a request and its
  repetition, and is empty in a new process. Correct: one proof of work admits one request, for ever.
- **HttpHandler, HttpProxyService.** A request awaits a name resolution and then the target; it ends when the breaker it
  passed may have tripped, half opened, closed or been evicted, and in a minute other than the one its loop token names. A
  name has several addresses and the firewall has rules for names and for addresses. Correct: no connection to
  an address the configuration does not permit, no breaker that stays half open, no request that goes round and round.
- **Wire format.** A packet is read by one walk, has its letters' case drawn by a second, is written by a
  third and has its TTLs rewritten by a fourth, each with its own idea of labels and pointers. Correct: reading ends inside
  the packet; what is forwarded asks the same; what is answered is read back; only the TTLs change.
- **Firewall, host lookup.** Blocks whose length is no multiple of eight; an IPv6 address has many texts, and the code compares
  texts; wildcards below wildcards. Correct: what they are compared with, a definition by the values of addresses and the blocks set aside, and
  one by the closest key.

## 2. Modules

| module | of | its actions and the code |
|---|---|---|
| `ConfigRegister` | the abstract specification | what the control plane promises: Submit, Reject, Apply, Acknowledge, Crash, Restart on a durable and a live value |
| `ConfigService` | `config.service.ts` | AcquireFree, Enqueue: `acquire()`. RejectInvalid, StartWrite, FinishWrite, FailFileOperation, Rename, Commit: `updateConfig` between its awaits. Crash, Restart: the process and `startEngine` |
| `ConfigHandler` | `config.handler.ts` | Arrive: `handleRequest` up to its first await. BodyFails, Deny, Refuse, Admit: `readBodyStrict`, `extractContext`, `verifyProofOfWork`. Settle: the answer after `updateConfig`. Die, NextWindow: process and clock |
| `ZonzonDaemon` | `cli.ts` 159-310 | Notify: a call of the subscriber. Signal: `shutdown()`. PassOver, Close, Drained: `stop()`. Open, BindFails, BindHangs: `start()`. Turn: the end of a call. ControlPlaneClosed, ForceExit: the ends of `shutdown()` |
| `ControlPlane` | the three above in one process | Handle, Submit, Write, GiveUp: a request and its update. GoLive: `Commit`, the answer and `Notify` at once. Work, Drained, Signal, Closed, ForceExit: the daemon, whose end is theirs |
| `RateLimiter` | `rate-limiter.ts` | AllowFresh, AllowCounted: `allow()`; a refusal changes nothing. GarbageCollect, Destroy |
| `DnsForwarder` | `dns-handler.ts`: UDP, HTTPS | SettleLocally, DropAtLimit, ForwardUdp, ForwardDoh: a query. Answer, SocketError, Timeout: the three handlers of an upstream socket. Stop, StopDoh: `stop()` before and after it waits for the TCP and TLS listeners |
| `TcpListener` | `dns-handler.ts`: TCP, TLS | Admit, Surplus, SurplusGone: a connection within, over the limit. AnswerLocally, EndAfter, Malformed, Forward: a query. FwdAnswers, FwdEnds, FwdThrows, FwdFails, FwdTimeout: the handlers of an upstream connection. Closes, Stop, StopDot |
| `HostTable` | `findHostConfig`, `resolveHost`, the handler's own lookup | operators: the exact key, the wildcard of the longest suffix, and the closest key by definition |
| `DnsResolver` | `dns-service.ts` 405-740 | ResolveMalformed, ResolveHit, ResolveStored, ResolveUnstored: the outcomes of `resolve()` as far as the cache can tell them apart |
| `PacketReader` | `readDomainName`, `parseQuestion`, `extractQuestions` | one action for each turn of the loop: PastEnd, Root, BadPointer, Pointer, BadLabel, Label |
| `WireFormat` | the rest of packets in `dns-service.ts` and `dns-handler.ts` | Forward: the query with its ID, OPT record and drawn case, or an exception where the record has no room. RespondTo: the response, whole, cut or an exception. Operators: the walks over packets, the rewriting of TTLs |
| `Firewall` | the firewall engine | operators: `EvaluateIp`, `EvaluateDomain`, `EvaluateOutbound` and what they use, on addresses in their texts; `Permitted`, by their values, and `Overlooked`, where the texts mislead |
| `HttpProxy` | `http-handler.ts`, `http-proxy.ts` | Receive, Refuse, Redirect, Enter: the way of a request to its target. Headers, Fail: the end of `doHttpProxy`. Tick: the clock |
| `Tunnel` | `sni-proxy.ts`, `handleConnect` in `http-handler.ts` | Accept, Hello, HelloTimeout, RefuseClient, Dial: the way to the target. Connected, UpstreamCloses, UpstreamIdle, ClientCloses: the tunnel. Stop, Stopped |
| `...Proofs` | | the theorems about these modules (section 5) |
| `MC...` | | the instance of each that TLC checks |

A module's variables have the names of the fields they model. A variable marked *history* is no field of the
program: it records what a property has to compare with, and no guard reads it.

In each module some operators are variants of the action or operator that follows them (`ReleaseNewest` before
`Release`, `DialUntracked` before `Dial`). They are the bugs the properties were tested on: with the
variant in the place of the definition TLC finds the property violated. They are no part of any specification.

Abstractions shared by all modules:

- A name, a configuration, a packet is a value with the few attributes that decide where control goes.
- A socket is one value: not yet, open, ended, closed. TCP's own states and the bytes in it are left out.
- The rate limiter's verdict, the firewall's, a DNSSEC verdict, a name's resolution are nondeterministic in the modules
  that only react to them.
- An exception out of an event handler is recorded in `faulted`; the program then shuts down (`cli.ts` 315),
  which ZonzonDaemon models as a signal.

### How the parts compose

`ControlPlane` instantiates `ConfigHandler`, `ConfigService` and `ZonzonDaemon` over one set of variables. An admitted PUT is
the call of `updateConfig`; the commit of the update, its answer and the call of the subscriber are one step; nobody awaits the
subscriber, which is why the daemon's reloads may overlap although the service's updates do not; and the end of the daemon's
process is a crash of the service. `PartsAreImplemented` proves that the composition is no more than its parts do, so that what is
proved of each part holds in it (`ServiceKept`, `RegisterIsImplemented`).

`HttpProxy` extends `HostTable` and `Firewall`, `DnsResolver` extends `HostTable`, `WireFormat` extends `PacketReader`. `DnsResolver`
sees a packet as questions and records; `WireFormat` is what justifies it.

`ZonzonDaemon` sees a listener as one socket with a port; `DnsForwarder`, `TcpListener` and `Tunnel` see one listener
from its start to the end of its `stop()`. The daemon's `Drained` is the end of their `Stop...`: `StopEnds` (tunnels)
shows that it comes for the proxies whatever their connections do.

## 3. Runs

| run | instance | what it shows |
|---|---|---|
| `config_service` | 4 requests (valid; valid with a secret in the clear; valid with a secret too long once sealed; invalid), 2 crashes, ports from the command line | lock, file and memory stay consistent (`ExactlyOneOwner`, `FirstComeFirstServed`, `LiveIsDurable`), every update settles, and the service implements `ConfigRegister` |
| `daemon_serial` | 3 updates that do not overlap, the DNS port moves, binds may fail or hang, connections may stay, a signal at any time | of reloads one at a time: the daemon ends up serving the latest configuration and loses no listener; each reload ends, unless a connection or a UDP bind nobody settles holds it |
| `daemon_reload_kills` | 2 updates, fixed ports, nobody else on them | **violation**: two accepted updates in a row end the process |
| `control_plane` | 4 requests (an update; the same again; another that found the same nonce in the next window; one not authentic), 2 windows, fixed ports, binds and file operations may fail, a signal at any time | a daemon at rest serves what the configuration file holds, a proof of work admits one request, a signal ends the process |
| `rate_limiter` | 3 addresses for 2 buckets, quota 2, window 2 of 5 ticks | the map is bounded; no client that kept its bucket gets more than twice its quota through; no refusal without cause |
| `forwarder` | 3 UDP queries for 2 places, 1 HTTPS query, 3 tracking numbers | one reply at most, the limit holds, entries are exact, every upstream socket has a deadline |
| `forwarder_halt` | the same | **violation**: `stop()` leaves upstream sockets nobody will close |
| `resolver` | cache of 2, age limit 2, 10 queries, 3 s; an exact key and two wildcards, one below the other | bounded, transparent, in order of use, nothing too old, answered by the closest host |
| `wire_format` | queries of up to two questions: 13 kinds of names, whole, compressed, looping, cut and malformed, 4 kinds of ends, and a query too long for an OPT record; 4 lists of answers, a buffer of 52 bytes | reading ends, the forwarded query asks the same, the response is read back, only its TTLs are rewritten |
| `http_proxy` | 4 requests (two to a configured upstream, one whose URL names a host with an overlooked IPv6 address, one redirected), 1 place for a breaker, threshold 2, 2 minutes; addresses of every family, permitted and not, and the proxy's own | dials are permitted or to an address that is overlooked, a half-open breaker is under trial, loops end; an ASSUME evaluates the verdicts on IPv6 addresses of the kinds that matter, each in several texts |
| `tunnel` | 2 TLS clients, 1 CONNECT client | `activeConnections` is exact, both ends go together, `stop()` ends |
| `tcp_listener` | 3 connections for 2 places, 3 queries, 2 of them pipelined | the limit is exact, one answer at most, no client is left waiting for a silent upstream resolver, `stop()` ends the upstream connections |

Every invariant of the passing runs is also proved for every value of the constants (section 5), and some are
proved and have no run: the types of `ConfigService`, `Tunnel`, `TcpListener`, `DnsForwarder`, `ZonzonDaemon` and `PacketReader`,
`Restartable` and `UpdatesAreSealed` of `ConfigService`, and what the verdicts overlook.

### Bounds, and why they are enough

- *Requests, connections, queries.* The invariants relate two of them at most (an owner and another, an entry and a
  second query under the same number), or one and a limit. Each instance has one more than the limit, and at least three where
  a queue's order matters, so that one waits behind another that waits.
- *MaxCrashes, MaxSalts.* In `config_service` two: a crash, a restart and a crash of what was restarted. In `control_plane` one:
  the process ends and stays ended, since its properties are about one life of the daemon; a proof of work that is sent to a second
  process is in the theorem `WorkIsSpentOnce`. What the invariants say of more requests, connections, queries, updates and crashes
  than these is proved (section 5); it is the liveness properties that rest on the bounds.
- *MaxTime, MaxWindow.* Time is discrete. Five ticks hold two windows of the limiter and the ends of both; three seconds let an
  entry of age limit 2 be used, expire and be stored again; two windows of the control plane, or two minutes of the proxy, are a turn.
- *Threshold, Reset, Idle, Window* of the proxy keep the order of the code's values (10 s, 30 s, 60 s) as far as it matters: an
  idle timer ends within a minute, a breaker may be tried again before an older request has ended. `LoopsEnd` has the first as its premise:
  the schema allows an idle timer of 600 s (`schema.ts` 105), and with one longer than the minute a loop may outlive its tokens.
- *Rounds.* A loop that is not recognised would go round for ever; three rounds show that it is, at the third. The theorems hold for
  any number from three.
- *PortsGiven* is true in `config_service` and `control_plane`: ports given on the command line override those of the file at each start. The
  theorems are for both values.
- *Capacity.* 52 bytes stand for 4096: responses below it, beyond it in the data of the last answer (cut) and before (the encoder throws);
  queries that leave room for the OPT record and one that does not.
- *HistoryCap.* The limiter's history counts to 5, for the last tick, the last two and so on; the properties compare with a quota of 2
  and with twice that.
- *Ports.* `daemon_serial` moves the DNS port, where a listener left behind would go unnoticed; `daemon_reload_kills` and `control_plane`
  keep every port, where overlapping reloads meet. What holds of overlaps that also move the DNS port is not checked (section 6).
- *Updates = 3.* Overlap needs two; the third shows a reload whose predecessor was itself overtaken.
- *Symmetry* is used in `rate_limiter` and `http_proxy`: addresses, or the two requests that ask for the same host, are interchangeable
  there, and neither run has a liveness property.
- Deadlock is not checked: every model ends where the inputs are used up, and the system itself may stop (`exit`,
  `down`).

## 4. Fairness

Weak fairness, and only on what the event loop or a timer does by itself:

- `ConfigService`: the steps of an update that was begun. A file operation either completes or fails. Sending a
  request, killing and restarting the daemon are never obliged.
- `ZonzonDaemon`: each call's own steps, and the 10 s timer of `shutdown()`. That connections end so that a listener
  drains depends on their other side and is not assumed: `EveryReloadEnds` says that a reload ends or the process does, unless it
  awaits connections for ever or its UDP bind is one that nothing settles. What it excludes is a call that waits for a listener
  already closed, or for a step nobody takes.
- `ControlPlane`: the same two: `ShutdownEnds` holds with connections that stay, binds that hang and requests that are never answered.
- `DnsForwarder`: the timers, and the shutdown that follows an uncaught exception. The upstream resolver owes nothing;
  `HaltedSocketsClose` fails although the timers are fair.
- `TcpListener`: the idle timer of the client's socket. A connection in the model carries finitely many queries, so it falls
  silent and the timer does fire.
- `Tunnel`: name resolutions end, a server without connections closes, and the idle timer of
  a socket to the target fires once the client is gone, since nothing moves on it any more.

`RateLimiter`, `DnsResolver` and `HttpProxy` are about safety: nothing in them must eventually happen. That a packet is read in finitely
many steps is the action property `EveryStepAdvances`: each step lowers (questions left, pointers left, bytes left) in
their lexicographic order, so no fairness is needed.

## 5. Proofs

`ConfigServiceProofs` proves, for any set of requests, any bodies, any number of crashes, and with or without ports from the command line, from the named assumptions
of `ConfigService` (each body is a configuration with its request's name, `Boot` is no request, `Torn` and `Down` are
no configurations):

| theorem | statement |
|---|---|
| `TypeCorrect` | `Spec => []TypeOK` |
| `Invariance` | `Spec => []Inv`, the inductive invariant |
| `MutualExclusion` | `Spec => []ExactlyOneOwner` |
| `NoOvertaking` | `Spec => []FirstComeFirstServed` |
| `LiveDurable` | `Spec => []LiveIsDurable` |
| `AlwaysRestartable` | `Spec => []Restartable`: the file a process that dies would leave is whole, and the schema accepts it unless it holds a secret that outgrew the schema when it was sealed |
| `SecretsSealed` | `Spec => []UpdatesAreSealed` |
| `Refinement` | `Spec => Register!Spec`, the property `ImplementsRegister` |

`Inv` is `TypeOK /\ LockInv /\ DataInv`.

- `LockInv` strengthens mutual exclusion and order. `release()` makes the head of the queue the owner and leaves the
  flag set, so exclusion is only kept if whoever is queued waits and whoever waits is queued
  (`QueueHoldsTheWaiting`); and order is only kept if the queue is the tail of the arrivals, all before it served
  (`QueueIsTailOfArrivals`, `ServedDoNotWait`). A free lock has an empty queue, and a dead process has neither
  (`DeadProcessIsEmpty`).
- `DataInv` strengthens durability: between the rename and its callback the file holds exactly what that request
  stored, and nothing the schema refuses ever reaches the file operations. It needs `LockInv`: a second update in the same
  window would break it. What the schema accepted may still be refused at
  the next start, since sealing comes after validation and lengthens secrets: `Restartable`, a part of `DataInv`, says that a file the schema
  refuses is what a request comes to whose secret has outgrown it.
- Refinement maps the file to `durable`, the field to `live`, and "renamed" to `applied`. The rename is the step
  that takes effect; every other file operation is a stutter. That only one update is ever between effect and
  acknowledgement is `ExactlyOneOwner`, and that its value is still the durable one is `DataInv`.

The proofs have one lemma for each move of the lock, one for each half of the invariant, and one step for each action.

The proofs about the listeners and tunnels have the same layout: an inductive invariant (`Inv`, `TunnelInv`), one lemma for each kind of
step, a lemma (`NextInv`, `TunnelNextInv`) with one step for each action, and theorems that say which property follows.

`TcpListenerProofs`, for any number of connections and queries and any limit (`TypeCorrect`, `LimitExact`, `OneReply`,
`UpstreamsEnd`). Added are that the set is finite, that no TCP connection is usable after `stop()` (`NoTcpAfterStop`), which is
why a query that arrives later came by TLS, and that a query not yet arrived or still being forwarded has no answer
(`UnansweredYet`), which is why its upstream connection, the only one that may answer it, gives its first.

`DnsHandlerProofs` is about the two parts of `DnsHandler` that count.

- `DnsForwarder`, for any queries, tracking numbers and limit (`TypeCorrect`, `OneReply`, `Bounded`, `PendingExact`, `Deadlines`). Added are that an
  armed timer belongs to an open socket (`ArmedIsOpen`: a timer that survived an answer would answer again), that an entry is that of a
  query in progress under its own number (`EntriesAreOpen`) and, unless numbers collided, that each query in progress has its entry
  (`OpenHaveEntries`). The two make a bijection between entries and sockets (`EntriesCountSockets`), so that the limit on the one is a
  limit on the other.
- `RateLimiter`, for any addresses, quota, window and size of the map (`LimiterTypeCorrect`, `QuotaIsKept`, `RefusalsAreJustified`). Its history says,
  for each age, how many requests got through since then. A bucket that was not evicted counts at least what got through since it was
  opened, and reaching back further there is at most one more quota (`CountIsEnough`): the fixed window lets twice the quota through and
  never more. It counts no more than got through (`CountIsSpent`), so a refusal was earned. Both rest on nothing getting
  through between the end of a bucket and a new one (`QuietAfterEnd`), and on a bucket that still counts being in the map, whatever was collected or
  inserted (`OpenIsTracked`). The assumption on the history is that it can count beyond twice the quota.

`ProxyProofs` has three parts.

- `HttpProxy`, for any requests, hosts, policy, answers of the resolver and limits (`ProxyTypeCorrect`,
  `ProxyDialsArePermitted`, `ProxyHalfOpenIsUnderTrial`, `ProxyLoopsEnd`). `ProxyInv` adds two facts. A breaker that is not closed
  has at least as many failures as the threshold (`BreakersCount`): a trial that fails in `HALF_OPEN` opens the breaker again only
  because the failures that opened it are still counted. And a hop back to the proxy begins before its sender's
  idle timer ends (`HopsAreTimely`). If that is within the minute, the token of the second time round is still known at the third; `LoopsEnd`
  has this as its premise, the invariant is without it.
- `Firewall`, for any address in any text, and any policy. For an IPv4 address, in lists that write theirs as such, what the
  code computes with comparisons of octets is membership in the nine blocks set aside, computed with `MatchCidr`, and the two verdicts pass exactly what is permitted
  (`V4VerdictsExact`: an argument octet by octet, a block of at most eight bits and a longer one each having a lemma). For IPv6 what is permitted is
  defined by the value of an address, its eight groups, and the blocks' bounds as numbers, while the code compares texts: what passes
  both verdicts is permitted or `Overlooked` (`VerdictsPermit`), and of what is overlooked, what is set aside and `Unrecognised` does pass
  the outbound verdict (`UnrecognisedPass`): the exception is the code's and not the proof's. `ProxyDialsArePermitted` has the same exception.
- `Tunnel`, for any number of connections of both kinds (`TunnelTypeCorrect`, `ActiveExact`, `NoClientHangs`,
  `StopLeavesLittle`). The properties support each other: `stop()` destroys what is in `activeConnections`, so it leaves no
  socket open only because the set is exact. Two facts are added: a handler that has not chosen its target has no socket to it
  (`NoTargetYet`), so a target that is gone was a target of this client; and what still resolves a name in a stopped proxy
  did so when it was stopped (`ResolvingIsLate`), since a ClientHello is only ever completed on an open socket. The assumption is that no
  connection is of both kinds.

`WireFormatProofs` is about the bytes of packets, for any packets, any records and any size of the buffer.

- Reading (`ReaderInvariant`, `ReaderStaysInside`, `ReadingAdvances`, of `PacketReader`): the place behind the first
  pointer is inside the packet, and while no pointer was followed, so is the place that is read.
- Forwarding (`ForwardAsksTheSame`). Two readers are compared that read at different times, so the invariant keeps the run of the first:
  the reader of the query is on a `Trace`, a function from step numbers to its states, and the reader of the forwarded packet stands where
  the trace is after as many steps, up to case (`Like`). That each turn keeps this (`FollowTurn`) needs that the two
  packets are `Alike`: the case drawn changes no length, no pointer and no type. The reader goes where pointers lead and the drawing walk does not, so
  what has to be known of the walk is where it is while the reader is before its first pointer (`Aligned`, `AlignedTurn`), and that the bytes it
  goes over are those of labels (`TypeIsKept`, `UndrawnByte`). A pointer may still lead into the text of a label, which is read as lengths
  there: the hypothesis `TextIsNoPointer`, which UTF-8 text meets, is needed for that alone.
- Reading back (`ResponseInvariant`, `ResponseRepeatsQuestions`). `FlattenJoins` says what a concatenation holds at which offset, and
  `ShapeExists` where each question and each answer of a response begins. A cut buffer cuts no question (`ShapeIsLaid`). The
  invariant (`ResponseInv`) is that the reader stands at a label of a name as it was written and has read the labels before it
  (`QuestionFollows`, with one lemma for a label and one for the end of a name).
- Rewriting (`CacheChangesOnlyTtls`). `Skipped` passes each question as it was written (`QuestionSkipped`), so the offsets found are those where the
  answers' TTLs are (`TtlsFound`), each byte belongs to the TTL of one answer at most (`OwnTtl`), and both packets agree before the answers
  (`BytesBefore`) and within them (`BytesWithin`).

The model's walks are recursive functions. The induction theorems of the library cannot be instantiated, so the proofs use two facts in their
place. A function that satisfies the equation exists, since there are longest approximations of it (`ChainExists`, for functions that look
back; `TableExists`, for walks that look ahead), so the one that `CHOOSE` gives satisfies it. And what holds at each number if it holds at all before has no
least counterexample (`NoLeast`).

`DnsServiceProofs` is about what `DevDnsServer` answers.

- `HostTable`: `ClosestIsFound`, that `FindHost` returns the entry of a closest key, for every table and name: the least suffix index that has a
  wildcard is that of the longest.
- `DnsResolver`, for any hosts, queries, denied names, ages and size of the cache (`CacheTypeCorrect`, `CacheTransparent`, `ClosestHostAnswers`,
  `HitsAreFresh`, `EvictionIsByUse`). `CacheInv` says of each entry that it is the response that would be computed for some query with its key
  (`EntriesAreComputed`). That makes hits right only because the questions decide the response up to its ID and TTL
  (`QuestionsDecide`) and the key, names as they are spelt and types, decides the questions (`KeyIdentifies`). The order of use is kept as the pairs of keys of which the second was used
  after the last use of the first: a hit moves its key to the end, so the map's order agrees with it, and the first key, which eviction
  takes, was used longest ago.

`ZonzonDaemonProofs`, for any number of updates, any ports, and binds that fail or hang at any time.

- Reloads that come one at a time (`SerialSpec`: `CalmInvariant`, `ListenersAreKept`, `LatestIsServed`). `BaseInv` holds however calls overlap: who waits is
  stopping something, and updates are accepted in order. `Calm` adds that reloads take turns (`InTurn`), that what listens or drains is what its field
  holds (`Held`), that fields which `stop()` is through with and `start()` has ahead of it are null (`Cleared`), and that those `start()` is
  through with hold a listener of that call (`Kept`).
- Reloads that overlap (`OverlapInvariant`, `OverlapServesLatest`). `Calm` is not kept then. What is kept, if no update moves the DNS port
  (`DnsPortIsFixed`), is that the daemon is calm or doomed. `Doomed`: a bind has failed or hangs, or two reloads have yet to bind the DNS port, or one that
  will stop no DNS listener has yet to bind it while one is up. A doomed daemon stays so until a bind fails and the process ends, or for ever with a bind that hangs, so a daemon at rest is
  calm, and serves what was accepted last. The first step of an update, which finds and closes the DNS listener, runs before anybody
  else's (`NewcomersAlone`), since `notify` runs on to its first await. The hypothesis is what the proof needs and the code does not ensure: with
  a DNS port that moves, two overlapping reloads can bind both and neither fails (section 6).

`ControlPlaneProofs` has three parts.

- `HandlerInvariant` and `WorkIsSpentOnce`, of `ConfigHandler` with any number of windows and processes: what was admitted was mined for a
  window and a process of the past or for this one, and, of this one, has its nonce in the set. Clearing the set in a new window is harmless because
  the windows in the proofs of work are bound to move on with the clock.
- `LiveInvariant`, `PartsAreImplemented`: each step of the composition is one step, or a stutter, of each part. The daemon has as many reloads as there
  are requests, so the proof needs that each request goes live once at most, hence that what waits for the lock has not gone live
  (`LiveInv`), and counts. The theorems about the parts are instantiated here: `NoncesAdmitOnce`, `ServiceKept`, and `RegisterIsImplemented`, that
  the whole daemon, ended by a signal or by its own failed bind, implements `ConfigRegister`.
- `FileInvariant`, `FileIsServed`: across the parts, the file holds what went live last, except between a rename and its callback (`FileIsLive`), the updates
  that went live are those whose reloads were begun (`ReloadsAreLive`), and an update under way belongs to a request that is open
  (`UpdatesAreOpen`). With what `OverlapInvariant` says of the daemon, a daemon at rest serves its file; the hypothesis is `DnsPortIsFixed` again.

Only model-checked: the liveness properties (`EveryUpdateSettles`, `EveryReloadEnds`, `ShutdownEnds`, `ClientGoneTargetGone`, `StopEnds`,
`EveryQueryEnds`), since the prover treats neither fairness nor ENABLED. Of the other temporal properties `ImplementsRegister` and
`EveryStepAdvances` are proved.

## 6. What the code does and a reader may not expect

Shown by a violation run:

1. **Two updates in a row end the daemon** (`cli.ts` 279). The subscriber is called while the lock is held but starts
   its `stop()` and `start()` without being awaited. A second update's `stop()` finds the fields null, its `start()`
   meets the ports the first one bound again, and the catch block ends the process with status 1. With ports that move,
   the overlap can also leave a listener up that no field knows.
2. **`stop()` leaves upstream UDP sockets open** (`dns-handler.ts` 86; "Sockets closed.", `cli.ts` 227): it
   clears the timers that would have closed them.

Met while reading, and part of the models where they touch their state. Control plane and command line:

- The schema limits a header value to 8192 characters (`schema.ts` 5, 48) before it is sealed, and sealing more than doubles it
  (`crypto.ts` 52-64): an update with a header secret beyond about 4065 bytes is accepted, stored and served, and the next start refuses the file
  (`cli.ts` 243-249). `Restartable` names these as its exception (`Outgrown`).
- `--port` and `--cp-port` override the file at a start (`cli.ts` 234-241) and not at an update, so that the first update moves the daemon to the ports of
  its file. Of `DnsPortIsFixed` this is a case: the port on the command line has to be the file's.
- Header secrets of the configuration the daemon was booted with stay in the clear in memory until the first update
  (`config.service.ts` 35; `README.md` 11 calls secrets encrypted in memory). `UpdatesAreSealed` excludes them.
- The 413 for a body that is too long never reaches the client, whose connection is destroyed first. A clock that is set back over
  the end of a window would make the handler forget the nonces of the window it returns to; the model's clock is not set back.
- `config set` of the command line reads and rewrites the file in place; an update of the daemon in between is lost.

DNS:

- The limiter's window is fixed, not sliding (`rate-limiter.ts` 51; `README.md` 13): twice the quota can
  pass around its end. `AtMostTwiceTheQuota` shows that it is never more for a client whose bucket was not evicted.
- A response from the cache has the ID and flags of the query it was stored for (`dns-service.ts` 648); a test of the ID
  (`dns-wireformat.test.ts` 520) runs with the cache off.
- NXDOMAIN is cached (`dns-service.ts` 694), although a test is named as if it were not (`cache-layer.test.ts` 181); a PTR record
  can be configured and is never sent (`dns-service.ts` 543, 340). The TTL is not counted down on a hit.
- With several questions all answers are owned by the first name. A local response lower-cases the question; a forwarded one has the
  spelling the proxy drew.
- A name with a dot inside a label, or with bytes that are no UTF-8, gets a response whose question is another name, or malformed
  (`Plain` in `WireFormat` excludes them). A response of more than 4096 bytes is cut without the TC flag, or its encoder throws.
- A length byte of 64 to 191 ends a name for the reader and is a length for the walk that draws the case. A pointer into the text of a label
  can find bytes there that are a pointer to the reader and whose second is a letter to that walk: the forwarded query then asks
  something else (`TextIsNoPointer` excludes it; no UTF-8 text does it).
- A query to be forwarded with no additional record and more than 4085 bytes has no room for the OPT record, and the encoder throws
  (`dns-service.ts` 258): over UDP the query is dropped, over TCP its connection ended.
- A UDP bind error other than EACCES and EADDRINUSE settles nothing (`dns-handler.ts` 150-154): `start()` never ends, nor does the reload
  (`BindHangs`). The daemon then has no listeners until the next update.
- On a pipelined TCP connection the first forwarded answer ends the socket, so that the others are lost
  (`EveryQueryEnds` holds because the connection closes). If a write after that end destroys the socket, the queries left in the same data event
  are processed all the same and may open upstream connections; `Arrives` stops at the destroyed socket. A TCP connection over the limit
  has no error handler.
- Between `destroy()` and the close event (`dns-handler.ts` 765, 771, 782) `activeTcpConnections` holds a socket that is dead. `Destroyed` makes
  it one step, and so do the tunnels (`TearDown`), so the sets are exact up to that delay.
- An upstream answer the parser throws on is an uncaught exception and shuts the daemon down.

HTTP and tunnels:

- The exact lookup of a host compares the header as it is spelt (`RoutedHost`). A wildcard of hosts covers the name
  under its asterisk, one of the firewall does not. A wildcard stands for any number of labels, although a test is named as if for one
  (`wildcard-matching.test.ts` 181).
- An IPv6 address in brackets is a name in the URL of a forward proxy request or in the target of a configuration, and refused. In a Host header
  the brackets are taken off (`http-handler.ts` 438-442), and the address is dialled if the verdicts let it (`http-handler.ts` 561): `AsHost`.
- The firewall compares the texts of IPv6 addresses (`firewall.ts` 32-60). `0:0:0:0:0:0:0:1`, `::127.0.0.1`, and of the blocks of which
  it tests a prefix what is outside (`fe90::`, `fc12::`, and multicast, `ff02::`) pass as addresses on the Internet, while `README.md` 10 says that
  loopback and link-local addresses are blocked; `::ffff:x:a.b.c.d` is read as an IPv4 address it does not hold; and the blocklist knows an
  address in the text it lists. `Overlooked` names these, `DialsArePermitted` and the theorems have them as their exception. `dns.lookup` gives addresses
  in the usual text, so other texts come from the configuration or a Host header.
- The loop token is known for a minute, and the idle timer may be up to 600 s (`schema.ts` 105): with one above 60 s a request can come back after its
  token's minute (`LoopsEnd` has the opposite as its premise).
- A path that begins with `//host` changes the host of the target URL, which the breaker's key and the Host header are made of
  (`http-handler.ts` 502-503, 601), and not the address that is dialled; the model leaves it out.
- A failure is dated with the beginning of its request, so with a reset of 10 s and an idle timer of 30 s a breaker opened
  by silence is open for nobody. A half-open breaker admits any number of requests, not one. Failures are not forgotten by successes of a
  closed breaker, and those the client caused count as the target's.
- A response that breaks off in the middle of its body is never ended.
- A loop that leads through another zonzon is not recognised: each has a secret of its own.
- A tunnel whose name was being resolved when its proxy was stopped still dials its target
  (`sni-proxy.ts` 188): `StopLeavesOnlyLateDials` says that there is no other exception. Bytes between the ClientHello and the
  connection to the target are dropped (`sni-proxy.ts` 106).
- The client of a CONNECT has no error handler while its target is resolved; an error then is an uncaught exception.

## 7. Not modelled

- *Header rewriting, streaming of bodies, the data of each record type*: input and output, or bytes that no control depends on.
- *DNSSEC validation, AES-GCM, master key, key derivation, the hash of a proof of work*: cryptography. Their verdicts are inputs of
  the models.
- *Schemas and types*: declarative; "valid" is an attribute of a configuration.
- *Audit log and metrics*: nothing depends on them.
- *Zones of IPv6 addresses* (`%eth0`).
- *The command line's `init` and `config`*: one-shot programs beside the daemon.
- *A second zonzon in a loop*: `Self` is the address and port of this proxy.
- *Power failure*: `updateConfig` does not sync the file. Crash is the death of the process, which files survive.

## 8. Plan

What is left, in this order:

1. `DnsHandler` as a whole: `DnsForwarder`, `RateLimiter` and `DnsResolver` over one query.
2. Overlapping reloads that move the DNS port: what `OverlapInv` has to say of a listener that no field knows.
3. `ConfigFileSharing`: `config set` against the daemon's rename, on the file of `ConfigService`.
4. Liveness of `HttpProxy`: each request is answered, with fair timers.
