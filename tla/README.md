# A verification development for dax-kiro-proxy

dax-kiro-proxy stands between a client that speaks the Anthropic Messages API and
Kiro processes that speak ACP, the agent client protocol, over their standard
streams.  A client request becomes a prompt of an ACP session; the tools the client
offers appear to Kiro as an MCP server, whose calls the proxy suspends, hands to the
client as `tool_use` blocks and answers with the results of the client's next
request.  The difficult part of the program is not what a message looks like but who
owns what, and for how long: a suspended prompt outlives the HTTP request that began
it, sessions share processes, processes die on their own, clients cancel, repeat and
rewrite, and every one of these must end in a joined goroutine and a reaped process.

These modules model that part, and what surrounds it: the relay's suspended calls and
the socket they arrive on, the pool of processes with the client and the router of each,
the session driver with its turns, the reconciliation of histories, the records of idle
sessions on disk, the manager of many sessions, the HTTP gateway, the launch that owns
them all, and the installation the program runs from.  File names below are relative to
the repository, or to this directory.

## 1. Inventory

| Component | State | Operations | Concurrency and failure |
|---|---|---|---|
| Relay broker, `internal/relay/broker.go` | pending calls, queue, sealed batch, reservations, identities seen, `err`, a wake-up token | BeginTurn, EndTurn, Call, Seal, Delivered, Resolve, Abandon, Close | one goroutine per call, a timer per call, the round that waits, results from another HTTP request |
| ACP process pool, `internal/acppool/pool.go` | groups with their leases, busy counts and idle stamps, `closed`, `cleanupErr` | Acquire, AcquirePrepared, SetIdle, ReleaseIdle, Lease.Close, Prune, Close, the event router | launches and cleanups run without the lock; processes die; slots are recycled |
| Session driver, `internal/session/{driver,turn,setup,continuation*,interruption,cleanup}.go` | state, client, relay, current turn, outcome, snapshot, gates | Start, prepare, resume, Next, Finish, Cancel, RefreshModels, Close, CloseIdle | handlers, the prompt, two watches, Close and eviction settle the same turn |
| Conversation history, `internal/history` | the committed snapshot | Plan, Complete, Pending, Valid | truncated, rewritten and repeated histories |
| Session manager, `internal/session/manager.go` | map of bindings with users, gate and touched stamp | Start, Models, Prune, Close, Finish of a managed turn | evicts under the lock, closes after it |
| Session persistence, `internal/session/persistence.go`, `internal/sessionstore`, over `internal/privatefs` | a history key, one record per slot under a lock | New, claim, read, invalidate, save | processes that share a directory; a crash or a power loss between invalidation, prompt and save |
| ACP client, `internal/acp` | pending requests, event and write queues, retirement | Call, Notify, reader, writer, Close | late answers, deadlines, queue limits, a process that says anything |
| Relay socket and attachment, `internal/relay/{socket,attachment*,control}.go`, `internal/relay/mcp` | listeners, connections, the attached peer; in the child, the calls under way | accept, attach, bind, serve, Close; initialize, call, cancel | the child attaches before, while or after its group is known |
| HTTP gateway, `internal/gateway` | connections, admission, delivery registry | serve, stream, hooks, shutdown | a response is complete before its turn is settled; shutdown races with handlers |
| Model catalog, `internal/catalog`, `launcher/model_state.go` | cached catalog, one flight, last model | Get, refresh, Close | single flight; Close while a refresh runs |
| Launcher, `internal/launcher/{startup,runtime}.go` | the owners of a launch, in order | start, RunClient, release | any phase fails; client, caller or listener ends the run |
| Installation, `internal/installation` | manager directory, lock, generations, two pointers, public link | install, replace, uninstall, lease | several processes, each killed between any two calls |
| Schema validation, `internal/schemacheck`, `schemawire`, `toolregistry` | worker processes | validate, Close | worker reuse, timeouts |
| Web search, `internal/websearch` | a budget shared by processes | claim, collect | processes race for the last slot |
| Kiro features and status | effort, usage display, turn records | negotiate, refresh, push, drain | a refresh under way at the end of a launch |
| Child processes, `internal/childproc` | process groups | run, attach, signal | operating system behaviour |
| Wire formats | none | parse, validate, project | none |

How they interact: the gateway calls `Manager.Start`, which picks the binding of the
conversation and calls `Driver.Start`.  The driver plans the request against its
snapshot (history), sets up a relay and a leased session of the pool when it cannot
reuse the ones it has, and runs the prompt.  Kiro's tool calls arrive at the broker
through the relay socket; a round of the turn seals them into a batch, the gateway
delivers it and confirms with Finish.  The next request resolves the batch and gets a
round of the same turn.  A lost process ends leases, a lost relay ends its turn, and
either way the driver retires both.  The launcher starts the owners in an order in which
each finds what it needs, and releases them in the opposite one.

What makes each part correct, in short: no call is lost, answered twice or answered
without having been delivered; at most one prompt runs per session and every process
and relay has an owner that will close it; a delta is sent only to the session that
holds what it extends; a busy process or session is never taken for housekeeping;
Close returns, and nothing is left when it does; a failed cleanup stops new work and
is reported; an answer, a notification and a tool result reach the one who waits for
them, in order and once; what is on disk is true after a crash.

The places where this is hard to test are listed in `PROJECT.json` under "hazards",
each at its line.

## 2. Modules

| Module | Models | State and actions |
|---|---|---|
| `RelayBroker` | `broker.go` and the loop of `round.Next` | The fields of `Broker` are variables of the same name; every critical section of `b.mu` is an action.  A call is validated between two critical sections, so `Call` is three actions (`CallReserves`, `CallSuspends`/`CallDropped`, `CallReceives`/`CallCancels`).  `failLocked`, `signal` and `expire` keep their names.  A timer callback that has started is a state of its own (`"fired"`). |
| `ToolHandoff` | the abstract promise of the relay | One line of blocked calls, an offered prefix that is answered as a whole, a revocation that answers everyone. |
| `RelaySocket` | `socket.go`, `attachment.go`, `attachment_child.go`, `mcp/server.go` | Both ends of the private socket.  `srv` is where the handler of each connection is, `place` where each child is, `job` where each tool call is; the broker is open or closed. |
| `AcpPool` | `pool.go` up to the router | A user is one Acquire and its lease; what it asks for (`ask`) is chosen at the start.  The idle groups are kept in the order of their `idleAt` stamps; expired ones are a prefix, so no clock is needed.  What the router can do to a group is `GroupFails`.  Closing a client may fail and leave its process (`"left"`); the group goes all the same and the pool admits nothing more.  Groups that are gone keep one common reason. |
| `AcpClient` | `acp/client.go` | The pending table, the queues, the reader, the writer, the wait and the cleanup.  A frame of the process is chosen when it is read. |
| `AcpRouter` | `pool.go` 426-636, over `AcpClient` | Leases that create or load a session and prompt it; the router with its queue per lease; the barrier. |
| `SessionDriver` | `driver.go`, `turn.go`, `setup.go`, `continuation*.go`, `interruption.go`, `cleanup.go` | `d` holds the fields that `d.mu` guards, `actor` the locals of every Start, Models and round, `turn` the turns.  Each section under `d.mu` is an action, and so is each call that can block in between.  `holds` records which turn's history a backend session has. |
| `SessionStore` | `sessionstore`, `privatefs`, `persistence.go` and their use in `Driver.Start` and `turn.complete` | The directory twice, as processes see it (`view`, `keyfile`) and as the disk has it (`disk`, `keydisk`).  A rename or a removal changes the first, a sync copies it to the second, a power loss keeps or undoes what was not synced. |
| `History` | `history.go` and `LatestUserIndex` | Plan, Complete, Valid and pairs are operators with the names of the code; `Turn` is the driver's use of them. |
| `Manager` | `manager.go`, `Driver.CloseIdle` as it sees it | The critical section of Start is `Admit`; eviction, gate, creation, the call of the driver and the three deferred steps are actions.  A driver is reduced to what `State` tells; the `touched` stamps are kept as the order of their bindings (`older`). |
| `Gateway` | `gateway/{server,http,ui,delivery}.go`, the queue of `status/metrics.go` | A connection carries one request.  `cpc` is where its goroutine is, `turn` what became of its turn, `after` which responses a hook follows.  A login message ends a response whose turn is still to be cancelled (`fallback`).  `drained` is a history variable: the responses of which a hook has taken the records. |
| `Catalog` | `catalog/cache.go`, `launcher/model_state.go` | Data is none, fresh or stale; one flight with its readers. |
| `Launcher` | `startup.go`, `runtime.go`, `status/usage.go`, `childproc/run.go` | Composes `Gateway` and `Catalog`: the phases of a launch, the owners that exist and what is left to release. |
| `Installation` | `installation`, `cmd/dax-kiro-proxy/installation.go` | A step per file system call.  Directories have inodes that are never used again; a process keeps the one it opened (`root`) and the one whose lock it holds (`held`). |
| `MC*` | | Values for the constants and symmetry sets. |
| `*Proofs` | | Theorems, see section 4.  Eight modules: `AcpPoolProofs`, `AcpRouterProofs`, `InstallationProofs`, `LauncherProofs` (with `Gateway` and `Catalog`), `ManagerProofs`, `RelayBrokerProofs` (with `RelaySocket`), `SessionDriverProofs` (with `History`) and `SessionStoreProofs`. |

`RelayBroker` and `SessionDriver` meet at the turn: the driver's model keeps one
outstanding call per relay in place of the broker, whose own behaviour is proved
separately.  `RelaySocket` and `RelayBroker` meet at a call, which the socket's handler
makes and which its connection may cancel.  `SessionDriver` and `AcpPool` meet at the
lease: a process is lost, or closed by its lease; `AcpRouter` shows what happens under a
lease in between.  `Manager` relies on what `SessionDriver` shows: a Start returns once it
is cancelled, CloseIdle refuses a busy driver, and only Start makes one busy.  `Launcher`
composes the gateway and the catalog, and has the manager as a backend that starts,
refuses and settles turns.

Operators introduced by the comment "A mutant" are not part of a model.  Each is a
wrong version of the definition that follows it, kept to show that a property notices
the difference; `PROJECT.json` says which one.

## 3. What is checked

All runs use two workers and end within five minutes; the longest takes three.

| Run | Question | Instance |
|---|---|---|
| `relay` | pending table, queue and batch agree; a call is pending exactly while unanswered, and is sent one value; the limits count calls under validation; no lost wake-up; the broker implements `ToolHandoff` | three calls of sizes 1 and 2, of which two may be pending, two batches; 1.3 million states |
| `relay_socket` | a child that connects while setup ends is not refused; Close leaves nothing; nobody waits on the others; every tool request is answered once | two children, two calls, one call at a time per child |
| `pool` | processes stay within the limit, those that a failed cleanup left included; when Close returns none is left that it does not report; scopes and prepared launches are isolated; every lease learns of the end of its group; who waits gets on; busy processes are kept | three users, one of another scope or with a prepared launch, three launches, two slots, cleanups that fail; 2 million states |
| `acp_routing` | an answer is that of the very request; a notification reaches its lease before the answer that followed it, and no other lease; a failure reaches everyone | two leases, two sessions, queues of one, three frames |
| `session` | one turn at a time, in agreement with the state; every process and relay is owned; Close and CloseIdle leave nothing; nobody waits for nobody; a delta goes to the session that holds what it extends; a tool result is applied after its batch was delivered | two requests, every fault; 2.3 million states |
| `session_discovery` | a lost turn is retired | one request, one Models, every fault, with fairness |
| `session_models` | violated: see section 6 | two requests, one Models |
| `session_store` | a record states what its session was told; a prompt's session was told the request's history and nothing else; all processes use one history key | two processes, two conversations in one slot, four turns, a power loss |
| `history` | the committed nodes are valid at MaxNodes and are what the backend has, of which the client's view is a suffix; Plan extends from the longest proven overlap and only then | requests up to MaxNodes 7, a conversation that repeats itself |
| `manager` | an evicted driver stays at rest and the manager stops only for a real failure; every open driver has one owner; order of Close, which reports what failed; no deadlock | three requests, two keys, one place, Prune, Models, one fault |
| `launch` | what an owner uses outlives it; a launch that ends has released everything; nobody hangs; no record comes after the hook that was to take it | two connections, one request at a time, every failure, login messages; 2.3 million states |
| `installation` | a lease keeps its files; the public link always leads to a complete executable; a retry recovers | two installers, a runner, four generations of which two are accepted; 300 thousand states |

Bounds.  Two actors per race are enough for most of the interleavings above because
each section under a lock involves the owner and one rival; the third call, user or
request is there where a rule is about a third party: the rest of a sealed prefix, an
eviction that makes room for someone else.  `MaxBatches` and `MaxRecreations` of 1
(session) and 2 batches (relay) let a limit be reached and a request meet it.  In `relay`
two calls fill the pending table, the call history or a frame, whichever comes first.
`Groups` bounds the launches of a pool; three launches over two slots force a recycled
slot.  `MaxNodes` 7 is the smallest value at which two overlaps of different length
compete in a snapshot with an older prefix.  `MaxID` 3 lets the request ids of a client
run out, and a queue of one overflows with the second frame.  Four turns in
`session_store` are a record, a use of it, a step back and one more.  `MaxManagers` 2 lets
the manager directory be removed and made again under a process that has opened the old
one.  Where time allowed, larger instances were tried once and showed nothing else:
four frames in `acp_routing` (10.5 million states), two power losses in `session_store`
(571 thousand), three requests with process deaths for `PromptMatchesSession` (5.3
million), and three calls in `relay_socket` (stopped after 3.2 million).

Each Start, Acquire, Prune, connection or call happens once per name, so a run ends: the
runs that allow it say `CHECK_DEADLOCK FALSE`, and a property of each shows that nobody is
stuck before.  In `Manager` the end is a state of its own (`Ended`) and every other state
without a step would be reported as a deadlock; `history`, `session_store` and
`installation` never stop, and a state without a step would be reported there too.

What must eventually happen is stated in two ways.

* As an invariant of quiescent states: `WaitersReturn`, `NothingStuck`, `NobodyWaits`,
  `NothingHangs` and `AllEnd` say that when no step of the program itself is enabled
  (`~ENABLED OwnStep`), nobody is waiting who should not be.  `OwnStep` leaves out what the
  client, Kiro, the operating system and deadlines may or may not do, so nothing of theirs
  is counted on.  Each of the five also says that `OwnStep` is enabled whenever `AtWork`
  holds.  `AtWork` gathers the guards of the steps that end a wait, written as a state
  predicate, so that the proofs can speak of them: section 4 proves for each that `AtWork`
  holds or nobody waits, for every value of the constants, and TLC checks that `AtWork` is
  not an empty word.  The program's own steps bring each goroutine on towards its end, and
  their number is bounded in every instance, so under the weak fairness the Go scheduler
  gives to every goroutine a quiescent state is reached unless the environment goes on for
  ever.
* As a temporal property under fairness: `LossSettles` of `SessionDriver`, where a process
  is lost and nobody calls.  `FairSpec` is weak fairness of each goroutine.  Setup calls are
  bounded by SetupTimeout; the call of a prompt returns when its context is cancelled or
  its process is gone (`PromptCut`), and not otherwise.  There is no fairness for faults,
  for the client's next request, or for a Start that waits for the delivery of another
  response.

## 4. What is proved

All theorems hold for every value of the constants that satisfies the named assumptions
of the modules: any set of calls, users, processes, conversations, slots or generations,
and any limits.

| Theorem | Statement |
|---|---|
| `RelayBrokerProofs!TypeCorrect` | `Spec => []TypeOK` |
| `PartitionHolds` | pending, queue and sealed batch agree |
| `AnswerHolds` | a blocked call is pending exactly while nothing was sent to it, and is sent at most one value |
| `IdleHolds` | no call is blocked or under validation outside an owned prompt of a live broker |
| `CommittedHolds` | a value sent to a call is never followed or replaced |
| `Refinement` | `Spec => HandoffSpec`: the broker implements `ToolHandoff` |
| `IdentityHolds` | an identity is admitted at most once |
| `LimitsHold` | the limits on calls and identities hold, those under validation counted |
| `WakeupHolds` | a round that waits while calls are queued finds a token |
| `DeliveredHolds` | a result reaches a call only if its batch was acknowledged |
| `OwnFailureHolds` | a timer or a cancellation fails the broker only for a call that is unanswered |
| `CapacityHolds` | what the broker holds stays within its limits on calls and argument bytes |
| `AcpPoolProofs!CapHolds` | processes stay within MaxProcesses, unreaped ones included; when Close returns no group is left, and no process unless a failed cleanup is reported |
| `IsolationHolds` | leases that share a process share its scope; a prepared launch has one lease |
| `LeasesEndHolds` | every lease learns of the end of its group |
| `BusyHolds` | pruning, recycling and the release of idle leases never end a working process with a lease in use |
| `WaitersServed` | while a launch, a recycling Acquire, a caller whose group goes, or Pool.Close waits, `AtWork` holds |
| `AcpRouterProofs!OwnAnswerHolds` | the answer a request gets is the one to that very request |
| `AttributionHolds` | a lease is never given a notification of another session |
| `OrderHolds` | when a call returns, its lease was given every notification sent before the answer |
| `NothingWaits` | `[](AtWork \/ Settled)`: no call, barrier, router or cleanup waits for what nobody will do |
| `RelayBrokerProofs!LateHolds` | a setup that succeeds refuses no child, however late it connects |
| `CloseHolds` | when Close returns there is no handler, connection or admitted call, and no child unless an error says so |
| `RepliesHold` | a tool request is answered at most once, and once when its job ends before its child |
| `SocketEnds` | `[](AtWork \/ Ended)`: a relay that ends goes on ending until Close has returned and every child has gone |
| `SessionDriverProofs!OneTurnHolds` | at most one turn is not settled, in agreement with the state of the driver |
| `OwnedHolds` | every live process and every open relay has an owner that will close it |
| `CloseJoinsHolds` | Close and CloseIdle leave nothing when they return |
| `ResolvedHolds` | a tool result is applied only after its batch was delivered |
| `MatchHolds` | without a Models caller, a delta goes only to the session that holds what it extends |
| `SessionGoesOn` | `[](AtWork \/ AtRest)`: the driver can go on by itself, or every Start has returned, no turn is lost and every Close has ended |
| `ViewHolds` | after every turn the snapshot is valid, is what the backend session was sent and replied, and ends with what the client knows |
| `PlanHolds` | Plan extends from the longest overlap that proves continuity, and only then |
| `ManagerProofs!EvictedHolds` | an evicted driver is at rest until it is closed, and the manager stops only for a real failure |
| `OwnerHolds` | at most MaxSessions bindings, and exactly one owner for every open driver |
| `CloseHolds` | when Close returns every driver is closed; it reports a failed cleanup and nothing else |
| `LauncherProofs!OutliveHolds` | every owner of a launch outlives its users, and no handler of a joined gateway is left without the catalog |
| `EndsHolds` | a launch that has returned has released and joined everything, unless its gateway reports otherwise |
| `HookHolds` | after a metrics hook has drained the records, none comes of a turn whose response had ended when the hook was admitted |
| `LaunchGoesOn` | `[](AtWork \/ AtRest)`: a launch goes on until its client runs or it has returned, and a connection until it has gone |
| `InstallationProofs!PublicHolds` | the public link leads to a complete executable |
| `LeaseHolds` | a lease keeps its generation complete and current |
| `RecoverHolds` | when no process is at work and no directory is half made or half removed, the next installer accepts what it finds |
| `SessionStoreProofs!RecordHolds` | a record states what its session has been told |
| `ContextHolds` | a prompt's session has been told the request's history and nothing else |
| `OneKeyHolds` | every process uses the key in the directory |

*Relay.*  One inductive invariant, `BrokerInv`: types, `BatchPartition`,
`AnsweredOrPending`, `IdleIsEmpty`, and two strengthenings.  `Fresh` says that a call
that has not been suspended has been sent nothing; without it `CallSuspends` could put
an answered call into the table.  `Counted` says that `reserved` is the number of calls
under validation; without it the reservation could go below zero and `EndTurn` could
find the broker idle with a call under validation.  `RetireEffect` states once what
`failLocked` does, since seven actions retire the broker.  The refinement maps the
line to sealed batch followed by queue, the offer to the length of the batch, and the
answers to what was sent; sealing is then a change of the offer only, and a retirement
a single revocation.  The theorems on admission add small invariants of their own on
top of `BrokerInv`.  `Capacity` needs to know what a fold of the community modules computes:
that the bytes of a set are those of the set without one call, plus that call's.  The library's
induction theorems are out of reach here, but an argument by a smallest counterexample is
not: of the finite sets for which a statement fails, one has the fewest elements, and one
element less gives a contradiction.  Then each action changes the sum by the size of its call
(`Weighed`).

*Pool.*  `PoolInv` has six layers: who holds a lease on which group, with the allocations
of a group as the number of its holders (`HolderInv`); which groups may have a process
(`ProcessInv`); what Close waits
for (`ClosingInv`); which leases were told of a retirement (`TellInv`); that the busy count
of a group is the number of its leases in use and the idle order names only groups that
have none (`IdleInv`); and for whom everybody waits (`GoingInv`).  `BusyHolds` follows from
the fifth: what Prune, a recycling Acquire and ReleaseIdle take away was idle.  The filter
that removes a group from the order is a recursive function, which is shown to be one by a
smallest counterexample.  The sixth layer says that whoever waits, waits for a retired
group, and that a group without a router has an Acquire which is starting it; so a
goroutine has to act next, and `WaitersServed` names it.

A slot of the pool is given back when its group is deleted, and a close of the client that
fails may leave the process running then.  So `CapHolds` counts the slots in use as the
groups together with the groups that are gone and have left a process (`Slots`): deleting a
group that leaves one does not change their number, and a launch that would add one is not
admitted any more, because whatever leaves a process has set `cleanupErr`.  The last fact
is an invariant of its own, part of `ProcessInv`, and the mutant that forgets the error
exceeds the limit.

*Router.*  `Known` describes the client and the group apart.  In the client a request is
pending only while its caller waits with an empty channel, ids are not used twice, and an
answer carries the id of the latest request of its caller (`ClientTrue`); `OwnAnswer`
follows, although a late answer may arrive after its caller gave up.  In the group a session
has one route, and a queue holds only notifications of the session of its lease, or of the
one that the lease is about to learn the name of (`GroupTrue`).  Ordering needs to know where
each notification is: while nothing has failed, `FlowTrue` accounts for all that were read
about a session as given to its lease or on the way to it, and a lease whose barrier is
acknowledged has had those before its mark.  The failures of client and group
interleave; lemmas about what the client can do (`ClientActs`) and what it leaves alone keep
the two proofs apart.  For `NothingWaits`, `AnswersTrue` says that a caller that waits has
its request in the table or its answer in the channel, and `LoopTrue` relates what the
router has in hand to its place and says that a failure is on its way to the group.

*Relay socket.*  `SocketInv` has one part for each property.  `LateTrue` says that the setup
succeeds only with a bound group, so that a handler that looks again finds it; `CloseTrue`
says at each stage of Close what the stages before have taken away and that nothing of it
comes back; `ReplyTrue` relates a job to the place of its child.
For `SocketEnds`, `EndTrue` says that a handler holds its end of the connection until it
returns, that a child and its jobs have an end to notice once it is closed, and that an
attached peer keeps its handler until the broker is closed.

*Session driver.*  The largest invariant, because five parties settle the same turn.
`SessionInv` says that one setup is under way at most, and then no turn (`SetupTrue`); that
the current turn is the only one not settled (`TurnTrue`); which rounds belong to it
(`RoundTrue`); that references name what was made, so that a new process or relay has no old
reference to it (`NamedTrue`); what a turn and a setup have in hand (`TurnHand`,
`SetupHand`); what the watches, Close and CloseIdle took over and must have closed when they
return (`WatchTrue`, `CloseTrue`, `EvictTrue`); and who owns each process and relay, owner by
owner (`OwnedTrue`).  `OwnedTrue` alone is not inductive: an owner that hands over clears its
own field, and only the parts before it say that the other one has the same process.  Most
steps change one local and nothing the invariant looks at; `QuietKeeps` states this once.

`MatchHolds` adds `MatchInv`.  Between the plan of a request, made under `d.mu`, and the
moment its delta is sent, the driver is unlocked several times.  The argument is the start
gate: only its holder can put another history into the session of the driver, so the session
that a plan decided to reuse still holds what the plan extends.  The theorem assumes that no
Models caller is there.  That is not for convenience: `ModelsEnds` is the one step that
breaks the invariant, and the run `session_models` shows what follows (section 6).  Faults,
Close and evictions are all included.

`SessionGoesOn` adds `WaitTrue`, which says of everyone who may wait for whom.  An open turn
is attended by a round, or its prompt is suspended in a call or about to fail, so that
somebody notices when it is lost (`TurnWaits`); a Start or a Models that waits for a turn waits
for one that is being retired, or for a delivery that was opened and has a handler to close it
(`ActorWaits`); a watch and Close wait for a turn that somebody settles.  `RelayTrue` says that
there is a relay wherever a process can be prompted, without which a lost relay could not be
noticed.  The chain of waits is short (caller, turn, prompt), which is why a fixed set of
guards is enough.

*History.*  `HistoryInv` says that the snapshot is valid and is the conversation of the
backend session, and that the client's view is a suffix of it.  `ViewHolds` needs in
addition what Plan decides, so the two recursive functions of the model are compared with
their meaning for all inputs: `pairs` finds the ends of complete exchanges (`PairsFound`),
and the search returns the longest overlap with one of them (`OverlapIs`, by descent from
the largest candidate).  That each recursive definition has a function to define is again
shown by a smallest counterexample.

*Launcher.*  `GatewayInv` is about the gateway alone: what a connection is counted in and
where its turn may be open (`ConnTrue`), that no connection exists before the server or
after its join (`StageTrue`), and that a response which has ended and whose turn can still
leave a record is registered until it has (`DeliveryTrue`), so that a hook admitted after
its end waits for it (`HookTrue`).  A response that ends with a login message is not
registered; its turn is on the way to being cancelled and leaves no record.  `DrainTrue`,
and with it `HookHolds`, follows: once a hook has drained, none of the responses it
followed is in a place that leads to a record.  `LaunchInv`
relates the phases to it: which owners a phase has made (`StartTrue`), what each owner in
use needs (`UseTrue`), what is left to release and in which order (`ReleaseTrue`), and what
runs while the catalog or the usage display is open (`WorkTrue`).  The relation `Uses` is
written down once, and it is shown that the release order puts users before what they use;
everything else is a walk through the phases.  `LaunchGoesOn` needs two more facts: a
delivery that a handler waits for belongs to one on its way out of its turn (`Registered`),
and what a phase, the release or the server waits for is under way (`RestTrue`).

*Manager.*  `ManagerInv` says what the map and the bindings outside it look like
(`BindingTrue`), who has passed the gate of a binding (`GateTrue`), that `users` counts the
calls that hold a binding (`UseTrue`), and that an evicted driver belongs to a binding that
nobody can reach any more (`EvictTrue`).  `users` is what protects a driver between the
lookup in the map and the call of the driver: without `UseTrue` an eviction could take a
driver that a Start is about to make busy.  `OpenTrue`, `SizeTrue`, `CloseTrue` and `ErrTrue`
are about owners, the limit, Close, and what is reported.

*Installation.*  `LockInv` says who may hold the lock of the manager that the name refers
to.  It needs the inodes: a process may hold the lock of a directory that is gone.  From it
follows that a process at work is alone (`Alone`), and `DataInv` says what this one process
knows of the files at each of its steps.  `RecoverHolds` rests on a third layer, `RestInv`:
both pointers lead to complete generations, at most two are retained, and what a process has
made and not yet promoted is counted (`Pending`).  It assumes that `maxGenerations` is at
least 2, since with fewer a replacement would not fit; the code has 4
(`installation/files.go:30`).

*Session store.*  The key is argued by `KeyInv`: one process at a time makes a key, and only
where there is none, so that no other process can be at work with another.  The records
rest on `StoreInv`.  A slot owns the sessions its records and its driver name (`Apart`);
the lease makes that driver the only one; and from the moment its removal is synced until
the answer is complete the slot has no record, neither in the directory nor on the disk.
So the one action that tells a session something contradicts no record, and `FrameKeeps`
states once that nobody else notices.

## 5. Only model-checked

* Liveness: `LossSettles`, and the step from "somebody can go on" to "everybody gets there"
  (section 3): temporal properties under fairness are beyond the proof system.
* That the guards in `AtWork` enable the program's own steps, which is the first conjunct of
  `WaitersReturn`, `NothingStuck`, `NobodyWaits`, `NothingHangs` and `AllEnd`: ENABLED is beyond
  it as well.  What follows from the guards is proved.
* `Manager` and `Installation` are free of deadlock by the check of TLC only.

Every other property that a passing run checks is stated by a theorem of section 4.

## 6. Findings and observations

* `session_models`: `Driver.RefreshModels` replaces the backend session and leaves the
  driver idle, but keeps the committed snapshot of the session it replaced.  A Models
  caller that saw no catalog, and refreshes after a turn completed in between, makes the
  next extension go as a delta to a session that never saw the history.  It takes a
  Driver that serves requests and Models itself, without a pool and with an unchanged
  registry fingerprint; the manager asks a separate discovery driver.

Three more places where the code does less than a document or a comment says, seen while
modelling and not made into runs:

* `docs/ACCEPTANCE_SPEC.md:448` says that an exact duplicate of a completed request
  recreates the session.  `Plan` (`history.go:154`) recognises a duplicate only by its
  length against the whole snapshot: an exact retry of a request with a truncated history,
  whose last exchange repeats the one before, is planned as an extension.  It cannot be
  told from a new request with the same words.
* `docs/IMPLEMENTATION_DECISIONS.md:319` describes one-hour idle expiration and eviction of
  idle bindings.  A binding inserted before `Persistence.Claim` was refused
  (`manager.go:221`, `:254`) has no driver, and `idleBinding` (`manager.go:163`) never
  counts it as idle.  Only a manager with a session store is affected.
* `gateway/delivery.go:8` says "Register before terminal bytes can reach a client, then
  release after Finish/Cancel has settled the driver".  The login fallback
  (`gateway/http.go:385`, `:600`) sends a complete response that ends with `end_turn`
  without registering it and before the turn is cancelled.  `Gateway` has this path
  (`Refuse`, `NextFails`).  No record is lost or late by it, since a cancelled turn leaves
  none (`HookSeesTurn`); but the client's next request may find the driver still busy,
  and a hook does not wait for the turn to be settled.

Smaller observations, not violations of anything stated: `Seal` increments the batch
number before it reports `ErrCapacity` (`broker.go:285`, `:299`); a call whose escaped
form exceeds the frame is admitted although it can never be sealed, and ends by its
timer; `RefreshModels` may leave an idle driver with a client that died meanwhile, which
the next Start or Close notices; expired bindings leave the map before their drivers are
closed, so for a moment more drivers than MaxSessions are open.  A manager directory whose
creator died before it wrote the lock and the marker is refused by every later installer
(`installation/store.go:130`) and has to be removed by hand, and so has a generation that
was left half made or half removed: `Recoverable` says exactly when a retry is enough.
The catalog's `Get` never waits for a handler, because a launch goes on only with data.

## 7. Not modelled

* The worker pool of `schemacheck`: `RelayBroker` has the validation of a call as a step that
  accepts or refuses, at any moment.  Its own hazard, a worker put back while Close takes
  the list, is listed without a property.
* The search budget: a file under a lock, with one critical section.
* Persistence together with the full driver: the launcher does not call
  `sessionstore.New`, and `NewManager` refuses persistence together with prepared launches.
  `SessionStore` has its own, smaller driver, and `Manager` has the refused claim.  The
  sessions Kiro has stored are assumed durable.
* In `Installation`, the loss of unsynced data (the repository's documents promise nothing
  after a power loss) and changes by other programs.
* In `RelaySocket`, malformed frames and wrong credentials, which end a connection before
  anything else happens; in `Gateway`, requests that are refused before admission, which
  leave no trace.
* Which of several error classes an abort reports, effort selection, metrics.
* The digest of a message and its canonical form: a message is its identity.
* The derivation of a binding's key from identities and messages.
* Wire formats, schema evaluation, profiles, terminals, signals: data or the operating
  system.

## 8. Plan

The `schemacheck` worker pool as an owner inside `Launcher`, if a smaller launch leaves
room for it.  The proofs are complete for what the prover can reach.

A new question takes the place of an older run where it asks the same of a larger part of
the system.
