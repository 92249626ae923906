--------------------------- MODULE SessionDriver ---------------------------
(***************************************************************************)
(* One client session: Driver, turn and round of internal/session.         *)
(*                                                                         *)
(* A caller is one HTTP request: Driver.Start, then the round it returns   *)
(* until Finish or Cancel.  A turn owns one ACP prompt and is named by the *)
(* caller that started it; a request with tool results gets another round  *)
(* of the same turn.  Beside the callers run the goroutine of the prompt,  *)
(* the watch of the turn, the watch of the process, the Models callers,    *)
(* Close and CloseIdle.                                                    *)
(*                                                                         *)
(* Every section that holds d.mu is one action.  A launch is one pass of   *)
(* prepare: its relay, its process and the backend session on it.  The     *)
(* relay's batch protocol is RelayBroker; here one outstanding call stands *)
(* for it.  The driver runs with a tool registry and without Persistence,  *)
(* the way the launcher configures it.  An error return that changes       *)
(* nothing is the action Leaves.                                           *)
(***************************************************************************)
EXTENDS Integers, FiniteSets

CONSTANTS Callers,          \* HTTP requests
          Refreshers,       \* callers of Models
          Nobody,           \* nil
          Faults,           \* what may come in between, of AllFaults
          MaxBatches,       \* bound on the tool batches of one turn
          MaxRecreations    \* cfg.MaxRecreations

ASSUME ActorsAssumption == /\ IsFiniteSet(Callers) /\ IsFiniteSet(Refreshers)
                           /\ Callers \cap Refreshers = {}
                           /\ Nobody \notin Callers \cup Refreshers
\* A process dies, a relay fails, the deadline of a turn passes, a cleanup fails, the
\* driver is closed or evicted.
AllFaults == {"process", "relay", "deadline", "cleanup", "close", "evict"}

ASSUME FaultsAssumption == Faults \subseteq AllFaults
ASSUME BoundAssumption == MaxBatches \in Nat /\ MaxRecreations \in Nat

\* A launch is named by the actor that runs prepare, which it does once.
Actors == Callers \cup Refreshers
Launches == Actors

VARIABLES
    d,       \* the fields of the Driver that d.mu guards
    gate,    \* who holds startGate
    actor,   \* the goroutine of each Start or RefreshModels, and its round
    turn,    \* the turn each caller started
    relay,   \* the socket and broker of each launch
    call,    \* the outstanding tool call of its broker
    proc,    \* the process of each launch, as the driver's client sees it
    holds,   \* the turn whose history the backend session of a launch holds
    watcher, \* watchIdleProcess of each launch
    closer,  \* Driver.Close
    evictor  \* Driver.CloseIdle

vars == <<d, gate, actor, turn, relay, call, proc, holds, watcher, closer, evictor>>

\* The locals of Start and of its round; they die with the function.
Locals == [pc |-> "outside", kind |-> "new", about |-> Nobody, number |-> 0, base |-> Nobody,
           reuse |-> FALSE, reused |-> FALSE, client |-> Nobody, prev |-> Nobody,
           prevRelay |-> Nobody, count |-> 0, setup |-> FALSE, turn |-> Nobody, batch |-> 0]

Init ==
    /\ d = [state |-> "unstarted", closed |-> FALSE, client |-> Nobody, relay |-> Nobody,
            current |-> Nobody, outcome |-> Nobody, fresh |-> FALSE, snapshot |-> Nobody,
            cleanupErr |-> FALSE, known |-> FALSE, setup |-> Nobody]
    /\ gate = Nobody
    /\ actor = [a \in Actors |-> Locals]
    /\ turn = [t \in Callers |->
                 [settle |-> "none", prompt |-> "none", delivery |-> "nil", ids |-> 0,
                  batches |-> 0, expired |-> FALSE, client |-> Nobody, relay |-> Nobody,
                  base |-> Nobody, count |-> 0]]
    /\ relay = [l \in Launches |-> "none"]
    /\ call = [l \in Launches |-> "none"]
    /\ proc = [l \in Launches |-> "none"]
    /\ holds = [l \in Launches |-> Nobody]
    /\ watcher = [l \in Launches |-> [pc |-> "off", current |-> Nobody, relay |-> Nobody]]
    /\ closer = [pc |-> "no", setup |-> Nobody, current |-> Nobody, client |-> Nobody,
                 relay |-> Nobody]
    /\ evictor = [pc |-> "no", client |-> Nobody, relay |-> Nobody]

----------------------------------------------------------------------------
(* Cleanup.                                                                *)

\* closeRelay: the socket and its broker are closed; nil is allowed.
closeRelay(r) == relay' = [l \in Launches |-> IF l = r THEN "closed" ELSE relay[l]]

\* client.Close or releaseIdle: the process is reaped or the binding given up.
release(c) == proc' = [l \in Launches |-> IF l = c THEN "released" ELSE proc[l]]

\* A cleanup may fail; that is kept for good.
MayFail == IF "cleanup" \in Faults THEN BOOLEAN ELSE {FALSE}
noteCleanup(failed) == d' = [d EXCEPT !.cleanupErr = @ \/ failed]

----------------------------------------------------------------------------
(* The settlement of a turn.  turn.settle is a sync.Once: the first to call *)
(* it runs the body, everyone else waits until it is done.                 *)

\* The turns once abort(t) was called.
aborted(t) == [turn EXCEPT ![t].settle = IF @ = "open" THEN "relay" ELSE @]

Settled(t) == t # Nobody => turn[t].settle = "done"

AbortClosesRelay(t) ==
    /\ turn[t].settle = "relay"
    /\ turn' = [turn EXCEPT ![t].settle = "client"]
    /\ closeRelay(turn[t].relay)
    /\ UNCHANGED <<d, gate, actor, call, proc, holds, watcher, closer, evictor>>

AbortClosesClient(t) ==
    /\ turn[t].settle = "client"
    /\ turn' = [turn EXCEPT ![t].settle = "join"]
    /\ release(turn[t].client)
    /\ \E failed \in MayFail : noteCleanup(failed)
    /\ UNCHANGED <<gate, actor, relay, call, holds, watcher, closer, evictor>>

\* deliveredLocked.
Delivered(del) == IF del = "open" THEN "closed" ELSE del

\* A mutant: abort does not wait for the prompt's goroutine.
AbortSettlesEarly(t) ==
    /\ turn[t].settle = "join"
    /\ turn' = [turn EXCEPT ![t].settle = "done",
                            ![t].delivery = IF d.current = t THEN Delivered(@) ELSE @]
    /\ d' = IF d.current # t THEN d
            ELSE [d EXCEPT !.outcome = IF ~d.closed /\ turn[t].ids # 0 THEN t ELSE @,
                           !.current = Nobody, !.snapshot = Nobody, !.client = Nobody,
                           !.relay = Nobody,
                           !.state = IF d.closed THEN @ ELSE "unstarted"]
    /\ UNCHANGED <<gate, actor, relay, call, proc, holds, watcher, closer, evictor>>

\* A mutant: the waiter for the delivery is not released by an abort.
AbortSettlesQuietly(t) ==
    /\ turn[t].settle = "join"
    /\ turn[t].prompt \in {"ok", "failed"}
    /\ turn' = [turn EXCEPT ![t].settle = "done"]
    /\ d' = IF d.current # t THEN d
            ELSE [d EXCEPT !.outcome = IF ~d.closed /\ turn[t].ids # 0 THEN t ELSE @,
                           !.current = Nobody, !.snapshot = Nobody, !.client = Nobody,
                           !.relay = Nobody,
                           !.state = IF d.closed THEN @ ELSE "unstarted"]
    /\ UNCHANGED <<gate, actor, relay, call, proc, holds, watcher, closer, evictor>>

\* Once the prompt's goroutine is joined the driver is reset; a turn with an
\* exposed batch leaves its outcome for retries.
AbortSettles(t) ==
    /\ turn[t].settle = "join"
    /\ turn[t].prompt \in {"ok", "failed"}
    /\ turn' = [turn EXCEPT ![t].settle = "done",
                            ![t].delivery = IF d.current = t THEN Delivered(@) ELSE @]
    /\ d' = IF d.current # t THEN d
            ELSE [d EXCEPT !.outcome = IF ~d.closed /\ turn[t].ids # 0 THEN t ELSE @,
                           !.current = Nobody, !.snapshot = Nobody, !.client = Nobody,
                           !.relay = Nobody,
                           !.state = IF d.closed THEN @ ELSE "unstarted"]
    /\ UNCHANGED <<gate, actor, relay, call, proc, holds, watcher, closer, evictor>>

\* complete: the history is committed and the session is idle.
CompleteSettles(t) ==
    /\ turn[t].settle = "completing"
    /\ turn' = [turn EXCEPT ![t].settle = "done",
                            ![t].delivery = IF d.current = t THEN Delivered(@) ELSE @]
    /\ d' = IF d.current # t THEN d
            ELSE [d EXCEPT !.current = Nobody, !.snapshot = t,
                           !.state = IF d.closed THEN @ ELSE "idle"]
    /\ UNCHANGED <<gate, actor, relay, call, proc, holds, watcher, closer, evictor>>

----------------------------------------------------------------------------
(* Start, up to prepare.                                                   *)

Goes(a, pc) == actor' = [actor EXCEPT ![a].pc = pc]
Ends(a) == actor' = [actor EXCEPT ![a] = [Locals EXCEPT !.pc = "over"]]
GetsRound(c, t) == actor' = [actor EXCEPT ![c] = [Locals EXCEPT !.pc = "round", !.turn = t]]

\* The tool batches the client has seen, one of which a request may answer.
Exposed == {e \in Callers \X (1..MaxBatches) : e[2] <= turn[e[1]].batches}

\* startGate.TryLock; the request asks something new, or answers a batch: with its
\* results only, under a changed registry or with added text, or by denying it and
\* asking something else.
StartEnters(c) ==
    /\ actor[c].pc = "outside"
    /\ gate = Nobody
    /\ gate' = c
    /\ \/ Goes(c, "entered")
       \/ \E e \in Exposed, kind \in {"results", "changed", "denial"} :
             actor' = [actor EXCEPT ![c].pc = "entered", ![c].kind = kind,
                                    ![c].about = e[1], ![c].number = e[2]]
    /\ UNCHANGED <<d, turn, relay, call, proc, holds, watcher, closer, evictor>>

StartBusy(c) ==
    /\ actor[c].pc = "outside"
    /\ gate # Nobody
    /\ Ends(c)
    /\ UNCHANGED <<d, gate, turn, relay, call, proc, holds, watcher, closer, evictor>>

\* Return an error with nothing to undo: a cancelled context, a bad request, ErrBusy.
Return(c) == Ends(c) /\ gate' = Nobody

Leaves(c) ==
    /\ actor[c].pc \in {"entered", "checking", "routing", "planning", "preparing"}
    /\ Return(c)
    /\ UNCHANGED <<d, turn, relay, call, proc, holds, watcher, closer, evictor>>

\* A response whose End was exposed but whose delivery is not confirmed is awaited.
StartReadsDelivery(c) ==
    /\ actor[c].pc = "entered"
    /\ LET t == d.current
       IN IF t # Nobody /\ turn[t].delivery = "open"
          THEN actor' = [actor EXCEPT ![c].pc = "awaiting", ![c].turn = t]
          ELSE Goes(c, "checking")
    /\ UNCHANGED <<d, gate, turn, relay, call, proc, holds, watcher, closer, evictor>>

\* The client need not hang up while it waits.
StartGivesUp(c) ==
    /\ actor[c].pc = "awaiting"
    /\ Return(c)
    /\ UNCHANGED <<d, turn, relay, call, proc, holds, watcher, closer, evictor>>

StartAwaited(c) ==
    /\ actor[c].pc = "awaiting"
    /\ turn[actor[c].turn].delivery = "closed"
    /\ Goes(c, "checking")
    /\ UNCHANGED <<d, gate, turn, relay, call, proc, holds, watcher, closer, evictor>>

StartChecksBusy(c) ==
    /\ actor[c].pc = "checking"
    /\ IF d.state \in {"starting", "prompting"} THEN Return(c)
       ELSE Goes(c, "routing") /\ UNCHANGED gate
    /\ UNCHANGED <<d, turn, relay, call, proc, holds, watcher, closer, evictor>>

\* An ordinary request; while tools are pending it is refused.
StartOrdinary(c) ==
    /\ actor[c].pc = "routing"
    /\ actor[c].kind = "new"
    /\ IF d.state = "waiting" THEN Return(c)
       ELSE Goes(c, "planning") /\ UNCHANGED gate
    /\ UNCHANGED <<d, turn, relay, call, proc, holds, watcher, closer, evictor>>

\* The request answers the batch that turn t has handed out last.
Answers(c, t) == t # Nobody /\ actor[c].about = t /\ actor[c].number = turn[t].ids

\* The broker of t takes results: it is alive and the batch was delivered.
Takes(t) == relay[turn[t].relay] = "open" /\ call[turn[t].relay] = "delivered"

\* A mutant: results resume the turn in whatever state it is.
ResumableAny(c) == Answers(c, d.current) /\ relay[turn[d.current].relay] = "open"

\* resume can hand the results to the suspended prompt.
Resumable(c) == d.state = "waiting" /\ Answers(c, d.current) /\ Takes(d.current)

StartResumes(c) ==
    /\ actor[c].pc = "routing"
    /\ actor[c].kind = "results"
    /\ Resumable(c)
    /\ LET t == d.current
       IN /\ call' = [call EXCEPT ![turn[t].relay] = "none"]
          /\ turn' = [turn EXCEPT ![t].ids = 0]
          /\ GetsRound(c, t)
    /\ d' = [d EXCEPT !.state = "prompting"]
    /\ gate' = Nobody
    /\ UNCHANGED <<relay, proc, holds, watcher, closer, evictor>>

\* A retired turn answers its retries with the recorded outcome, and keeps it.
StartToldOutcome(c) ==
    /\ actor[c].pc = "routing"
    /\ actor[c].kind = "results"
    /\ d.state \notin {"prompting", "starting", "waiting"}
    /\ Answers(c, d.outcome)
    /\ Return(c)
    /\ UNCHANGED <<d, turn, relay, call, proc, holds, watcher, closer, evictor>>

\* An outcome is kept for a while only; the retry that comes too late drops it.
StartFindsExpired(c) ==
    /\ actor[c].pc = "routing"
    /\ actor[c].kind \in {"results", "changed"}
    /\ d.state \notin {"prompting", "starting", "waiting"}
    /\ d.outcome # Nobody
    /\ d' = [d EXCEPT !.outcome = Nobody]
    /\ Return(c)
    /\ UNCHANGED <<turn, relay, call, proc, holds, watcher, closer, evictor>>

\* restartForContinuation: the batch is validated and abandoned, the turn aborted.
StartAbandons(c) ==
    /\ actor[c].pc = "routing"
    /\ actor[c].kind = "changed"
    /\ Resumable(c)
    /\ LET t == d.current
       IN /\ turn[t].count < MaxRecreations
          /\ turn' = aborted(t)
          /\ relay' = [relay EXCEPT ![turn[t].relay] = "failed"]
          /\ actor' = [actor EXCEPT ![c].pc = "retiring", ![c].turn = t,
                                    ![c].count = turn[t].count + 1]
    /\ UNCHANGED <<d, gate, call, proc, holds, watcher, closer, evictor>>

\* restartAfterDenial: the batch is that of the waiting turn, or of the outcome of
\* a retired one.
StartDenies(c) ==
    /\ actor[c].pc = "routing"
    /\ actor[c].kind = "denial"
    /\ \/ /\ d.state = "waiting"
          /\ Answers(c, d.current)
          /\ turn' = aborted(d.current)
          /\ actor' = [actor EXCEPT ![c].pc = "retiring", ![c].turn = d.current]
       \/ /\ d.state = "unstarted"
          /\ Answers(c, d.outcome)
          /\ actor' = [actor EXCEPT ![c].pc = "retiring", ![c].turn = Nobody]
          /\ UNCHANGED turn
    /\ UNCHANGED <<d, gate, relay, call, proc, holds, watcher, closer, evictor>>

\* A mutant: the fresh prompt does not wait for the retirement of the old one.
StartRetiredEarly(c) ==
    /\ actor[c].pc = "retiring"
    /\ Goes(c, "planning")
    /\ d' = [d EXCEPT !.outcome = Nobody, !.state = "unstarted", !.current = Nobody]
    /\ UNCHANGED <<gate, turn, relay, call, proc, holds, watcher, closer, evictor>>

\* The old turn is retired and joined: start afresh, unless the driver is closed, a
\* cleanup failed or the backend turned out to be logged out.
StartRetired(c) ==
    /\ actor[c].pc = "retiring"
    /\ Settled(actor[c].turn)
    /\ \/ /\ d.closed \/ d.cleanupErr
          /\ Return(c)
          /\ UNCHANGED d
       \/ /\ ~d.closed /\ ~d.cleanupErr
          /\ d' = [d EXCEPT !.outcome = Nobody]
          /\ \/ Goes(c, "planning") /\ UNCHANGED gate
             \/ actor[c].kind = "changed" /\ Return(c)
    /\ UNCHANGED <<turn, relay, call, proc, holds, watcher, closer, evictor>>

\* hasher.Plan: the request extends the committed history, or does not.
StartPlans(c) ==
    /\ actor[c].pc = "planning"
    /\ \E base \in {Nobody, d.snapshot} :
         actor' = [actor EXCEPT ![c].pc = "preparing", ![c].base = base,
                                ![c].reuse = d.fresh \/ base # Nobody]
    /\ UNCHANGED <<d, gate, turn, relay, call, proc, holds, watcher, closer, evictor>>

----------------------------------------------------------------------------
(* prepare: reuse the backend session, or retire it and launch another one. *)

\* RefreshModels, when no catalog is known yet.
ModelsEnters(r) ==
    /\ actor[r].pc = "outside"
    /\ IF d.closed \/ d.known THEN Ends(r) ELSE Goes(r, "preparing")
    /\ UNCHANGED <<d, gate, turn, relay, call, proc, holds, watcher, closer, evictor>>

\* A caller gives its gate back; a Models caller has none.
Ungate(a) == gate' = IF gate = a THEN Nobody ELSE gate

PrepareRefused(a) ==
    /\ actor[a].pc = "preparing"
    /\ d.closed \/ d.cleanupErr \/ d.state \in {"starting", "prompting", "waiting"}
    /\ Ends(a)
    /\ Ungate(a)
    /\ UNCHANGED <<d, turn, relay, call, proc, holds, watcher, closer, evictor>>

Admitted(a) == /\ actor[a].pc = "preparing"
               /\ ~d.closed /\ ~d.cleanupErr
               /\ d.state \in {"idle", "unstarted"}

PrepareReuses(a) ==
    /\ Admitted(a)
    /\ actor[a].reuse /\ d.client # Nobody
    /\ proc[d.client] = "up"
    /\ d' = [d EXCEPT !.state = "starting", !.setup = a]
    /\ actor' = [actor EXCEPT ![a].pc = "reusing", ![a].client = d.client, ![a].reused = TRUE,
                              ![a].prev = d.client, ![a].prevRelay = d.relay,
                              ![a].setup = TRUE]
    /\ UNCHANGED <<gate, turn, relay, call, proc, holds, watcher, closer, evictor>>

\* lease.SetIdle(false), which fails when the process is gone meanwhile: then the
\* client and the relay are still those of the driver while they are retired.
PrepareWakes(a) ==
    /\ actor[a].pc = "reusing"
    /\ actor' = IF proc[actor[a].client] = "up"
                THEN [actor EXCEPT ![a].pc = "draining"]
                ELSE [actor EXCEPT ![a].pc = "retiringOld", ![a].client = Nobody,
                                   ![a].reused = FALSE]
    /\ UNCHANGED <<d, gate, turn, relay, call, proc, holds, watcher, closer, evictor>>

\* Not reused: refused by the plan, or another registry or process configuration.
PrepareReplaces(a) ==
    /\ Admitted(a)
    /\ d' = [d EXCEPT !.state = "starting", !.setup = a, !.client = Nobody, !.relay = Nobody]
    /\ actor' = [actor EXCEPT ![a].pc = "retiringOld", ![a].prev = d.client,
                              ![a].prevRelay = d.relay, ![a].setup = TRUE]
    /\ UNCHANGED <<gate, turn, relay, call, proc, holds, watcher, closer, evictor>>

PrepareRetiresOld(a) ==
    /\ actor[a].pc = "retiringOld"
    /\ closeRelay(actor[a].prevRelay)
    /\ release(actor[a].prev)
    /\ \E failed \in MayFail :
         noteCleanup(failed) /\ Goes(a, IF failed THEN "failing" ELSE "listening")
    /\ UNCHANGED <<gate, turn, call, holds, watcher, closer, evictor>>

\* A failure of prepare, a cancelled setup included, retires what there is.
PrepareFails(a) ==
    /\ actor[a].pc \in {"listening", "acquiring", "draining"}
    /\ Goes(a, "failing")
    /\ UNCHANGED <<d, gate, turn, relay, call, proc, holds, watcher, closer, evictor>>

\* The relay is installed without looking at d.closed.
PrepareListens(a) ==
    /\ actor[a].pc = "listening"
    /\ relay' = [relay EXCEPT ![a] = "open"]
    /\ d' = [d EXCEPT !.relay = a]
    /\ Goes(a, "acquiring")
    /\ UNCHANGED <<gate, turn, call, proc, holds, watcher, closer, evictor>>

\* Acquire or acp.Start, and session/new on the process.
PrepareAcquires(a) ==
    /\ actor[a].pc = "acquiring"
    /\ proc' = [proc EXCEPT ![a] = "up"]
    /\ actor' = [actor EXCEPT ![a].pc = "draining", ![a].client = a]
    /\ UNCHANGED <<d, gate, turn, relay, call, holds, watcher, closer, evictor>>

\* The new client is published and, unless reused, watched.
PreparePublishes(a) ==
    /\ actor[a].pc = "draining"
    /\ ~d.closed
    /\ d' = [d EXCEPT !.client = actor[a].client, !.known = TRUE]
    /\ watcher' = IF actor[a].reused THEN watcher ELSE [watcher EXCEPT ![a].pc = "watching"]
    /\ Goes(a, IF a \in Refreshers THEN "refreshed" ELSE "starting")
    /\ UNCHANGED <<gate, turn, relay, call, proc, holds, closer, evictor>>

----------------------------------------------------------------------------
(* discardStart, for a failed setup or start.                              *)

\* The driver's relay is taken over, ...
DiscardTakes(a) ==
    /\ actor[a].pc = "failing"
    /\ actor' = [actor EXCEPT ![a].pc = "discarding", ![a].prevRelay = d.relay]
    /\ d' = [d EXCEPT !.relay = Nobody]
    /\ UNCHANGED <<gate, turn, relay, call, proc, holds, watcher, closer, evictor>>

\* ... it and the client are closed, ...
DiscardCloses(a) ==
    /\ actor[a].pc = "discarding"
    /\ closeRelay(actor[a].prevRelay)
    /\ release(actor[a].client)
    /\ \E failed \in MayFail : noteCleanup(failed)
    /\ Goes(a, "resetting")
    /\ UNCHANGED <<gate, turn, call, holds, watcher, closer, evictor>>

\* ... the driver is reset, ...
DiscardResets(a) ==
    /\ actor[a].pc = "resetting"
    /\ d' = [d EXCEPT !.client = Nobody, !.current = Nobody, !.snapshot = Nobody,
                      !.fresh = FALSE, !.state = IF d.closed THEN @ ELSE "unstarted"]
    /\ Goes(a, "discarded")
    /\ UNCHANGED <<gate, turn, relay, call, proc, holds, watcher, closer, evictor>>

\* ... and finishSetup lets Close go on.
DiscardEnds(a) ==
    /\ actor[a].pc = "discarded"
    /\ Ends(a)
    /\ Ungate(a)
    /\ UNCHANGED <<d, turn, relay, call, proc, holds, watcher, closer, evictor>>

----------------------------------------------------------------------------
(* The end of Start and of RefreshModels.                                  *)

\* A request that does not fit, a model that cannot be selected, a client that
\* failed, a closed driver, a cancelled context, or a broker that is gone.
StartFails(a) ==
    /\ actor[a].pc \in {"starting", "refreshed"}
    /\ Goes(a, "failing")
    /\ UNCHANGED <<d, gate, turn, relay, call, proc, holds, watcher, closer, evictor>>

\* A mutant: a delta goes to a new session as well.
BaseAlways(c) == actor[c].base

\* What the prompt builds on: the delta goes to a reused session only.
Base(c) == IF actor[c].reused THEN actor[c].base ELSE Nobody

\* The broker's BeginTurn, and the turn is the driver's current one.
StartBegins(c) ==
    /\ actor[c].pc = "starting"
    /\ ~d.closed
    /\ relay[d.relay] = "open"
    /\ LET l == actor[c].client
       IN /\ turn' = [turn EXCEPT ![c] = [@ EXCEPT !.settle = "open", !.prompt = "running",
                                                  !.client = l, !.relay = d.relay,
                                                  !.base = Base(c), !.count = actor[c].count]]
          /\ holds' = [holds EXCEPT ![l] = c]
          /\ d' = [d EXCEPT !.client = l, !.current = c, !.outcome = Nobody,
                            !.state = "prompting", !.fresh = FALSE]
    /\ GetsRound(c, c)
    /\ gate' = Nobody
    /\ UNCHANGED <<relay, call, proc, watcher, closer, evictor>>

ModelsEnds(r) ==
    /\ actor[r].pc = "refreshed"
    /\ ~d.closed
    /\ d' = [d EXCEPT !.state = "idle", !.fresh = TRUE]
    /\ Ends(r)
    /\ UNCHANGED <<gate, turn, relay, call, proc, holds, watcher, closer, evictor>>

----------------------------------------------------------------------------
(* The round: one HTTP response.                                           *)

\* The turn is still the driver's and generating.
Owns(t) == ~d.closed /\ d.current = t /\ d.state = "prompting"

\* Next seals the queued calls; the batch is exposed from here on.
NextSeals(c) ==
    /\ actor[c].pc = "round"
    /\ actor[c].batch = 0
    /\ LET t == actor[c].turn
       IN /\ Owns(t)
          /\ relay[turn[t].relay] = "open"
          /\ call[turn[t].relay] = "queued"
          /\ call' = [call EXCEPT ![turn[t].relay] = "sealed"]
          /\ turn' = [turn EXCEPT ![t].batches = @ + 1, ![t].ids = turn[t].batches + 1]
          /\ actor' = [actor EXCEPT ![c].batch = turn[t].batches + 1]
    /\ UNCHANGED <<d, gate, relay, proc, holds, watcher, closer, evictor>>

\* Next returns the End event: after a batch, or when the prompt has returned and
\* no call is pending.
NextEnds(c) ==
    /\ actor[c].pc = "round"
    /\ LET t == actor[c].turn
       IN /\ \/ actor[c].batch # 0
             \/ turn[t].prompt = "ok" /\ call[turn[t].relay] = "none"
          /\ Owns(t)
          /\ turn' = [turn EXCEPT ![t].delivery = "open"]
    /\ Goes(c, "ended")
    /\ UNCHANGED <<d, gate, relay, call, proc, holds, watcher, closer, evictor>>

\* Cancel: Next failed, the client is gone, or the response could not be written.
RoundCancels(c) ==
    /\ actor[c].pc \in {"round", "ended"}
    /\ turn' = aborted(actor[c].turn)
    /\ Goes(c, "settling")
    /\ UNCHANGED <<d, gate, relay, call, proc, holds, watcher, closer, evictor>>

\* Finish of a final response.
FinishCompletes(c) ==
    /\ actor[c].pc = "ended"
    /\ actor[c].batch = 0
    /\ turn' = [turn EXCEPT ![actor[c].turn].settle = IF @ = "open" THEN "completing" ELSE @]
    /\ Goes(c, "settling")
    /\ UNCHANGED <<d, gate, relay, call, proc, holds, watcher, closer, evictor>>

\* Finish of a tool handoff, of the driver's current turn.
FinishHandsOff(c) ==
    /\ actor[c].pc = "ended"
    /\ actor[c].batch # 0
    /\ LET t == actor[c].turn
           taken == relay[turn[t].relay] = "open" /\ call[turn[t].relay] = "sealed"
       IN /\ d.current = t /\ ~d.closed
          /\ d' = [d EXCEPT !.state = "waiting"]
          /\ IF taken
             THEN /\ call' = [call EXCEPT ![turn[t].relay] = "delivered"]
                  /\ turn' = [turn EXCEPT ![t].delivery = Delivered(@)]
                  /\ Ends(c)
             ELSE /\ turn' = aborted(t)
                  /\ Goes(c, "settling")
                  /\ UNCHANGED call
    /\ UNCHANGED <<gate, relay, proc, holds, watcher, closer, evictor>>

\* ... or of a turn that the driver has given up.
FinishTooLate(c) ==
    /\ actor[c].pc = "ended"
    /\ actor[c].batch # 0
    /\ d.current # actor[c].turn \/ d.closed
    /\ turn' = aborted(actor[c].turn)
    /\ Goes(c, "settling")
    /\ UNCHANGED <<d, gate, relay, call, proc, holds, watcher, closer, evictor>>

RoundOver(c) ==
    /\ actor[c].pc = "settling"
    /\ Settled(actor[c].turn)
    /\ Ends(c)
    /\ UNCHANGED <<d, gate, turn, relay, call, proc, holds, watcher, closer, evictor>>

----------------------------------------------------------------------------
(* The prompt, and what can go wrong under it.                             *)

\* Kiro calls a client tool.
ToolCall(t) ==
    /\ turn[t].prompt = "running"
    /\ relay[turn[t].relay] = "open"
    /\ call[turn[t].relay] = "none"
    /\ turn[t].batches < MaxBatches
    /\ call' = [call EXCEPT ![turn[t].relay] = "queued"]
    /\ UNCHANGED <<d, gate, actor, turn, relay, proc, holds, watcher, closer, evictor>>

\* session/prompt returns a result, perhaps one that arrived just before the process
\* died; EndTurn accepts it when no call is unfinished,
\* and retires the relay otherwise.
PromptReturns(t) ==
    /\ turn[t].prompt = "running"
    /\ LET r == turn[t].relay
           clean == relay[r] = "open" /\ call[r] = "none"
       IN /\ turn' = [turn EXCEPT ![t].prompt = IF clean THEN "ok" ELSE "failed"]
          /\ relay' = [relay EXCEPT ![r] = IF @ = "open" /\ ~clean THEN "failed" ELSE @]
    /\ UNCHANGED <<d, gate, actor, call, proc, holds, watcher, closer, evictor>>

\* It returns an error: the backend's, the lost client's or the owned context's.
PromptFails(t) ==
    /\ turn[t].prompt = "running"
    /\ turn' = [turn EXCEPT ![t].prompt = "failed"]
    /\ UNCHANGED <<d, gate, actor, relay, call, proc, holds, watcher, closer, evictor>>

PromptAborts(t) ==
    /\ turn[t].prompt = "failed"
    /\ turn[t].settle = "open"
    /\ turn' = aborted(t)
    /\ UNCHANGED <<d, gate, actor, relay, call, proc, holds, watcher, closer, evictor>>

\* The turn's deadline passes.
Expires(t) ==
    /\ "deadline" \in Faults
    /\ turn[t].settle = "open"
    /\ ~turn[t].expired
    /\ turn' = [turn EXCEPT ![t].expired = TRUE]
    /\ UNCHANGED <<d, gate, actor, relay, call, proc, holds, watcher, closer, evictor>>

\* A mutant: the watch ends with the deadline only.
WatchAbortsExpired(t) ==
    /\ turn[t].settle = "open"
    /\ turn[t].expired
    /\ turn' = aborted(t)
    /\ UNCHANGED <<d, gate, actor, relay, call, proc, holds, watcher, closer, evictor>>

\* turn.watch: the deadline, or the end of the relay.
WatchAborts(t) ==
    /\ turn[t].settle = "open"
    /\ turn[t].expired \/ relay[turn[t].relay] # "open"
    /\ turn' = aborted(t)
    /\ UNCHANGED <<d, gate, actor, relay, call, proc, holds, watcher, closer, evictor>>

\* The broker fails: a tool deadline, a disconnect, an overflow.
RelayFails(l) ==
    /\ "relay" \in Faults
    /\ relay[l] = "open"
    /\ relay' = [relay EXCEPT ![l] = "failed"]
    /\ UNCHANGED <<d, gate, actor, turn, call, proc, holds, watcher, closer, evictor>>

\* The process dies, or the pool retires it.
ProcessDies(l) ==
    /\ "process" \in Faults
    /\ proc[l] = "up"
    /\ proc' = [proc EXCEPT ![l] = "dead"]
    /\ UNCHANGED <<d, gate, actor, turn, relay, call, holds, watcher, closer, evictor>>

----------------------------------------------------------------------------
(* watchIdleProcess.                                                       *)

\* client.Done: the current turn is read if the client is still the driver's.
WatcherWakes(l) ==
    /\ watcher[l].pc = "watching"
    /\ proc[l] # "up"
    /\ LET t == IF d.client = l THEN d.current ELSE Nobody
       IN /\ watcher' = [watcher EXCEPT ![l].pc = "aborting", ![l].current = t]
          /\ turn' = IF t = Nobody THEN turn ELSE aborted(t)
    /\ UNCHANGED <<d, gate, actor, relay, call, proc, holds, closer, evictor>>

\* A mutant: any session that is not generating loses its client.
WatcherClearsAny(l) ==
    /\ watcher[l].pc = "aborting"
    /\ Settled(watcher[l].current)
    /\ IF d.state = "idle"
       THEN /\ d' = [d EXCEPT !.client = Nobody, !.relay = Nobody, !.snapshot = Nobody,
                              !.fresh = FALSE, !.state = "unstarted"]
            /\ watcher' = [watcher EXCEPT ![l].pc = "closing"]
       ELSE /\ watcher' = [watcher EXCEPT ![l].pc = "done"]
            /\ UNCHANGED d
    /\ UNCHANGED <<gate, actor, turn, relay, call, proc, holds, closer, evictor>>

\* An idle session loses its client and its history.
WatcherClears(l) ==
    /\ watcher[l].pc = "aborting"
    /\ Settled(watcher[l].current)
    /\ IF d.client = l /\ d.state = "idle"
       THEN /\ d' = [d EXCEPT !.client = Nobody, !.relay = Nobody, !.snapshot = Nobody,
                              !.fresh = FALSE, !.state = "unstarted"]
            /\ watcher' = [watcher EXCEPT ![l].pc = "closing", ![l].relay = d.relay]
       ELSE /\ watcher' = [watcher EXCEPT ![l].pc = "done"]
            /\ UNCHANGED d
    /\ UNCHANGED <<gate, actor, turn, relay, call, proc, holds, closer, evictor>>

WatcherCloses(l) ==
    /\ watcher[l].pc = "closing"
    /\ closeRelay(watcher[l].relay)
    /\ \E failed \in MayFail : noteCleanup(failed)
    /\ watcher' = [watcher EXCEPT ![l].pc = "done"]
    /\ UNCHANGED <<gate, actor, turn, call, proc, holds, closer, evictor>>

----------------------------------------------------------------------------
(* Close and CloseIdle.                                                    *)

\* Close takes over what the driver owns and aborts the current turn, ...
CloseBegins ==
    /\ "close" \in Faults
    /\ closer.pc = "no"
    /\ closer' = [pc |-> "aborting", setup |-> d.setup, current |-> d.current,
                  client |-> d.client, relay |-> d.relay]
    /\ d' = [d EXCEPT !.closed = TRUE, !.state = "closed"]
    /\ turn' = IF d.current = Nobody THEN turn ELSE aborted(d.current)
    /\ UNCHANGED <<gate, actor, relay, call, proc, holds, watcher, evictor>>

\* ... closes the process, which Finish may have spared, and the relay, ...
CloseReleases ==
    /\ closer.pc = "aborting"
    /\ Settled(closer.current)
    /\ release(closer.client)
    /\ closeRelay(closer.relay)
    /\ \E failed \in MayFail : noteCleanup(failed)
    /\ closer' = [closer EXCEPT !.pc = "joining"]
    /\ UNCHANGED <<gate, actor, turn, call, holds, watcher, evictor>>

\* The watches of the processes have ended.
Unwatched == \A l \in Launches : watcher[l].pc \in {"off", "done"}

\* ... and waits for the setup, for CloseIdle and for the watches.
CloseReturns ==
    /\ closer.pc = "joining"
    /\ closer.setup # Nobody => ~actor[closer.setup].setup
    /\ evictor.pc \in {"no", "done"}
    /\ Unwatched
    /\ closer' = [closer EXCEPT !.pc = "done"]
    /\ UNCHANGED <<d, gate, actor, turn, relay, call, proc, holds, watcher, evictor>>

\* CloseIdle refuses a session that is starting or has a turn.
EvictBegins ==
    /\ "evict" \in Faults
    /\ evictor.pc = "no"
    /\ ~d.closed
    /\ d.state \in {"idle", "unstarted"}
    /\ evictor' = [pc |-> "closing", client |-> d.client, relay |-> d.relay]
    /\ d' = [d EXCEPT !.closed = TRUE, !.state = "closed", !.client = Nobody, !.relay = Nobody]
    /\ UNCHANGED <<gate, actor, turn, relay, call, proc, holds, watcher, closer>>

EvictReleases ==
    /\ evictor.pc = "closing"
    /\ closeRelay(evictor.relay)
    /\ release(evictor.client)
    /\ \E failed \in MayFail : noteCleanup(failed)
    /\ evictor' = [evictor EXCEPT !.pc = "joining"]
    /\ UNCHANGED <<gate, actor, turn, call, holds, watcher, closer>>

EvictReturns ==
    /\ evictor.pc = "joining"
    /\ Unwatched
    /\ evictor' = [evictor EXCEPT !.pc = "done"]
    /\ UNCHANGED <<d, gate, actor, turn, relay, call, proc, holds, watcher, closer>>

----------------------------------------------------------------------------
TurnStep(t) ==
    \/ AbortClosesRelay(t) \/ AbortClosesClient(t) \/ AbortSettles(t) \/ CompleteSettles(t)

PrepareStep(a) ==
    \/ PrepareRefused(a) \/ PrepareReuses(a) \/ PrepareWakes(a) \/ PrepareReplaces(a)
    \/ PrepareRetiresOld(a) \/ PrepareFails(a) \/ PrepareListens(a) \/ PrepareAcquires(a)
    \/ PreparePublishes(a) \/ StartFails(a)
    \/ DiscardTakes(a) \/ DiscardCloses(a) \/ DiscardResets(a) \/ DiscardEnds(a)

StartStep(c) ==
    \/ Leaves(c) \/ StartReadsDelivery(c) \/ StartAwaited(c) \/ StartChecksBusy(c)
    \/ StartOrdinary(c) \/ StartResumes(c) \/ StartToldOutcome(c) \/ StartFindsExpired(c)
    \/ StartAbandons(c) \/ StartDenies(c) \/ StartRetired(c) \/ StartPlans(c) \/ StartBegins(c)

HandlerStep(c) ==
    \/ NextSeals(c) \/ NextEnds(c) \/ RoundCancels(c) \/ FinishCompletes(c)
    \/ FinishHandsOff(c) \/ FinishTooLate(c) \/ RoundOver(c)

PromptStep(t) ==
    \/ ToolCall(t) \/ PromptReturns(t) \/ PromptFails(t) \/ PromptAborts(t)
    \/ Expires(t) \/ WatchAborts(t)

WatcherStep(l) == WatcherWakes(l) \/ WatcherClears(l) \/ WatcherCloses(l)

CloseStep == CloseReleases \/ CloseReturns \/ EvictReleases \/ EvictReturns

Next ==
    \/ \E c \in Callers : \/ StartEnters(c) \/ StartBusy(c) \/ StartGivesUp(c) \/ StartStep(c)
                          \/ HandlerStep(c) \/ TurnStep(c) \/ PromptStep(c)
    \/ \E r \in Refreshers : ModelsEnters(r) \/ ModelsEnds(r)
    \/ \E a \in Actors : PrepareStep(a)
    \/ \E l \in Launches : WatcherStep(l) \/ RelayFails(l) \/ ProcessDies(l)
    \/ CloseBegins \/ EvictBegins \/ CloseStep

\* The Call of session/prompt returns once its context is cancelled or its client is
\* gone.
PromptCut(t) ==
    /\ PromptFails(t)
    /\ turn[t].settle # "open" \/ turn[t].expired \/ proc[turn[t].client] # "up"

\* What happens by itself, without the client, the backend or a timer.
OwnStep ==
    \/ \E c \in Callers : \/ StartStep(c) \/ HandlerStep(c) \/ TurnStep(c)
                          \/ PromptCut(c) \/ PromptAborts(c) \/ WatchAborts(c)
    \/ \E a \in Actors : PrepareStep(a)
    \/ \E r \in Refreshers : ModelsEnds(r)
    \/ \E l \in Launches : WatcherStep(l)
    \/ CloseStep

\* The guards of the steps of OwnStep that end a wait: of a Start or a setup that runs, or has what it
\* waits for, of the retirement of a turn, of a watch, of Close and of CloseIdle.
ActorAtWork(a) ==
    \/ actor[a].pc \notin {"outside", "over", "awaiting", "retiring", "settling"}
    \/ actor[a].pc = "awaiting" /\ turn[actor[a].turn].delivery = "closed"
    \/ actor[a].pc \in {"retiring", "settling"} /\ Settled(actor[a].turn)

TurnAtWork(t) ==
    \/ turn[t].settle \in {"relay", "client", "completing"}
    \/ turn[t].settle = "join" /\ turn[t].prompt \in {"ok", "failed"}
    \/ /\ turn[t].prompt = "running"
       /\ turn[t].settle # "open" \/ turn[t].expired \/ proc[turn[t].client] # "up"
    \/ /\ turn[t].settle = "open"
       /\ turn[t].prompt = "failed" \/ turn[t].expired \/ relay[turn[t].relay] # "open"

WatchAtWork(l) ==
    \/ watcher[l].pc = "watching" /\ proc[l] # "up"
    \/ watcher[l].pc = "aborting" /\ Settled(watcher[l].current)
    \/ watcher[l].pc = "closing"

CloseAtWork ==
    \/ closer.pc = "aborting" /\ Settled(closer.current)
    \/ /\ closer.pc = "joining" /\ Unwatched /\ evictor.pc \in {"no", "done"}
       /\ closer.setup # Nobody => ~actor[closer.setup].setup
    \/ evictor.pc = "closing"
    \/ evictor.pc = "joining" /\ Unwatched

AtWork ==
    \/ \E a \in Actors : ActorAtWork(a)
    \/ \E t \in Callers : TurnAtWork(t)
    \/ \E l \in Launches : WatchAtWork(l)
    \/ CloseAtWork

Spec == Init /\ [][Next]_vars

\* Goroutines run; setup calls end with the setup timeout; a handler ends its round,
\* at the latest when the deadline of the turn ends Next.
Fairness ==
    /\ \A c \in Callers : /\ WF_vars(StartStep(c)) /\ WF_vars(HandlerStep(c))
                          /\ WF_vars(TurnStep(c)) /\ WF_vars(PromptCut(c))
                          /\ WF_vars(PromptAborts(c)) /\ WF_vars(WatchAborts(c))
    /\ \A a \in Actors : WF_vars(PrepareStep(a))
    /\ \A r \in Refreshers : WF_vars(ModelsEnds(r))
    /\ \A l \in Launches : WF_vars(WatcherStep(l))
    /\ WF_vars(CloseReleases \/ CloseReturns) /\ WF_vars(EvictReleases \/ EvictReturns)

FairSpec == Spec /\ Fairness

----------------------------------------------------------------------------
(* Properties.                                                             *)

\* The driver serves one turn: at most one prompt of the session runs, since a fresh prompt waits
\* until the retirement of the old one is joined, and while the driver is open the current turn
\* agrees with its state: a late Finish of an older turn cannot replace the new owner.
OneTurn ==
    /\ Cardinality({t \in Callers : turn[t].prompt = "running"}) <= 1
    /\ ~d.closed => /\ d.current # Nobody <=> d.state \in {"prompting", "waiting"}
                    /\ d.state = "waiting" => turn[d.current].ids # 0

\* The launches that someone will retire: the driver's own, those a setup, an abort,
\* Close or CloseIdle has in hand.
Preparing == {a \in Actors : actor[a].pc \in {"reusing", "retiringOld"}}
Setting == {a \in Actors : actor[a].pc \in {"draining", "starting", "refreshed", "failing",
                                            "discarding"}}
Aborting == {t \in Callers : turn[t].settle \in {"open", "relay", "client"}}
OwnedProcs ==
    {d.client} \cup {actor[a].prev : a \in Preparing} \cup {actor[a].client : a \in Setting}
      \cup {turn[t].client : t \in Aborting}
      \cup (IF closer.pc = "aborting" THEN {closer.client} ELSE {})
      \cup (IF evictor.pc = "closing" THEN {evictor.client} ELSE {})
OwnedRelays ==
    {d.relay} \cup {actor[a].prevRelay : a \in Preparing}
      \cup {actor[a].prevRelay : a \in {b \in Actors : actor[b].pc = "discarding"}}
      \cup {turn[t].relay : t \in {u \in Aborting : turn[u].settle # "client"}}
      \cup {watcher[l].relay : l \in {k \in Launches : watcher[k].pc = "closing"}}
      \cup (IF closer.pc = "aborting" THEN {closer.relay} ELSE {})
      \cup (IF evictor.pc = "closing" THEN {evictor.relay} ELSE {})

\* No process and no relay is ever without an owner, however Start, the watches, Close
\* and CloseIdle interleave.
Owned ==
    \A l \in Launches : /\ proc[l] = "up" => l \in OwnedProcs
                        /\ relay[l] \in {"open", "failed"} => l \in OwnedRelays

\* When Close or CloseIdle has returned, no process, relay, prompt or watch is left,
\* also when a setup was under way.
CloseJoins ==
    closer.pc = "done" \/ evictor.pc = "done" =>
        /\ \A l \in Launches : proc[l] # "up" /\ relay[l] \notin {"open", "failed"}
        /\ \A t \in Callers : turn[t].prompt # "running"
        /\ Unwatched

\* A prompt goes to a backend session that holds exactly the history it builds on: a
\* delta to the session of the committed turn, a full history to an empty session.
PromptMatchesSession ==
    [][d'.current # d.current /\ d'.current # Nobody =>
         holds[d'.client] = turn'[d'.current].base]_vars

\* Results reach a suspended call only after the response that carried its batch was
\* confirmed delivered.
ResolvedAfterDelivery ==
    [][\A l \in Launches :
         call[l] # "none" /\ call'[l] = "none" =>
           /\ call[l] = "delivered"
           /\ \A t \in Callers : turn[t].relay = l => turn[t].delivery # "open"]_vars

\* A turn that has lost its process, its relay or its time.
Lost(t) == turn[t].expired \/ relay[turn[t].relay] # "open" \/ proc[turn[t].client] # "up"

\* Every Start has returned, every lost turn is retired, Close and CloseIdle have ended.
AtRest ==
    /\ \A a \in Actors : actor[a].pc \in {"outside", "over"}
    /\ \A t \in Callers : turn[t].settle = "open" => ~Lost(t)
    /\ closer.pc \in {"no", "done"} /\ evictor.pc \in {"no", "done"}

\* Nobody waits for nobody: when the driver can do nothing by itself it is at rest, also if a Start
\* waited for a delivery or for the retirement of the turn it replaces, whatever was under way when
\* the driver was closed.  It can do something whenever one of the guards in AtWork holds.
NobodyWaits == (AtWork => ENABLED OwnStep) /\ (~ENABLED OwnStep => AtRest)

\* A turn whose process, relay or deadline is lost is retired, also when it waits for
\* tools and no request is there to notice.
LossSettles ==
    \A t \in Callers : turn[t].settle = "open" /\ Lost(t) ~> turn[t].settle = "done"
=============================================================================
