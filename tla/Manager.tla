------------------------------ MODULE Manager ------------------------------
(***************************************************************************)
(* The session manager of internal/session/manager.go: a bounded map from  *)
(* conversation keys to bindings, each with a session driver of its own.   *)
(* Start finds or inserts the binding of its key, evicting expired and,    *)
(* at the limit, the oldest idle binding; the evicted drivers are closed   *)
(* after the lock is given up, by the Start or Prune that evicted them.    *)
(*                                                                         *)
(* A binding, and a driver, is named by the Start that created it.  A      *)
(* driver keeps the promises SessionDriver shows and is reduced to the     *)
(* state its State method tells: "unstarted", "idle", "busy" (Starting,    *)
(* Prompting or WaitingTools) or "closed".  Of the touched stamps only  *)
(* their order is kept: for each binding of the map, the ones that are     *)
(* older.                                                                  *)
(***************************************************************************)
EXTENDS Integers, FiniteSets

CONSTANTS Starts,       \* calls of Manager.Start
          Key,          \* the key of each, by Manager.key
          Prunes, Lists,\* calls of Manager.Prune and Manager.Models
          MaxSessions,
          Persistent,   \* a Start claims its key in the session store first
          OwnsPool,
          MaxFaults,    \* bound on the cleanups that fail
          Discovery,    \* the driver that lists models
          Pool, None

ASSUME CallsAssumption ==
    /\ \A S \in {Starts, Prunes, Lists} : IsFiniteSet(S)
    /\ Starts \cap Prunes = {} /\ Starts \cap Lists = {} /\ Prunes \cap Lists = {}
    /\ {Discovery, Pool, None} \cap (Starts \cup Prunes \cup Lists) = {}
    /\ Discovery # Pool /\ Discovery # None /\ Pool # None
ASSUME LimitAssumption ==
    /\ MaxSessions \in Nat \ {0} /\ MaxFaults \in Nat
    /\ Persistent \in BOOLEAN /\ OwnsPool \in BOOLEAN

Keys    == {Key[s] : s \in Starts}
Calls   == Starts \cup Prunes \cup Lists
Drivers == Starts \cup {Discovery}

VARIABLES
    pc,          \* where each call is
    bound,       \* e: the binding a Start found or inserted, or None
    expired,     \* the drivers a call has yet to close
    failed,      \* the calls whose closeExpired met an error
    turn,        \* the managedTurn of each Start: "none", "live", "touch" or "over"
    entries,     \* m.entries
    older,       \* for each binding of the map, the bindings of the map touched before it
    users, gate, driver,   \* each binding
    dstate,      \* the state of each driver, "none" before it exists
    closed, cancelled, cleanupErr,
    closing,     \* Manager.Close: "no", "waiting", "drivers", "pool", "done"
    closeSet, closeErr,
    pool,        \* "open" or "closed"
    broken       \* the drivers (or the pool) whose cleanup failed

callVars == <<pc, bound, expired, failed, turn>>
mapVars  == <<entries, older, users, gate, driver>>
endVars  == <<closed, cancelled, cleanupErr, closing, closeSet, closeErr, pool>>
vars     == <<callVars, mapVars, dstate, broken, endVars>>

Init ==
    /\ pc = [c \in Calls |-> "outside"]
    /\ bound = [s \in Starts |-> None]
    /\ expired = [c \in Starts \cup Prunes |-> {}]
    /\ failed = {}
    /\ turn = [s \in Starts |-> "none"]
    /\ entries = [k \in Keys |-> None]
    /\ older = [s \in Starts |-> {}]
    /\ users = [s \in Starts |-> 0]
    /\ gate = [s \in Starts |-> FALSE]
    /\ driver = [s \in Starts |-> None]
    /\ dstate = [d \in Drivers |-> IF d = Discovery THEN "unstarted" ELSE "none"]
    /\ closed = FALSE /\ cancelled = FALSE /\ cleanupErr = FALSE
    /\ closing = "no" /\ closeSet = {} /\ closeErr = FALSE
    /\ pool = "open" /\ broken = {}

Bindings == {entries[k] : k \in Keys} \ {None}
Rest == {"idle", "unstarted", "closed"}

\* A mutant: the state of the driver is not looked at.
idleBindingBusy(b) == users[b] = 0 /\ driver[b] # None

idleBinding(b) == users[b] = 0 /\ driver[b] # None /\ dstate[driver[b]] \in Rest

\* The bindings that are older than IdleTTL at some time.Now, and the idle ones of them.
Aged == {T \in SUBSET Bindings : \A b \in T : older[b] \subseteq T}
Stale(T) == {b \in T : idleBinding(b)}

Full(B) == Cardinality(B) >= MaxSessions

\* What remains of the map without the bindings in S.
Kept(S) == [k \in Keys |-> IF entries[k] \in S THEN None ELSE entries[k]]
Older(S) == [b \in Starts |-> IF b \in S THEN {} ELSE older[b] \ S]

\* The oldest idle binding of those in B, as a set.
Oldest(B) == {b \in B : idleBinding(b) /\ \A o \in older[b] \cap B : ~idleBinding(o)}

\* touch: a binding that has left the map keeps a stamp nobody reads.
Touched(b) == IF b \in Bindings THEN [Older({b}) EXCEPT ![b] = Bindings \ {b}] ELSE older

----------------------------------------------------------------------------
(* Start.                                                                  *)

Refuses == closed \/ cleanupErr

Goto(c, label) == pc' = [pc EXCEPT ![c] = label]

\* A step of a call that changes nothing else.
Move(c, from, to) ==
    /\ pc[c] = from
    /\ Goto(c, to)
    /\ UNCHANGED <<bound, expired, failed, turn, mapVars, dstate, broken, endVars>>

\* Start, prune and find, evict and insert: one critical section of m.mu.
Admit(s, T) ==
    LET stale == Stale(T)
        found == Kept(stale)[Key[s]]
        rest  == Bindings \ stale
        out   == stale \cup (IF found = None /\ Full(rest) THEN Oldest(rest) ELSE {})
        e     == IF found # None THEN found ELSE IF Full(Bindings \ out) THEN None ELSE s
    IN /\ pc[s] = "outside" /\ ~Refuses
       /\ Goto(s, "closing")
       /\ expired' = [expired EXCEPT ![s] = {driver[b] : b \in out}]
       /\ bound' = [bound EXCEPT ![s] = e]
       /\ entries' = IF e = s THEN [Kept(out) EXCEPT ![Key[s]] = s] ELSE Kept(out)
       /\ older' = IF e = s THEN [Older(out) EXCEPT ![s] = Bindings \ out] ELSE Older(out)
       /\ users' = IF e = None THEN users ELSE [users EXCEPT ![e] = @ + 1]
       /\ UNCHANGED <<failed, turn, gate, driver, dstate, broken, endVars>>

Reject(c) == Refuses /\ Move(c, "outside", "done")

\* A cleanup of d fails, or not.
Cleanup(d, fault) ==
    /\ fault => Cardinality(broken) < MaxFaults
    /\ broken' = IF fault THEN broken \cup {d} ELSE broken

\* closeExpired's loop: Driver.CloseIdle.
CloseIdle(c, d, fault) ==
    /\ pc[c] = "closing" /\ d \in expired[c]
    /\ expired' = [expired EXCEPT ![c] = @ \ {d}]
    /\ IF dstate[d] = "busy"
       THEN ~fault /\ failed' = failed \cup {c} /\ UNCHANGED <<dstate, broken>>
       ELSE /\ Cleanup(d, fault)
            /\ failed' = IF fault THEN failed \cup {c} ELSE failed
            /\ dstate' = [dstate EXCEPT ![d] = "closed"]
    /\ UNCHANGED <<pc, bound, turn, mapVars, endVars>>

\* The end of closeExpired, and what Start and Prune do with its result.
ExpiredClosed(c) ==
    /\ pc[c] = "closing" /\ expired[c] = {}
    /\ cleanupErr' = (cleanupErr \/ c \in failed)
    /\ cancelled' = (cancelled \/ c \in failed)
    /\ pc' = [pc EXCEPT ![c] = IF c \in Prunes THEN "pooling"
                               ELSE IF bound[c] = None THEN "out"
                               ELSE IF cleanupErr' THEN "unuse" ELSE "gate"]
    /\ UNCHANGED <<bound, expired, failed, turn, mapVars, dstate, broken, closed, closing,
                   closeSet, closeErr, pool>>

\* A mutant: the gate admits everyone.
TryGateOpen(s) ==
    /\ pc[s] = "gate"
    /\ Goto(s, "holding")
    /\ gate' = [gate EXCEPT ![bound[s]] = TRUE]
    /\ UNCHANGED <<bound, expired, failed, turn, entries, older, users, driver, dstate, broken, endVars>>

\* The gate admits one Start of a binding; another is told ErrBusy.
TryGate(s) ==
    /\ pc[s] = "gate"
    /\ Goto(s, IF gate[bound[s]] THEN "unuse" ELSE "holding")
    /\ gate' = [gate EXCEPT ![bound[s]] = TRUE]
    /\ UNCHANGED <<bound, expired, failed, turn, entries, older, users, driver, dstate, broken, endVars>>

\* The driver of a binding is created by the first Start that holds its gate: e.driver
\* is read without the lock, and set under it when the driver is there.
LookForDriver(s) == Move(s, "holding", IF driver[bound[s]] = None THEN "creating" ELSE "calling")

Create(s) ==
    /\ pc[s] = "creating"
    /\ Goto(s, "calling")
    /\ driver' = [driver EXCEPT ![bound[s]] = s]
    /\ dstate' = [dstate EXCEPT ![s] = "unstarted"]
    /\ UNCHANGED <<bound, expired, failed, turn, entries, older, users, gate, broken, endVars>>

\* Persistence.Claim fails: another owner holds the slot of this key.
ClaimRefused(s) == Persistent /\ Move(s, "creating", "release")

Held(s) == driver[bound[s]]

\* driver.Start takes the driver over: a new turn, or the continuation of a turn
\* that waits for tools.
DriverStarts(s) ==
    /\ pc[s] = "calling" /\ dstate[Held(s)] \in {"idle", "unstarted", "busy"}
    /\ Goto(s, "starting")
    /\ dstate' = [dstate EXCEPT ![Held(s)] = "busy"]
    /\ UNCHANGED <<bound, expired, failed, turn, mapVars, broken, endVars>>

\* driver.Start refuses: it is busy or closed, the request is bad, or its context is
\* cancelled.
DriverRefuses(s) == Move(s, "calling", "touching")

DriverFails(s, state) ==
    /\ pc[s] = "starting"
    /\ Goto(s, "touching")
    /\ dstate' = [dstate EXCEPT ![Held(s)] = state]
    /\ UNCHANGED <<bound, expired, failed, turn, mapVars, broken, endVars>>

DriverReturns(s) ==
    /\ pc[s] = "starting"
    /\ Goto(s, "release")
    /\ turn' = [turn EXCEPT ![s] = "live"]
    /\ UNCHANGED <<bound, expired, failed, mapVars, dstate, broken, endVars>>

TouchFailed(s) ==
    /\ pc[s] = "touching"
    /\ Goto(s, "release")
    /\ older' = Touched(bound[s])
    /\ UNCHANGED <<bound, expired, failed, turn, entries, users, gate, driver, dstate, broken, endVars>>

\* The deferred calls of Start, in their order: the gate, the users, the wait group.
ReleaseGate(s) ==
    /\ pc[s] = "release"
    /\ Goto(s, "unuse")
    /\ gate' = [gate EXCEPT ![bound[s]] = FALSE]
    /\ UNCHANGED <<bound, expired, failed, turn, entries, older, users, driver, dstate, broken, endVars>>

Unuse(s) ==
    /\ pc[s] = "unuse"
    /\ Goto(s, "out")
    /\ users' = [users EXCEPT ![bound[s]] = @ - 1]
    /\ UNCHANGED <<bound, expired, failed, turn, entries, older, gate, driver, dstate, broken, endVars>>

Done(c) == Move(c, "out", "done")

----------------------------------------------------------------------------
(* The turn that Start returned, and the driver on its own.                *)

\* A Start is inside the driver.
Entered(d) == \E s \in Starts : pc[s] = "starting" /\ Held(s) = d

\* Finish or Cancel of the managedTurn, before it touches the binding.  The driver
\* may go on: it waits for tools, or another Start has continued the turn.
FinishTurn(s, state) ==
    /\ turn[s] = "live" /\ pc[s] = "done"
    /\ turn' = [turn EXCEPT ![s] = "touch"]
    /\ \/ state = dstate[Held(s)]
       \/ dstate[Held(s)] = "busy" /\ state \in {"idle", "unstarted"} /\ ~Entered(Held(s))
    /\ dstate' = [dstate EXCEPT ![Held(s)] = state]
    /\ UNCHANGED <<pc, bound, expired, failed, mapVars, broken, endVars>>

TouchTurn(s) ==
    /\ turn[s] = "touch"
    /\ turn' = [turn EXCEPT ![s] = "over"]
    /\ older' = Touched(bound[s])
    /\ UNCHANGED <<pc, bound, expired, failed, entries, users, gate, driver, dstate, broken, endVars>>

\* A deadline, a lost process, or the delivery of a final answer ends what the driver
\* does; an idle one loses its process.
DriverSettles(d, state) ==
    /\ dstate[d] \in {"busy", "idle"} /\ state # dstate[d]
    /\ ~Entered(d)
    /\ dstate' = [dstate EXCEPT ![d] = state]
    /\ UNCHANGED <<callVars, mapVars, broken, endVars>>

----------------------------------------------------------------------------
(* Prune, Models and Close.                                                *)

BeginPrune(c, T) ==
    /\ pc[c] = "outside" /\ ~Refuses
    /\ Goto(c, "closing")
    /\ expired' = [expired EXCEPT ![c] = {driver[b] : b \in Stale(T)}]
    /\ entries' = Kept(Stale(T))
    /\ older' = Older(Stale(T))
    /\ UNCHANGED <<bound, failed, turn, users, gate, driver, dstate, broken, endVars>>

PrunePool(c) == Move(c, "pooling", "out")

BeginModels(c) == ~Refuses /\ Move(c, "outside", "discovering")

EndModels(c) == Move(c, "discovering", "out")

\* Close: no call begins any more, and those under way are cancelled.
BeginClose ==
    /\ closing = "no"
    /\ closing' = "waiting" /\ closed' = TRUE /\ cancelled' = TRUE
    /\ UNCHANGED <<callVars, mapVars, dstate, broken, cleanupErr, closeSet, closeErr, pool>>

\* A mutant: Prune does not take part in the wait group.
StartsOutOnly == {c \in Starts \cup Lists : pc[c] \notin {"outside", "done"}}

\* m.starts: the calls that were counted and have not ended.
StartsOut == {c \in Calls : pc[c] \notin {"outside", "done"}}

\* starts.Wait returns, and Close takes what is in the map.
Collect ==
    /\ closing = "waiting" /\ StartsOut = {}
    /\ closing' = "drivers"
    /\ closeErr' = cleanupErr
    /\ closeSet' = {driver[b] : b \in Bindings} \ {None}
    /\ entries' = [k \in Keys |-> None]
    /\ older' = [s \in Starts |-> {}]
    /\ UNCHANGED <<callVars, users, gate, driver, dstate, broken, closed, cancelled, cleanupErr, pool>>

\* Driver.Close, whatever the driver is doing.
CloseDriver(d, fault) ==
    /\ closing = "drivers" /\ d \in closeSet
    /\ closeSet' = closeSet \ {d}
    /\ Cleanup(d, fault)
    /\ closeErr' = (closeErr \/ fault)
    /\ dstate' = [dstate EXCEPT ![d] = "closed"]
    /\ UNCHANGED <<callVars, mapVars, closed, cancelled, cleanupErr, closing, pool>>

CloseDiscovery(fault) ==
    /\ closing = "drivers" /\ closeSet = {}
    /\ closing' = IF OwnsPool THEN "pool" ELSE "done"
    /\ Cleanup(Discovery, fault)
    /\ closeErr' = (closeErr \/ fault)
    /\ dstate' = [dstate EXCEPT ![Discovery] = "closed"]
    /\ UNCHANGED <<callVars, mapVars, closed, cancelled, cleanupErr, closeSet, pool>>

ClosePool(fault) ==
    /\ closing = "pool"
    /\ closing' = "done" /\ pool' = "closed"
    /\ Cleanup(Pool, fault)
    /\ closeErr' = (closeErr \/ fault)
    /\ UNCHANGED <<callVars, mapVars, dstate, closed, cancelled, cleanupErr, closeSet>>

----------------------------------------------------------------------------

\* What the goroutine of a call does next, outside the driver.
Step(c) ==
    \/ c \notin Lists /\ \E d \in Starts, fault \in BOOLEAN : CloseIdle(c, d, fault)
    \/ c \notin Lists /\ ExpiredClosed(c)
    \/ c \in Starts /\ (TryGate(c) \/ LookForDriver(c) \/ Create(c) \/ ClaimRefused(c))
    \/ c \in Starts /\ (DriverReturns(c) \/ \E state \in {"idle", "unstarted"} : DriverFails(c, state))
    \/ c \in Starts /\ (TouchFailed(c) \/ ReleaseGate(c) \/ Unuse(c))
    \/ PrunePool(c)
    \/ EndModels(c)
    \/ Done(c)

Call(s) == DriverStarts(s) \/ DriverRefuses(s)

Arrive ==
    \/ \E c \in Calls : Reject(c)
    \/ \E s \in Starts, T \in Aged : Admit(s, T)
    \/ \E c \in Prunes, T \in Aged : BeginPrune(c, T)
    \/ \E c \in Lists : BeginModels(c)
    \/ BeginClose

CloseStep ==
    \/ Collect
    \/ \E fault \in BOOLEAN :
          CloseDiscovery(fault) \/ ClosePool(fault) \/ \E d \in Starts : CloseDriver(d, fault)

Driven ==
    \/ \E s \in Starts, state \in {"idle", "unstarted", "busy", "closed"} : FinishTurn(s, state)
    \/ \E s \in Starts : TouchTurn(s)
    \/ \E d \in Starts, state \in {"idle", "unstarted"} : DriverSettles(d, state)

\* Every call is over and Close has returned; any other state without a step is a
\* deadlock.
Ended ==
    /\ closing = "done" /\ \A c \in Calls : pc[c] = "done"
    /\ \A s \in Starts : turn[s] \in {"none", "over"}
    /\ UNCHANGED vars

Next ==
    \/ Arrive \/ CloseStep \/ Driven \/ Ended
    \/ \E c \in Calls : Step(c)
    \/ \E s \in Starts : Call(s)

Spec == Init /\ [][Next]_vars

----------------------------------------------------------------------------
(* Properties.                                                             *)

\* A driver chosen for eviction is at rest until it is closed: CloseIdle, which runs without the
\* manager's lock, never meets one that has become busy, and so the manager stops serving only after
\* a cleanup that really failed.
EvictedRest ==
    \A c \in Starts \cup Prunes : \A d \in expired[c] :
        /\ dstate[d] \in Rest
        /\ \A s \in Starts : pc[s] \in {"holding", "creating", "calling", "starting"} => Held(s) # d
        /\ cleanupErr \/ failed # {} => broken # {}

\* The map holds at most MaxSessions bindings, and every open driver has exactly one
\* owner that will close it: the map, the call that evicted it, or Close.
DriverOwned ==
    /\ Cardinality(Bindings) <= MaxSessions
    /\ \A d \in Starts :
        dstate[d] \in {"unstarted", "idle", "busy"} =>
            Cardinality({b \in Bindings : driver[b] = d})
              + Cardinality({c \in Starts \cup Prunes : d \in expired[c]})
              + (IF d \in closeSet THEN 1 ELSE 0) = 1

\* When Close returns no call is under way and every driver is closed, the evicted ones included; no
\* call uses the pool or the discovery driver after they were closed.  Close reports a failed cleanup,
\* also that of a driver evicted long before or while Close was waiting, and nothing else.
CloseOrder ==
    /\ closing \in {"pool", "done"} =>
          StartsOut = {} /\ \A d \in Drivers : dstate[d] \in {"none", "closed"}
    /\ pool = "closed" => \A c \in Calls : pc[c] # "pooling"
    /\ dstate[Discovery] = "closed" => \A c \in Calls : pc[c] # "discovering"
    /\ closing = "done" => (closeErr <=> broken # {})
=============================================================================
