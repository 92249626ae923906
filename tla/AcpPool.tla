------------------------------ MODULE AcpPool ------------------------------
(***************************************************************************)
(* The process pool of internal/acppool/pool.go: a bounded set of Kiro     *)
(* process groups, each shared by a few sessions.  A user acquires a lease *)
(* on a group, marks it idle between turns, and releases or closes it.     *)
(* Groups are retired for a failure, by their user, by idle pruning, to    *)
(* make room, or by Pool.Close; a retired group stays in the pool until    *)
(* its process, its router and its launch artifacts are cleaned up.        *)
(*                                                                         *)
(* A user is one invocation of Acquire and the lease it returns.  Routing  *)
(* of notifications inside a group is the subject of AcpRouter; here any   *)
(* failure it can raise is GroupFails.  The idle groups are kept in the    *)
(* order of their idleAt stamps, so "expired" is a prefix of that order.   *)
(***************************************************************************)
EXTENDS Integers, Sequences, FiniteSets, Functions

CONSTANTS Users,               \* invocations of Acquire or AcquirePrepared
          Asks,                \* what they may ask for: functions from Users to a scope and
                               \* whether it is a launch of their own (AcquirePrepared)
          Groups,              \* the groups that may be launched: a bound
          MaxProcesses, SessionsPerProcess, MaxIdle,
          NoGroup

ASSUME UsersAssumption == IsFiniteSet(Users) /\ \A a \in Asks : DOMAIN a = Users /\ \A u \in Users : a[u].prepared \in BOOLEAN
ASSUME GroupsAssumption == IsFiniteSet(Groups) /\ NoGroup \notin Groups
ASSUME LimitAssumption == /\ MaxProcesses \in Nat \ {0}
                          /\ SessionsPerProcess \in Nat \ {0}
                          /\ MaxIdle \in 1..MaxProcesses

VARIABLES
    \* each user
    ask,         \* what it asks for
    pc,          \* where its goroutine is
    lease,       \* the group of its lease, or of the one it waits for
    idleLease,   \* l.idle
    ended,       \* l.done is closed
    \* each group
    gerr,        \* g.err
    process,     \* of g.client: "none" before the launch and when it is reaped, "up", "broken", or
                 \* "left" when Close failed and it may still run
    router,      \* the goroutine route: "off" until g.ready is closed, "on", "done"
    leases, allocated, busy, dedicated, scope,
    \* the pool
    groups,      \* p.groups
    idle,        \* the live groups with an idleAt stamp, oldest first
    gone,        \* the groups whose g.closed is closed
    closed, cleanupErr,
    closing,     \* Pool.Close: "no", "waiting", "done"
    closeSet     \* the groups it waits for

userVars  == <<ask, pc, lease, idleLease, ended>>
groupVars == <<gerr, process, router, leases, allocated, busy, dedicated, scope>>
poolVars  == <<groups, idle, gone, closed, cleanupErr, closing, closeSet>>
vars      == <<userVars, groupVars, poolVars>>

Init ==
    /\ ask \in Asks
    /\ pc = [u \in Users |-> "outside"]
    /\ lease = [u \in Users |-> NoGroup]
    /\ idleLease = [u \in Users |-> FALSE]
    /\ ended = {}
    /\ gerr = [g \in Groups |-> "nil"]
    /\ process = [g \in Groups |-> "none"]
    /\ router = [g \in Groups |-> "off"]
    /\ leases = [g \in Groups |-> {}]
    /\ allocated = [g \in Groups |-> 0]
    /\ busy = [g \in Groups |-> 0]
    /\ dedicated = {}
    /\ scope = [g \in Groups |-> "none"]
    /\ groups = {}
    /\ idle = <<>>
    /\ gone = {}
    /\ closed = FALSE
    /\ cleanupErr = FALSE
    /\ closing = "no"
    /\ closeSet = {}

----------------------------------------------------------------------------
(* Retirement.                                                             *)

\* The live groups of the pool in S.
Live(S) == {g \in groups : g \in S /\ gerr[g] = "nil"}

\* A mutant: the leases of the retired group are not told.
retireSilent(S, reason) ==
    /\ gerr' = [g \in Groups |-> IF g \in Live(S) THEN reason ELSE gerr[g]]
    /\ ended' = ended

\* retireLocked on every group of S: the first reason stays, every lease ends.
retireLocked(S, reason) ==
    /\ gerr' = [g \in Groups |-> IF g \in Live(S) THEN reason ELSE gerr[g]]
    /\ ended' = ended \cup UNION {leases[g] : g \in Live(S)}

\* The idle order without the groups of S.
Without(S) ==
    LET kept[n \in 0..Len(idle)] ==
            IF n = 0 THEN <<>>
            ELSE IF idle[n] \in S THEN kept[n - 1] ELSE Append(kept[n - 1], idle[n])
    IN  kept[Len(idle)]

\* Its goroutine: the client is closed once the launch is over; Client.cleanup reaps the process or
\* reports that it may still be running, ...
CloseClient(g) ==
    /\ gerr[g] # "nil"
    /\ router[g] # "off"
    /\ process[g] \in {"up", "broken"}
    /\ \E end \in {"none", "left"} : process' = [process EXCEPT ![g] = end]
    /\ UNCHANGED <<userVars, gerr, router, leases, allocated, busy, dedicated,
                   scope, poolVars>>

\* A mutant: the error of the client is not kept.
CleanUpForgets(g) ==
    /\ gerr[g] # "nil"
    /\ process[g] \in {"none", "left"}
    /\ router[g] = "done"
    /\ g \in groups
    /\ groups' = groups \ {g}
    /\ gone' = gone \cup {g}
    /\ cleanupErr' \in {cleanupErr, TRUE}
    /\ gerr' = [gerr EXCEPT ![g] = "closed"]
    /\ UNCHANGED <<userVars, process, router, leases, allocated, busy, dedicated, scope,
                   idle, closed, closing, closeSet>>

\* ... and when the router is done the artifacts are removed, which may fail as well.
\* The first failure is kept; then the group leaves the pool.  Why it was retired nobody
\* asks any more, so the groups that are gone have one reason.
CleanUp(g) ==
    /\ gerr[g] # "nil"
    /\ process[g] \in {"none", "left"}
    /\ router[g] = "done"
    /\ g \in groups
    /\ groups' = groups \ {g}
    /\ gone' = gone \cup {g}
    /\ cleanupErr' \in {cleanupErr \/ process[g] = "left", TRUE}
    /\ gerr' = [gerr EXCEPT ![g] = "closed"]
    /\ UNCHANGED <<userVars, process, router, leases, allocated, busy, dedicated, scope,
                   idle, closed, closing, closeSet>>

----------------------------------------------------------------------------
(* Pruning and acquisition.                                                *)

\* The idle groups as a set, and the n oldest of them.
IdleSet == Range(idle)
Oldest(n) == {idle[i] : i \in 1..n}

\* How many of the oldest groups in an idle order pruneLocked may retire: those
\* beyond MaxIdle in any case, and those older than the idle time-to-live.
Overflow(order) == {n \in 0..Len(order) : Len(order) - n <= MaxIdle}
Prunable == Overflow(idle)

Prune ==
    \E n \in Prunable :
        /\ retireLocked(Oldest(n), "closed")
        /\ idle' = Without(Oldest(n))
        /\ UNCHANGED <<ask, pc, lease, idleLease, process, router,
                       leases, allocated, busy, dedicated, scope,
                       groups, gone, closed, cleanupErr, closing, closeSet>>

Finish(u) == pc' = [pc EXCEPT ![u] = "done"]

Asking(u) == pc[u] \in {"outside", "retrying"}

\* Admission stops for good after a failed cleanup, or when the pool is closed.
Refused == cleanupErr \/ closed

AcquireRefused(u) ==
    /\ Asking(u)
    /\ Refused
    /\ \E n \in Prunable : retireLocked(Oldest(n), "closed") /\ idle' = Without(Oldest(n))
    /\ Finish(u)
    /\ UNCHANGED <<ask, lease, idleLease, process, router, leases,
                   allocated, busy, dedicated, scope, groups, gone, closed, cleanupErr,
                   closing, closeSet>>

\* A mutant: a process of any scope will do.
ReusableScopeless(u, out) ==
    {g \in groups : /\ ~ask[u].prepared /\ g \notin dedicated
                    /\ process[g] = "up"
                    /\ gerr[g] = "nil" /\ g \notin out
                    /\ allocated[g] < SessionsPerProcess}

\* The groups an ordinary user can join, pruning having retired those in out.
Reusable(u, out) ==
    {g \in groups : /\ ~ask[u].prepared /\ g \notin dedicated
                    /\ scope[g] = ask[u].scope
                    /\ process[g] = "up"
                    /\ gerr[g] = "nil" /\ g \notin out
                    /\ allocated[g] < SessionsPerProcess}

newLeaseLocked(u, g) ==
    /\ lease' = [lease EXCEPT ![u] = g]
    /\ leases' = [leases EXCEPT ![g] = @ \cup {u}]
    /\ allocated' = [allocated EXCEPT ![g] = @ + 1]
    /\ busy' = [busy EXCEPT ![g] = @ + 1]

AcquireJoins(u) ==
    /\ Asking(u)
    /\ ~Refused
    /\ \E n \in Prunable : \E g \in Reusable(u, Oldest(n)) :
        /\ retireLocked(Oldest(n), "closed")
        /\ idle' = Without(Oldest(n) \cup {g})
        /\ newLeaseLocked(u, g)
    /\ pc' = [pc EXCEPT ![u] = "held"]
    /\ UNCHANGED <<ask, idleLease, process, router, dedicated, scope,
                   groups, gone, closed, cleanupErr, closing, closeSet>>

\* At the process limit the oldest idle group is retired, once per user.
AcquireRecycles(u) ==
    /\ Asking(u)
    /\ ~Refused
    /\ Cardinality(groups) >= MaxProcesses
    /\ pc[u] = "outside"
    /\ \E n \in Prunable :
        /\ n < Len(idle)
        /\ Reusable(u, Oldest(n)) = {}
        /\ retireLocked(Oldest(n + 1), "closed")
        /\ idle' = Without(Oldest(n + 1))
        /\ lease' = [lease EXCEPT ![u] = idle[n + 1]]
    /\ pc' = [pc EXCEPT ![u] = "recycling"]
    /\ UNCHANGED <<ask, idleLease, process, router, leases, allocated, busy,
                   dedicated, scope, groups, gone, closed, cleanupErr, closing, closeSet>>

\* The recycled group is gone: ask again, without recycling.
RecycleEnds(u) ==
    /\ pc[u] = "recycling"
    /\ lease[u] \in gone
    /\ pc' = [pc EXCEPT ![u] = "retrying"]
    /\ lease' = [lease EXCEPT ![u] = NoGroup]
    /\ UNCHANGED <<ask, idleLease, ended, groupVars, poolVars>>

\* The caller's context ends first.
RecycleGivesUp(u) ==
    /\ pc[u] \in {"recycling", "retrying"}
    /\ Finish(u)
    /\ lease' = [lease EXCEPT ![u] = NoGroup]
    /\ UNCHANGED <<ask, idleLease, ended, groupVars, poolVars>>

AcquireOverloaded(u) ==
    /\ Asking(u)
    /\ ~Refused
    /\ Cardinality(groups) >= MaxProcesses
    /\ \E n \in Prunable :
        /\ Reusable(u, Oldest(n)) = {}
        /\ pc[u] = "retrying" \/ n = Len(idle)
        /\ retireLocked(Oldest(n), "closed")
        /\ idle' = Without(Oldest(n))
    /\ Finish(u)
    /\ UNCHANGED <<ask, lease, idleLease, process, router, leases,
                   allocated, busy, dedicated, scope, groups, gone, closed, cleanupErr,
                   closing, closeSet>>

\* A new group enters the pool before its process is launched.
AcquireLaunches(u) ==
    /\ Asking(u)
    /\ ~Refused
    /\ Cardinality(groups) < MaxProcesses
    /\ \E n \in Prunable : \E g \in Groups \ (groups \cup gone) :
        /\ Reusable(u, Oldest(n)) = {}
        /\ retireLocked(Oldest(n), "closed")
        /\ idle' = Without(Oldest(n))
        /\ newLeaseLocked(u, g)
        /\ groups' = groups \cup {g}
        /\ scope' = [scope EXCEPT ![g] = ask[u].scope]
        /\ dedicated' = IF ask[u].prepared THEN dedicated \cup {g} ELSE dedicated
    /\ pc' = [pc EXCEPT ![u] = "starting"]
    /\ UNCHANGED <<ask, idleLease, process, router, gone, closed,
                   cleanupErr, closing, closeSet>>

\* The launch succeeds, but the group may have been retired meanwhile.
StartSucceeds(u) ==
    /\ pc[u] = "starting"
    /\ LET g == lease[u]
           alive == gerr[g] = "nil"
       IN /\ process' = [process EXCEPT ![g] = "up"]
          /\ router' = [router EXCEPT ![g] = IF alive THEN "on" ELSE "done"]
          /\ pc' = [pc EXCEPT ![u] = IF alive THEN "held" ELSE "waiting"]
    /\ UNCHANGED <<ask, lease, idleLease, ended, gerr, leases, allocated,
                   busy, dedicated, scope, poolVars>>

\* A mutant: the failed launch does not close routerDone.
StartFailsOpen(u) ==
    /\ pc[u] = "starting"
    /\ retireLocked({lease[u]}, "failed")
    /\ pc' = [pc EXCEPT ![u] = "waiting"]
    /\ UNCHANGED <<ask, lease, idleLease, process, router, leases, allocated, busy,
                   dedicated, scope, poolVars>>

\* prepare or acp.Start fails, or the setup context ends.
StartFails(u) ==
    /\ pc[u] = "starting"
    /\ LET g == lease[u]
       IN /\ retireLocked({g}, "failed")
          /\ router' = [router EXCEPT ![g] = "done"]
    /\ pc' = [pc EXCEPT ![u] = "waiting"]
    /\ UNCHANGED <<ask, lease, idleLease, process, leases, allocated, busy,
                   dedicated, scope, poolVars>>

----------------------------------------------------------------------------
(* The life of a lease.                                                    *)

\* The lease is usable: errLocked is nil.
Usable(u) == /\ pc[u] = "held"
             /\ gerr[lease[u]] = "nil"
             /\ process[lease[u]] = "up"

\* A mutant: the group is stamped idle as soon as one of its leases is.
StampedAny(g) == IF g \in IdleSet THEN idle ELSE Append(idle, g)

\* The idle order when g has one busy lease less.
Stamped(g) == IF busy[g] = 1 THEN Append(idle, g) ELSE idle

\* SetIdle(true), with the pruning it ends with.
SetIdle(u) ==
    /\ Usable(u)
    /\ ~idleLease[u]
    /\ LET g == lease[u]
           order == Stamped(g)
       IN /\ idleLease' = [idleLease EXCEPT ![u] = TRUE]
          /\ busy' = [busy EXCEPT ![g] = @ - 1]
          /\ \E n \in Overflow(order) :
                /\ retireLocked({order[i] : i \in 1..n}, "closed")
                /\ idle' = SubSeq(order, n + 1, Len(order))
    /\ UNCHANGED <<ask, pc, lease, process, router, leases, allocated,
                   dedicated, scope, groups, gone, closed, cleanupErr, closing, closeSet>>

\* SetIdle(false): the stamp goes before pruning looks at it.
SetBusy(u) ==
    /\ Usable(u)
    /\ idleLease[u]
    /\ LET g == lease[u]
       IN /\ idleLease' = [idleLease EXCEPT ![u] = FALSE]
          /\ busy' = [busy EXCEPT ![g] = @ + 1]
          /\ \E n \in Prunable :
                /\ retireLocked(Oldest(n) \ {g}, "closed")
                /\ idle' = Without(Oldest(n) \cup {g})
    /\ UNCHANGED <<ask, pc, lease, process, router, leases, allocated,
                   dedicated, scope, groups, gone, closed, cleanupErr, closing, closeSet>>

\* ReleaseIdle: the binding goes, its allocation is never given back, and the
\* last binding of a used-up group takes the group along.
ReleaseIdle(u) ==
    /\ pc[u] = "held"
    /\ LET g == lease[u]
           spent == /\ leases[g] = {u}
                    /\ g \in dedicated \/ allocated[g] >= SessionsPerProcess
       IN /\ idleLease[u] \/ gerr[g] # "nil"
          /\ leases' = [leases EXCEPT ![g] = @ \ {u}]
          /\ ended' = ended \cup {u}
          /\ gerr' = [gerr EXCEPT ![g] = IF @ = "nil" /\ spent THEN "closed" ELSE @]
          /\ idle' = IF spent THEN Without({g}) ELSE idle
          /\ pc' = [pc EXCEPT ![u] = IF gerr[g] # "nil" \/ spent THEN "waiting" ELSE "done"]
    /\ UNCHANGED <<ask, lease, idleLease, process, router, allocated, busy,
                   dedicated, scope, groups, gone, closed, cleanupErr, closing, closeSet>>

\* Lease.Close retires the whole group, siblings included.
CloseLease(u) ==
    /\ pc[u] = "held"
    /\ retireLocked({lease[u]}, "closed")
    /\ idle' = Without({lease[u]})
    /\ pc' = [pc EXCEPT ![u] = "waiting"]
    /\ UNCHANGED <<ask, lease, idleLease, process, router, leases,
                   allocated, busy, dedicated, scope, groups, gone, closed, cleanupErr,
                   closing, closeSet>>

\* Lease.Close, ReleaseIdle and a failed acquire wait for g.closed.
WaitEnds(u) ==
    /\ pc[u] = "waiting"
    /\ lease[u] \in gone
    /\ Finish(u)
    /\ UNCHANGED <<ask, lease, idleLease, ended, groupVars, poolVars>>

----------------------------------------------------------------------------
(* The process and its router.                                             *)

\* The process dies, or its client retires itself.  In a group that is retired it makes no
\* difference to the pool, which closes the client in any case.
ProcessBreaks(g) ==
    /\ process[g] = "up" /\ gerr[g] = "nil"
    /\ process' = [process EXCEPT ![g] = "broken"]
    /\ UNCHANGED <<userVars, gerr, router, leases, allocated, busy, dedicated, scope,
                   poolVars>>

\* The router finds the client broken; or it, Create or Call meet a violation of
\* the protocol, an overflow or an ambiguous outcome.
GroupFails(g) ==
    /\ router[g] = "on"
    /\ gerr[g] = "nil"
    /\ retireLocked({g}, "failed")
    /\ idle' = Without({g})
    /\ UNCHANGED <<ask, pc, lease, idleLease, process, router, leases,
                   allocated, busy, dedicated, scope, groups, gone, closed, cleanupErr,
                   closing, closeSet>>

RouterExits(g) ==
    /\ router[g] = "on"
    /\ gerr[g] # "nil"
    /\ router' = [router EXCEPT ![g] = "done"]
    /\ UNCHANGED <<userVars, gerr, process, leases, allocated, busy, dedicated, scope,
                   poolVars>>

----------------------------------------------------------------------------
(* Pool.Close.                                                             *)

ClosePool ==
    /\ closing = "no"
    /\ closing' = "waiting"
    /\ closed' = TRUE
    /\ closeSet' = groups
    /\ retireLocked(groups, "closed")
    /\ idle' = <<>>
    /\ UNCHANGED <<ask, pc, lease, idleLease, process, router, leases,
                   allocated, busy, dedicated, scope, groups, gone, cleanupErr>>

ClosePoolReturns ==
    /\ closing = "waiting"
    /\ closeSet \subseteq gone
    /\ closing' = "done"
    /\ closeSet' = {}
    /\ UNCHANGED <<userVars, groupVars, groups, idle, gone, closed, cleanupErr>>

----------------------------------------------------------------------------
UserStep(u) ==
    \/ AcquireRefused(u) \/ AcquireJoins(u) \/ AcquireRecycles(u) \/ AcquireOverloaded(u)
    \/ AcquireLaunches(u) \/ RecycleEnds(u) \/ RecycleGivesUp(u)
    \/ StartSucceeds(u) \/ StartFails(u)
    \/ SetIdle(u) \/ SetBusy(u) \/ ReleaseIdle(u) \/ CloseLease(u) \/ WaitEnds(u)

GroupStep(g) ==
    \/ CloseClient(g) \/ CleanUp(g) \/ ProcessBreaks(g) \/ GroupFails(g) \/ RouterExits(g)

\* What happens by itself: a launch ends within the setup timeout, a client's Close kills and reaps
\* its process, the router is woken by a client that is done, and the goroutines that have
\* something to do go on.
OwnStep ==
    \/ \E u \in Users :
         \/ StartSucceeds(u) \/ StartFails(u) \/ RecycleEnds(u) \/ WaitEnds(u)
         \/ /\ pc[u] = "retrying"
            /\ \/ AcquireRefused(u) \/ AcquireJoins(u) \/ AcquireOverloaded(u) \/ AcquireLaunches(u)
    \/ \E g \in Groups :
         \/ CloseClient(g) \/ CleanUp(g) \/ RouterExits(g)
         \/ process[g] = "broken" /\ GroupFails(g)
    \/ ClosePoolReturns

\* The guards of OwnStep, without those of a user that asks again: a launch, a waiter whose group is
\* gone, the cleanup of a retired group, or Pool.Close has something to do.
AtWork ==
    \/ \E u \in Users : \/ pc[u] = "starting"
                        \/ pc[u] \in {"recycling", "waiting"} /\ lease[u] \in gone
    \/ \E g \in Groups :
         /\ gerr[g] # "nil"
         /\ \/ router[g] # "off" /\ process[g] \in {"up", "broken"}
            \/ router[g] = "on"
            \/ router[g] = "done" /\ process[g] \in {"none", "left"} /\ g \in groups
    \/ closing = "waiting" /\ closeSet \subseteq gone

Next ==
    \/ \E u \in Users : UserStep(u)
    \/ \E g \in Groups : GroupStep(g)
    \/ Prune \/ ClosePool \/ ClosePoolReturns

Spec == Init /\ [][Next]_vars

----------------------------------------------------------------------------
(* Properties.                                                             *)

\* A process that is being launched, runs, or has not been reaped.
Occupied == {g \in Groups : \/ process[g] \in {"up", "broken", "left"}
                            \/ \E u \in Users : pc[u] = "starting" /\ lease[u] = g}

\* The processes of the pool never exceed MaxProcesses: those being launched, those being retired,
\* and those that a failed cleanup has left behind, whose slot is given back but not filled again.
\* When Pool.Close returns no group is left, and no process unless the pool reports a failed cleanup.
ProcessCap ==
    /\ Cardinality(Occupied) <= MaxProcesses
    /\ closing = "done" => groups = {} /\ (Occupied = {} \/ cleanupErr)

\* The users that ever held a lease on g.
Holders(g) == {u \in Users : lease[u] = g /\ pc[u] # "recycling"}

\* A group serves at most SessionsPerProcess leases in its life, a prepared one
\* a single lease, and leases that share a group share its scope.
Isolation ==
    \A g \in Groups :
        /\ Cardinality(Holders(g)) <= SessionsPerProcess
        /\ \A u, v \in Holders(g) : u # v => ask[u].scope = ask[v].scope /\ ~ask[u].prepared

\* A retired group has told every lease it still has, so no session waits on a
\* process that is going away; a live group has told none.
LeasesEnd ==
    \A g \in groups : leases[g] \subseteq IF gerr[g] = "nil" THEN Users \ ended ELSE ended

\* A working process is never taken from a session that uses it by the pool's own
\* housekeeping: with a busy lease only a user that closes its lease on the same
\* group, or Pool.Close, ends a group that has not failed.
BusyKept ==
    [][\A g \in Groups :
         gerr[g] = "nil" /\ gerr'[g] = "closed" =>
             \/ \A u \in leases[g] : idleLease'[u]
             \/ \E u \in leases[g] : pc[u] = "held" /\ pc'[u] = "waiting"
             \/ closed' # closed]_vars


\* Whoever waits for a group to go away, or for its launch, gets on, and so does Pool.Close, which
\* waits for both: when the goroutines of the pool have nothing left to do, nobody waits.  They have
\* something to do whenever one of their guards holds.
WaitersReturn ==
    \/ ENABLED OwnStep
    \/ /\ ~AtWork
       /\ \A u \in Users : pc[u] \in {"outside", "held", "done"}
       /\ closing # "waiting"
=============================================================================
