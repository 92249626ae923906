----------------------------- MODULE AcpRouter -----------------------------
(***************************************************************************)
(* A group of internal/acppool/pool.go at work: the leases that share one  *)
(* ACP client, and the router that hands each notification of the process  *)
(* to the lease whose session it names.  Create makes a session and Call   *)
(* prompts it; both end with a barrier, a rendezvous with the router that  *)
(* drains what the client has read so far, so that a notification reaches  *)
(* its lease before the answer that followed it.                           *)
(*                                                                         *)
(* AcpPool shows who gets a lease; here every lease is held from the       *)
(* start, creates or loads its session, prompts it once and is released    *)
(* idle or closed.                                                         *)
(***************************************************************************)
EXTENDS AcpClient

CONSTANTS Leases,
          LeaseQueue,   \* EventQueue of the pool's configuration
          Nobody

ASSUME RouterAssumption ==
    /\ Leases = Callers /\ Nobody \notin Leases
    /\ LeaseQueue \in Nat \ {0}
\* The marks below are neither leases nor sessions.
ASSUME MarkAssumption ==
    /\ {"nil", "unknown", "nobody", "error"} \cap Leases = {}
    /\ "none" \notin Sessions \cup {NoSession}

VARIABLES
    lpc,        \* each lease: "new", "creating", "calling", "barrier", "taken", "acked", "ready", "idle", "failed"
    lid, candidate, loading, queue,     \* fields of each lease
    released,   \* the leases with l.err set
    routes,     \* per session a lease, "nil" for one released, "unknown"
    creating,   \* g.creating, and the holder of the create gate
    gerr,       \* g.err
    router,     \* "draining", "select", "serving" or "done"
    serving,    \* the lease whose barrier the router serves
    inHand,     \* the notification between TryNext and deliver
    delivered,  \* how many notifications each lease was given, the replay of a loaded session included
    result      \* the session its latest answer named

leaseVars == <<lpc, lid, candidate, loading, result>>
groupVars == <<queue, released, gerr>>
routeVars == <<routes, creating, router, serving, inHand, delivered>>
vars == <<clientVars, leaseVars, groupVars, routeVars>>

Init ==
    /\ ClientInit
    /\ lpc = [l \in Leases |-> "new"]
    /\ lid = [l \in Leases |-> NoSession] /\ candidate = lid /\ result = lid
    /\ loading = {} /\ released = {}
    /\ queue = [l \in Leases |-> <<>>] /\ delivered = [l \in Leases |-> 0]
    /\ routes = [s \in Sessions |-> "unknown"]
    /\ creating = Nobody /\ gerr = FALSE
    /\ router = "draining" /\ serving = Nobody /\ inHand = "none"

\* retireLocked: the leases learn of it and lose what is queued.
retireLocked ==
    /\ gerr' = TRUE
    /\ queue' = IF gerr THEN queue ELSE [l \in Leases |-> IF l \in released THEN queue[l] ELSE <<>>]
    /\ UNCHANGED released

\* errLocked of a lease.
Broken(l) == l \in released \/ gerr \/ err

Goto(l, label) == lpc' = [lpc EXCEPT ![l] = label]

----------------------------------------------------------------------------
(* Create, Call and the barrier.                                           *)

\* The create gate is free: one session is made at a time, so that a notification that
\* names an unknown session can only be about that one.  It is new, or loaded by its name.
CreateEnters(l, load) ==
    /\ lpc[l] = "new" /\ creating = Nobody
    /\ IF Broken(l)
       THEN Goto(l, "failed") /\ UNCHANGED <<creating, loading, candidate>>
       ELSE /\ Goto(l, "creating")
            /\ creating' = l
            /\ loading' = IF load # NoSession THEN loading \cup {l} ELSE loading
            /\ candidate' = [candidate EXCEPT ![l] = load]
    /\ UNCHANGED <<clientVars, lid, result, groupVars, routes, router, serving, inHand, delivered>>

\* Create gives up waiting for the gate.
CreateLeaves(l) ==
    /\ lpc[l] = "new"
    /\ Goto(l, "failed")
    /\ UNCHANGED <<clientVars, lid, candidate, loading, result, groupVars, routeVars>>

\* session/new, session/load or session/prompt is sent.
LeaseCalls(l) ==
    /\ lpc[l] \in {"creating", "ready"}
    /\ lpc[l] = "ready" => ~Broken(l)
    /\ CallRegisters(l)
    /\ Goto(l, "calling")
    /\ UNCHANGED <<lid, candidate, loading, result, groupVars, routeVars>>

\* The call fails before, while or after it was sent.  A failed Create ends the group; a
\* failed prompt has ended the client, or changed nothing.
Failed(l) ==
    /\ Goto(l, "failed")
    /\ IF creating = l THEN creating' = Nobody /\ retireLocked ELSE UNCHANGED <<creating, groupVars>>
    /\ UNCHANGED <<lid, candidate, loading, result, routes, router, serving, inHand, delivered>>

\* Call returns at once: the client or the group has failed, too much is pending, the context has
\* ended or the parameters are invalid.
LeaseRefused(l) ==
    /\ lpc[l] \in {"creating", "ready"}
    /\ Failed(l)
    /\ UNCHANGED clientVars

LeaseTooLarge(l, large) ==
    /\ lpc[l] \in {"creating", "ready"}
    /\ CallFails(l, large)
    /\ Goto(l, "calling")
    /\ UNCHANGED <<lid, candidate, loading, result, groupVars, routeVars>>

LeaseGivesUp(l) == lpc[l] = "calling" /\ GivesUp(l) /\ Failed(l)

\* The answer is taken: an error ends the call, a result goes on to the barrier.
LeaseAnswered(l) ==
    /\ lpc[l] = "calling" /\ TakesAnswer(l)
    /\ UNCHANGED <<id, retireVars, ioVars>>
    /\ IF box[l].kind = "error"
       THEN Failed(l)
       ELSE /\ Goto(l, "barrier")
            /\ result' = [result EXCEPT ![l] = box[l].session]
            /\ UNCHANGED <<lid, candidate, loading, groupVars, routeVars>>

\* The barrier ends without the router: the group failed or the context ended, and the
\* group is retired.
BarrierFails(l) ==
    /\ lpc[l] \in {"barrier", "taken"}
    /\ Goto(l, "failed")
    /\ retireLocked
    /\ creating' = IF creating = l THEN Nobody ELSE creating
    /\ UNCHANGED <<clientVars, lid, candidate, loading, result, routes, router, serving, inHand, delivered>>

\* The end of Call.
PromptEnds(l) ==
    /\ lpc[l] = "acked" /\ creating # l
    /\ IF Broken(l) THEN Goto(l, "failed") /\ retireLocked ELSE Goto(l, "idle") /\ UNCHANGED groupVars
    /\ UNCHANGED <<clientVars, lid, candidate, loading, result, routeVars>>

\* A mutant: what was delivered while the session had no name is not compared with it.
mismatchNever(l, s) == routes[s] # "unknown"

\* The session is someone's already, or not the one its notifications named.
mismatch(l, s) ==
    \/ routes[s] # "unknown"
    \/ candidate[l] # NoSession /\ candidate[l] # s

\* The end of Create: the answer names the session, and the route is made.
CreateEnds(l) ==
    LET s == result[l]
    IN /\ lpc[l] = "acked" /\ creating = l
       /\ creating' = Nobody
       /\ \/ /\ Broken(l)
             /\ Goto(l, "failed")
             /\ IF gerr THEN UNCHANGED groupVars ELSE (retireLocked \/ UNCHANGED groupVars)
             /\ UNCHANGED <<lid, loading, routes>>
          \/ /\ ~Broken(l) /\ mismatch(l, s)
             /\ Goto(l, "failed")
             /\ retireLocked
             /\ UNCHANGED <<lid, loading, routes>>
          \/ /\ ~Broken(l) /\ ~mismatch(l, s)
             /\ Goto(l, "ready")
             /\ lid' = [lid EXCEPT ![l] = s]
             /\ loading' = loading \ {l}
             /\ routes' = [routes EXCEPT ![s] = l]
             /\ UNCHANGED groupVars
       /\ UNCHANGED <<clientVars, candidate, result, router, serving, inHand, delivered>>

\* TryNext of a lease.
LeaseTakes(l) ==
    /\ queue[l] # <<>> /\ ~Broken(l)
    /\ queue' = [queue EXCEPT ![l] = Tail(@)]
    /\ UNCHANGED <<clientVars, leaseVars, released, gerr, routeVars>>

\* ReleaseIdle: what still comes for the session goes nowhere.  The last lease of a group that
\* is dedicated or has no sessions left retires it.
ReleaseIdle(l) ==
    /\ lpc[l] = "idle" /\ l \notin released
    /\ released' = released \cup {l}
    /\ queue' = [queue EXCEPT ![l] = <<>>]
    /\ routes' = [routes EXCEPT ![lid[l]] = "nil"]
    /\ gerr' \in IF released' = Leases THEN {gerr, TRUE} ELSE {gerr}
    /\ UNCHANGED <<clientVars, leaseVars, creating, router, serving, inHand, delivered>>

----------------------------------------------------------------------------
(* The router.                                                             *)

Draining == router \in {"draining", "serving"} /\ inHand = "none"

\* The client failed: the group follows.
RouterFails ==
    /\ Draining /\ err
    /\ retireLocked
    /\ router' = "done"
    /\ UNCHANGED <<clientVars, leaseVars, routes, creating, serving, inHand, delivered>>

RouterTakes ==
    /\ Draining /\ ~err /\ events # <<>>
    /\ inHand' = Head(events)
    /\ events' = Tail(events)
    /\ UNCHANGED <<callVars, retireVars, nextID, writes, written, frames,
                   notes, mark, leaseVars, groupVars, routes, creating, router, serving, delivered>>

\* A mutant: the barrier is acknowledged before the notifications are drained.
RouterDrainedEarly ==
    /\ router \in {"draining", "serving"} /\ inHand = "none" /\ ~err
    /\ events = <<>> \/ router = "serving"
    /\ router' = IF router = "serving" THEN "draining" ELSE "select"
    /\ serving' = Nobody
    /\ lpc' = IF serving # Nobody /\ lpc[serving] = "taken" THEN [lpc EXCEPT ![serving] = "acked"] ELSE lpc
    /\ UNCHANGED <<clientVars, lid, candidate, loading, result, groupVars, routes, creating, inHand, delivered>>

\* Nothing is left: wait, or acknowledge the barrier and drain again.
RouterDrained ==
    /\ Draining /\ ~err /\ events = <<>>
    /\ router' = IF router = "serving" THEN "draining" ELSE "select"
    /\ serving' = Nobody
    /\ lpc' = IF serving # Nobody /\ lpc[serving] = "taken" THEN [lpc EXCEPT ![serving] = "acked"] ELSE lpc
    /\ UNCHANGED <<clientVars, lid, candidate, loading, result, groupVars, routes, creating, inHand, delivered>>

\* The select of route.
RouterSelects(l) ==
    /\ router = "select"
    /\ \/ gerr /\ router' = "done" /\ UNCHANGED <<activity, serving, lpc>>
       \/ activity /\ router' = "draining" /\ activity' = FALSE /\ UNCHANGED <<serving, lpc>>
       \/ /\ lpc[l] = "barrier"
          /\ router' = "serving" /\ serving' = l /\ Goto(l, "taken")
          /\ UNCHANGED activity
    /\ UNCHANGED <<callVars, pending, box, err, cleanup, ioVars, lid, candidate, loading, result, groupVars,
                   routes, creating, inHand, delivered>>

\* Whom a notification is for: a lease, "nobody", or it is an "error".
Addressee(s) ==
    IF routes[s] \in Leases THEN routes[s]
    ELSE IF routes[s] = "nil" THEN "nobody"
    ELSE IF creating = Nobody \/ candidate[creating] \notin {NoSession, s} THEN "error"
    ELSE creating

\* deliver.  A notification without a session is dropped unless it is a session/update.
Deliver ==
    /\ inHand # "none"
    /\ inHand' = "none"
    /\ LET to == IF inHand = NoSession THEN "nobody" ELSE Addressee(inHand)
           full == to \in Leases \ loading /\ Len(queue[to]) >= LeaseQueue
       IN /\ candidate' = IF ~gerr /\ to \in Leases /\ routes[inHand] = "unknown"
                           THEN [candidate EXCEPT ![to] = inHand] ELSE candidate
          /\ \/ /\ gerr \/ to = "error" \/ full \/ inHand = NoSession
                /\ router' = "done"
                /\ retireLocked
                /\ UNCHANGED delivered
             \/ /\ ~gerr /\ to # "error" /\ ~full
                /\ queue' = IF to \in Leases \ loading THEN [queue EXCEPT ![to] = Append(@, inHand)] ELSE queue
                /\ delivered' = IF to \in Leases THEN [delivered EXCEPT ![to] = @ + 1] ELSE delivered
                /\ UNCHANGED <<router, released, gerr>>
    /\ UNCHANGED <<clientVars, lpc, lid, loading, result, routes, creating, serving>>

\* The goroutine of a retired group, or Lease.Close: the client is closed.
GroupCloses ==
    /\ gerr /\ ~err
    /\ retire
    /\ UNCHANGED <<callVars, ioVars, leaseVars, groupVars, routeVars>>

LeaseCloses ==
    /\ ~gerr
    /\ retireLocked
    /\ UNCHANGED <<clientVars, leaseVars, routeVars>>

----------------------------------------------------------------------------

ClientStep ==
    /\ \/ ReadStep \/ WriteStep \/ CleanupRuns \/ ProcessNoticed
       \/ \E l \in Leases : CallRetires(l) \/ CallExpires(l)
    /\ UNCHANGED <<leaseVars, groupVars, routeVars>>

LeaseStep(l) ==
    \/ LeaseCalls(l) \/ LeaseRefused(l) \/ LeaseGivesUp(l)
    \/ LeaseAnswered(l) \/ BarrierFails(l) \/ PromptEnds(l) \/ CreateEnds(l)

RouterStep == RouterFails \/ RouterTakes \/ RouterDrained \/ Deliver \/ \E l \in Leases : RouterSelects(l)

Next ==
    \/ ClientStep \/ RouterStep \/ GroupCloses \/ LeaseCloses
    \/ \E l \in Leases : \/ \E load \in Sessions \cup {NoSession} : CreateEnters(l, load)
                         \/ LeaseStep(l) \/ CreateLeaves(l) \/ LeaseTakes(l) \/ ReleaseIdle(l)
                         \/ \E large \in BOOLEAN : LeaseTooLarge(l, large)

Spec == Init /\ [][Next]_vars

\* What the code's own goroutines do without the process, a deadline or a new request: they
\* have come to rest when none of these steps is possible.
OwnStep ==
    \/ RouterStep \/ GroupCloses \/ (CleanupRuns /\ UNCHANGED <<leaseVars, groupVars, routeVars>>)
    \/ \E l \in Leases :
          \/ lpc[l] # "ready" /\ (lpc[l] \in {"barrier", "taken"} => gerr) /\ LeaseStep(l)
          \/ CallRetires(l) /\ UNCHANGED <<leaseVars, groupVars, routeVars>>

\* The guards of the steps of OwnStep that end a wait: the router, the client's cleanup or a call that
\* has what it waits for can go on.
AtWork ==
    \/ router \in {"draining", "serving"} \/ inHand # "none"
    \/ router = "select" /\ (gerr \/ activity \/ \E l \in Leases : lpc[l] = "barrier")
    \/ gerr /\ ~err
    \/ cleanup = "running"
    \/ \E l \in Leases : \/ lpc[l] \in {"creating", "acked"}
                         \/ lpc[l] \in {"barrier", "taken"} /\ gerr
                         \/ lpc[l] = "calling" /\ (cpc[l] \in {"full", "expired"} \/ Answered(l))

----------------------------------------------------------------------------
(* Properties.                                                             *)

\* The answer a caller gets is one the process gave to that very request, never one that came
\* late for a request of someone else or that was given up.
OwnAnswer == \A l \in Leases : Answered(l) /\ box[l] # Failure => box[l].id = id[l]

\* The barrier: when Call returns, its lease was given every notification about its session
\* that the process sent before the answer.
OrderedDelivery ==
    \A l \in Leases : lpc[l] = "idle" => delivered[l] >= mark[l][lid[l]]

\* A lease is never given a notification of another session: of its sibling's, of one that was
\* released, or of one that its own answer did not name.
Attribution ==
    \A l \in Leases : \A i \in 1..Len(queue[l]) :
        /\ lid[l] # NoSession => queue[l][i] = lid[l]
        /\ \A m \in Leases \ {l} : queue[l][i] # lid[m]

\* A failure of the client, wherever it was noticed, has reached the group, its leases and every call,
\* the cleanup has ended, and no call that had its answer is left in the barrier.
Settled ==
    /\ err => /\ gerr /\ cleanup = "done" /\ router = "done"
              /\ \A l \in Leases : lpc[l] \in {"new", "ready", "idle", "failed"}
    /\ \A l \in Leases : lpc[l] \notin {"barrier", "taken", "acked"}

\* No wait is forgotten: all is settled when nothing but the process or a deadline can go on.
\* Something else can whenever one of the guards in AtWork holds.
NothingStuck == (AtWork => ENABLED OwnStep) /\ (~ENABLED OwnStep => Settled)
=============================================================================
