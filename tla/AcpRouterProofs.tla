-------------------------- MODULE AcpRouterProofs --------------------------
(***************************************************************************)
(* Proofs about AcpRouter, for any set of leases and sessions and queues   *)
(* of any length.                                                          *)
(***************************************************************************)
EXTENDS AcpRouter, SequenceTheorems, FiniteSetTheorems, TLAPS

----------------------------------------------------------------------------
(* The inductive invariant.                                                *)

Named == Sessions \cup {NoSession}
Boxes == [kind : {"none", "error", "result"}, session : Named, id : Nat]
Labels == {"new", "creating", "calling", "barrier", "taken", "acked", "ready", "idle", "failed"}

ClientTypes ==
    /\ cpc \in [Leases -> {"idle", "full", "waiting", "expired"}]
    /\ id \in [Leases -> Nat]
    /\ pending \subseteq Leases
    /\ box \in [Leases -> Boxes]
    /\ nextID \in Nat \ {0} /\ err \in BOOLEAN
    /\ events \in Seq(Named)
    /\ writes \in Seq(Nat) /\ written \subseteq Nat
    /\ frames \in Nat
    /\ notes \in [Sessions -> Nat] /\ mark \in [Leases -> [Sessions -> Nat]]

LeaseTypes ==
    /\ lpc \in [Leases -> Labels]
    /\ lid \in [Leases -> Named] /\ candidate \in [Leases -> Named] /\ result \in [Leases -> Named]
    /\ loading \subseteq Leases /\ released \subseteq Leases
    /\ queue \in [Leases -> Seq(Sessions)]
    /\ delivered \in [Leases -> Nat]

RouterTypes ==
    /\ routes \in [Sessions -> Leases \cup {"nil", "unknown"}]
    /\ creating \in Leases \cup {Nobody}
    /\ gerr \in BOOLEAN
    /\ router \in {"draining", "select", "serving", "done"}
    /\ serving \in Leases \cup {Nobody}
    /\ inHand \in Named \cup {"none"}

\* A request is pending only while its caller waits, and its channel is empty then; an answer
\* carries the id of the latest request of its caller; ids are not used twice.
ClientTrue ==
    /\ \A l \in pending : box[l] = Empty /\ cpc[l] # "idle"
    /\ err => pending = {}
    /\ cleanup # "no" => err
    /\ \A l \in Leases : box[l] \notin {Empty, Failure} =>
          /\ box[l].id = id[l] /\ box[l].id \in written
          /\ box[l].kind = "error" \/ (box[l].kind = "result" /\ box[l].session \in Sessions)
    /\ \A l \in Leases : id[l] < nextID
    /\ \A l, m \in Leases : id[l] = id[m] /\ id[l] # 0 => l = m
    /\ \A l \in Leases : \A s \in Sessions : mark[l][s] <= notes[s]

\* Where a lease is says whether it has a session: none before the route is made, and then
\* the only one that the route leads to.
RouteTrue ==
    /\ \A l \in Leases : cpc[l] # "idle" => lpc[l] = "calling"
    /\ \A l \in released : lid[l] # NoSession
    /\ \A l \in Leases : lpc[l] = "creating" => creating = l
    /\ creating # Nobody => lpc[creating] \in {"creating", "calling", "barrier", "taken", "acked"}
    /\ creating # Nobody => lid[creating] = NoSession
    /\ \A l \in Leases : lpc[l] = "new" => lid[l] = NoSession
    /\ \A l \in Leases : lpc[l] \in {"barrier", "taken", "acked"} => result[l] \in Sessions
    /\ \A l \in Leases : lpc[l] \in {"calling", "barrier", "taken", "acked", "ready", "idle"} /\ creating # l
          => lid[l] # NoSession
    /\ \A l \in Leases : lid[l] # NoSession =>
          routes[lid[l]] \in {l, "nil"} /\ \A m \in Leases \ {l} : lid[m] # lid[l]
    /\ \A s \in Sessions : routes[s] \in Leases => lid[routes[s]] = s

\* What is queued for a lease without a session was about its candidate, and the lease
\* is the one that creates its session, or the group is over.
QueueTrue ==
    \A l \in Leases : queue[l] # <<>> =>
        \/ /\ lid[l] # NoSession
           /\ \A i \in 1..Len(queue[l]) : queue[l][i] = lid[l]
        \/ /\ lid[l] = NoSession /\ candidate[l] # NoSession
           /\ creating = l \/ gerr \/ err
           /\ \A i \in 1..Len(queue[l]) : queue[l][i] = candidate[l]
           /\ \A m \in Leases : lid[m] # candidate[l]

\* How often s occurs in a sequence.
Count(q, s) == Cardinality({i \in 1..Len(q) : q[i] = s})

\* The notifications about a session that were read and not yet handed on.
InFlight(s) == Count(events, s) + (IF inHand = s THEN 1 ELSE 0)

\* No notification is lost while the group lives: what was read of a session is on its way, or
\* was given to its lease, or to the lease that is about to learn the name of the session.
Accounted(s) ==
    /\ routes[s] \in Leases => notes[s] <= InFlight(s) + delivered[routes[s]]
    /\ routes[s] = "unknown" =>
         notes[s] <= InFlight(s) + (IF creating # Nobody /\ candidate[creating] = s THEN delivered[creating] ELSE 0)

\* A lease keeps its route until it is released, and has had its notifications when the router
\* acknowledges its barrier.
Served(l) ==
    /\ lid[l] # NoSession /\ lpc[l] # "idle" => routes[lid[l]] = l
    /\ lpc[l] = "acked" /\ lid[l] # NoSession => delivered[l] >= mark[l][lid[l]]

FlowTrue == ~gerr /\ ~err => (\A s \in Sessions : Accounted(s)) /\ (\A l \in Leases : Served(l))

----------------------------------------------------------------------------
(* The client.                                                             *)

\* What a caller can do to the client.
CallerActs(l) ==
    \/ CallRetires(l) \/ CallExpires(l) \/ CallRegisters(l) \/ GivesUp(l)
    \/ \E large \in BOOLEAN : CallFails(l, large)
    \/ TakesAnswer(l) /\ UNCHANGED <<id, retireVars, ioVars>>

\* What can happen to the client, whoever does it.
ClientActs ==
    \/ UNCHANGED clientVars
    \/ ReadAsk \/ ReadFails \/ CleanupRuns
    \/ \E s \in Named : ReadNote(s)
    \/ \E i \in written : \/ \E s \in Sessions : ReadAnswer(i, "result", s)
                          \/ ReadAnswer(i, "error", NoSession)
    \/ \E fault \in BOOLEAN : WritePacket(fault)
    \/ retire /\ UNCHANGED <<callVars, ioVars>>
    \/ \E l \in Leases : CallerActs(l)
    \/ /\ events # <<>> /\ events' = Tail(events)
       /\ UNCHANGED <<callVars, retireVars, nextID, writes, written, frames, notes, mark>>
    \/ activity' = FALSE /\ UNCHANGED <<callVars, pending, box, err, cleanup, ioVars>>

LEMMA ClientMoves == [Next]_vars => ClientActs
<1> SUFFICES ASSUME [Next]_vars PROVE ClientActs
  OBVIOUS
<1>1. CASE ClientStep
  BY <1>1 DEF ClientStep, ReadStep, WriteStep, ProcessNoticed, ClientActs, CallerActs, Named
<1>2. CASE RouterStep
  <2>1. CASE RouterTakes
    BY <2>1 DEF RouterTakes, ClientActs
  <2>2. CASE \E l \in Leases : RouterSelects(l)
    BY <2>2 DEF RouterSelects, ClientActs, clientVars, retireVars
  <2>3. CASE RouterFails \/ RouterDrained \/ Deliver
    BY <2>3 DEF RouterFails, RouterDrained, Deliver, ClientActs
  <2> QED BY <1>2, <2>1, <2>2, <2>3 DEF RouterStep
<1>3. CASE GroupCloses \/ LeaseCloses
  BY <1>3 DEF GroupCloses, LeaseCloses, ClientActs
<1>4. ASSUME NEW l \in Leases, LeaseStep(l) PROVE ClientActs
  <2>1. CASE LeaseCalls(l) \/ LeaseGivesUp(l)
    BY <2>1 DEF LeaseCalls, LeaseGivesUp, ClientActs, CallerActs
  <2>2. CASE LeaseAnswered(l)
    BY <2>2 DEF LeaseAnswered, ClientActs, CallerActs
  <2>3. CASE LeaseRefused(l) \/ BarrierFails(l) \/ PromptEnds(l) \/ CreateEnds(l)
    BY <2>3 DEF LeaseRefused, BarrierFails, PromptEnds, CreateEnds, ClientActs
  <2> QED BY <1>4, <2>1, <2>2, <2>3 DEF LeaseStep
<1>5. ASSUME NEW l \in Leases, NEW load \in Named,
             CreateEnters(l, load) \/ CreateLeaves(l) \/ LeaseTakes(l) \/ ReleaseIdle(l)
      PROVE  ClientActs
  BY <1>5 DEF CreateEnters, CreateLeaves, LeaseTakes, ReleaseIdle, ClientActs
<1>6. ASSUME NEW l \in Leases, NEW large \in BOOLEAN, LeaseTooLarge(l, large)
      PROVE  ClientActs
  <2>1. CallFails(l, large)
    BY <1>6 DEF LeaseTooLarge
  <2>2. CallerActs(l)
    BY <2>1 DEF CallerActs
  <2> QED BY <2>2 DEF ClientActs
<1>7. CASE UNCHANGED vars
  BY <1>7 DEF vars, ClientActs
<1> QED BY <1>1, <1>2, <1>3, <1>4, <1>5, <1>6, <1>7 DEF Next, Named

\* A retirement gives every pending request the failure.
LEMMA RetireClient ==
    ASSUME ClientTypes, ClientTrue, retire
    PROVE  /\ pending' = {} /\ err' = TRUE
           /\ box' \in [Leases -> Boxes]
           /\ \A l \in Leases : box'[l] = box[l] \/ box'[l] = Failure
<1>1. Failure \in Boxes
  BY DEF Failure, Boxes, Named
<1>2. CASE err
  BY <1>2 DEF retire, retireVars, ClientTypes, ClientTrue
<1>3. CASE ~err
  <2>1. box' = [c \in Leases |-> IF c \in pending THEN Failure ELSE box[c]]
    BY <1>3, RouterAssumption DEF retire
  <2>2. pending' = {} /\ err' = TRUE
    BY <1>3 DEF retire
  <2> QED BY <1>1, <2>1, <2>2 DEF ClientTypes
<1> QED BY <1>2, <1>3

LEMMA RetireKeeps ==
    ASSUME ClientTypes, ClientTrue, retire,
           UNCHANGED <<id, nextID, written, mark>>,
           cpc' \in [Leases -> {"idle", "full", "waiting", "expired"}],
           events' \in Seq(Named), writes' \in Seq(Nat), frames' \in Nat,
           notes' \in [Sessions -> Nat], \A s \in Sessions : notes[s] <= notes'[s]
    PROVE  ClientTypes' /\ ClientTrue'
<1>1. /\ pending' = {} /\ err' = TRUE
      /\ box' \in [Leases -> Boxes]
      /\ \A l \in Leases : box'[l] = box[l] \/ box'[l] = Failure
  BY RetireClient
<1>2. ClientTypes'
  BY <1>1 DEF ClientTypes
<1>3. ClientTrue'
  BY <1>1 DEF ClientTypes, ClientTrue
<1> QED BY <1>2, <1>3

LEMMA ClientKeeps ==
    ASSUME ClientTypes, ClientTrue, ClientActs
    PROVE  ClientTypes' /\ ClientTrue'
<1> USE RouterAssumption
<1>0. /\ cpc \in [Leases -> {"idle", "full", "waiting", "expired"}] /\ notes \in [Sessions -> Nat]
      /\ \A s \in Sessions : notes[s] <= notes[s]
      /\ events \in Seq(Named) /\ writes \in Seq(Nat) /\ frames \in Nat
  BY DEF ClientTypes
<1>1. CASE UNCHANGED clientVars
  BY <1>1 DEF clientVars, callVars, retireVars, ioVars, ClientTypes, ClientTrue
<1>2. CASE ReadAsk
  <2>1. CASE Fits
    <3>1. /\ writes' = Append(writes, 0) /\ frames' = frames + 1
          /\ UNCHANGED <<cpc, id, nextID, written, notes, mark, pending, box, err, cleanup, events>>
      BY <1>2, <2>1 DEF ReadAsk, Reads, callVars, retireVars
    <3>2. ClientTypes'
      BY <3>1 DEF ClientTypes
    <3> QED BY <3>1, <3>2 DEF ClientTrue
  <2>2. CASE ~Fits
    <3>1. retire /\ UNCHANGED <<events, writes, cpc, id, nextID, written, notes, mark>> /\ frames' = frames + 1
      BY <1>2, <2>2 DEF ReadAsk, Reads, Fails, callVars
    <3> QED BY <1>0, <3>1, RetireKeeps
  <2> QED BY <2>1, <2>2
<1>3. CASE ReadFails
  <2>1. retire /\ UNCHANGED <<events, writes, cpc, id, nextID, written, frames, notes, mark>>
    BY <1>3 DEF ReadFails, Fails, callVars
  <2> QED BY <1>0, <2>1, RetireKeeps
<1>4. CASE CleanupRuns
  BY <1>4 DEF CleanupRuns, callVars, ClientTypes, ClientTrue
<1>5. ASSUME NEW s \in Named, ReadNote(s) PROVE ClientTypes' /\ ClientTrue'
  <2>1. notes' \in [Sessions -> Nat] /\ \A r \in Sessions : notes[r] <= notes'[r]
    BY <1>5 DEF ReadNote, Named, ClientTypes
  <2>2. CASE Len(events) >= EventQueue
    <3>1. retire /\ UNCHANGED <<events, writes, cpc, id, nextID, written, mark>> /\ frames' = frames + 1
      BY <1>5, <2>2 DEF ReadNote, Reads, Fails, callVars
    <3> QED BY <1>0, <2>1, <3>1, RetireKeeps
  <2>3. CASE ~(Len(events) >= EventQueue)
    <3>1. /\ events' = Append(events, s) /\ frames' = frames + 1
          /\ UNCHANGED <<pending, box, err, cleanup, writes, cpc, id, nextID, written, mark>>
      BY <1>5, <2>3 DEF ReadNote, Reads, callVars
    <3>2. ClientTypes'
      BY <2>1, <3>1 DEF ClientTypes
    <3>3. ClientTrue'
      BY <2>1, <3>1 DEF ClientTypes, ClientTrue
    <3> QED BY <3>2, <3>3
  <2> QED BY <2>2, <2>3
<1>6. ASSUME NEW i \in written, NEW kind \in {"result", "error"}, NEW s \in Named,
             ReadAnswer(i, kind, s), kind = "result" => s \in Sessions
      PROVE  ClientTypes' /\ ClientTrue'
  <2>0. UNCHANGED <<cpc, id, nextID, written, notes>> /\ frames' = frames + 1
    BY <1>6 DEF ReadAnswer, Reads, callVars
  <2>1. CASE correlated(i) = {}
    <3>1. retire /\ UNCHANGED <<events, writes, mark>>
      BY <1>6, <2>1 DEF ReadAnswer, Fails
    <3> QED BY <1>0, <2>0, <3>1, RetireKeeps
  <2>2. CASE correlated(i) # {}
    <3>1. PICK c \in correlated(i) :
            /\ pending' = pending \ {c}
            /\ box' = [box EXCEPT ![c] = [kind |-> kind, session |-> s, id |-> i]]
            /\ mark' = [mark EXCEPT ![c] = notes]
            /\ UNCHANGED <<err, cleanup, events, writes>>
      BY <1>6, <2>2 DEF ReadAnswer
    <3>2. c \in Leases /\ c \in pending /\ id[c] = i
      BY <3>1 DEF correlated, ClientTypes
    <3>3. [kind |-> kind, session |-> s, id |-> i] \in Boxes
      BY <1>6 DEF Boxes, ClientTypes
    <3>4. ClientTypes'
      BY <2>0, <3>1, <3>2, <3>3 DEF ClientTypes
    <3>5. ClientTrue'
      BY <1>6, <2>0, <3>1, <3>2, <3>3 DEF ClientTypes, ClientTrue
    <3> QED BY <3>4, <3>5
  <2> QED BY <2>1, <2>2
<1>7. ASSUME NEW fault \in BOOLEAN, WritePacket(fault) PROVE ClientTypes' /\ ClientTrue'
  <2>1. /\ writes' = Tail(writes) /\ writes' \in Seq(Nat) /\ writes # <<>>
        /\ UNCHANGED <<cpc, id, nextID, events, frames, notes, mark>>
    BY <1>0, <1>7 DEF WritePacket, callVars
  <2>2. CASE fault
    <3>1. retire /\ UNCHANGED written
      BY <1>7, <2>2 DEF WritePacket
    <3> QED BY <1>0, <2>1, <3>1, RetireKeeps
  <2>3. CASE ~fault
    <3>1. written' = written \cup ({Head(writes)} \ {0}) /\ UNCHANGED <<pending, box, err, cleanup>>
      BY <1>7, <2>3 DEF WritePacket, retireVars
    <3>2. Head(writes) \in Nat
      BY <1>0, <2>1
    <3>3. ClientTypes'
      BY <2>1, <3>1, <3>2 DEF ClientTypes
    <3>4. ClientTrue'
      BY <2>1, <3>1 DEF ClientTrue
    <3> QED BY <3>3, <3>4
  <2> QED BY <2>2, <2>3
<1>8. CASE retire /\ UNCHANGED <<callVars, ioVars>>
  <2>1. UNCHANGED <<cpc, id, nextID, events, writes, written, frames, notes, mark>>
    BY <1>8 DEF callVars, ioVars
  <2> QED BY <1>0, <1>8, <2>1, RetireKeeps
<1>9. ASSUME NEW l \in Leases, CallerActs(l) PROVE ClientTypes' /\ ClientTrue'
  <2>1. CASE CallRetires(l) \/ GivesUp(l)
    <3>1. /\ retire /\ UNCHANGED <<id, nextID, events, writes, written, frames, notes, mark>>
          /\ cpc' \in [Leases -> {"idle", "full", "waiting", "expired"}]
      BY <1>0, <2>1 DEF CallRetires, GivesUp, ioVars
    <3> QED BY <1>0, <3>1, RetireKeeps
  <2>2. CASE CallExpires(l)
    <3>1. ClientTypes'
      BY <2>2 DEF CallExpires, retireVars, ioVars, ClientTypes
    <3>2. ClientTrue'
      BY <2>2 DEF CallExpires, retireVars, ioVars, ClientTypes, ClientTrue
    <3> QED BY <3>1, <3>2
  <2>3. CASE CallRegisters(l)
    <3>1. Empty \in Boxes
      BY DEF Empty, Boxes, Named
    <3>2. ClientTypes'
      BY <2>3, <3>1 DEF CallRegisters, Fits, ClientTypes
    <3>3. ClientTrue'
      BY <2>3 DEF CallRegisters, refused, ClientTypes, ClientTrue
    <3> QED BY <3>2, <3>3
  <2>4. CASE \E large \in BOOLEAN : CallFails(l, large)
    <3>1. /\ cpc' = [cpc EXCEPT ![l] = "expired"]
          /\ nextID' \in {nextID, nextID + 1}
          /\ UNCHANGED <<id, pending, box, err, cleanup, events, writes, written, frames, notes, mark>>
      BY <2>4 DEF CallFails, retireVars
    <3>2. ClientTypes'
      BY <3>1 DEF ClientTypes
    <3>3. ClientTrue'
      BY <3>1 DEF ClientTypes, ClientTrue
    <3> QED BY <3>2, <3>3
  <2>5. CASE TakesAnswer(l) /\ UNCHANGED <<id, retireVars, ioVars>>
    <3>1. ClientTypes'
      BY <2>5 DEF TakesAnswer, retireVars, ioVars, ClientTypes
    <3>2. ClientTrue'
      BY <2>5 DEF TakesAnswer, Answered, retireVars, ioVars, ClientTypes, ClientTrue
    <3> QED BY <3>1, <3>2
  <2> QED BY <1>9, <2>1, <2>2, <2>3, <2>4, <2>5 DEF CallerActs
<1>10. CASE /\ events # <<>> /\ events' = Tail(events)
            /\ UNCHANGED <<callVars, retireVars, nextID, writes, written, frames, notes, mark>>
  BY <1>10 DEF callVars, retireVars, ClientTypes, ClientTrue
<1>11. CASE activity' = FALSE /\ UNCHANGED <<callVars, pending, box, err, cleanup, ioVars>>
  BY <1>11 DEF callVars, ioVars, ClientTypes, ClientTrue
<1>12. NoSession \in Named /\ Sessions \subseteq Named
  BY DEF Named
<1> QED BY <1>1, <1>2, <1>3, <1>4, <1>5, <1>6, <1>7, <1>8, <1>9, <1>10, <1>11, <1>12 DEF ClientActs
----------------------------------------------------------------------------
(* The group.                                                              *)

GroupTypes == LeaseTypes /\ RouterTypes

GroupTrue == RouteTrue /\ QueueTrue

Known == ClientTypes /\ ClientTrue /\ GroupTypes /\ GroupTrue

LEMMA RetireGroup ==
    ASSUME GroupTypes, retireLocked
    PROVE  /\ gerr' = TRUE /\ released' = released
           /\ queue' \in [Leases -> Seq(Sessions)]
           /\ \A l \in Leases : queue'[l] \in {queue[l], <<>>}
BY DEF GroupTypes, LeaseTypes, retireLocked

\* A client that has failed stays failed.
LEMMA ErrStays ==
    ASSUME ClientTypes, ClientActs, err
    PROVE  err'
BY DEF ClientActs, CallerActs, CallRetires, CallExpires, CallRegisters, GivesUp, CallFails, TakesAnswer, ReadAsk,
       ReadFails, ReadNote, ReadAnswer, Reads, Fails, WritePacket, CleanupRuns, retire, retireVars, clientVars,
       callVars, ClientTypes

\* Queues that only get shorter or empty stay right, unless a session is named or the creator
\* leaves a group that lives on.
LEMMA QueueFrame ==
    ASSUME GroupTypes, QueueTrue, UNCHANGED <<lid, candidate>>, err => err', gerr => gerr',
           creating' = creating \/ gerr' \/ err',
           \A l \in Leases : queue'[l] \in {queue[l], <<>>}
    PROVE  QueueTrue'
<1> SUFFICES ASSUME NEW l \in Leases, queue'[l] # <<>>
             PROVE  \/ /\ lid[l] # NoSession
                       /\ \A i \in 1..Len(queue'[l]) : queue'[l][i] = lid[l]
                    \/ /\ lid[l] = NoSession /\ candidate[l] # NoSession
                       /\ creating' = l \/ gerr' \/ err'
                       /\ \A i \in 1..Len(queue'[l]) : queue'[l][i] = candidate[l]
                       /\ \A m \in Leases : lid[m] # candidate[l]
  BY DEF QueueTrue
<1>1. queue'[l] = queue[l]
  OBVIOUS
<1> QED BY <1>1 DEF QueueTrue

LEMMA ClientStepKeeps ==
    ASSUME Known, ClientStep
    PROVE  GroupTypes' /\ GroupTrue'
<1>1. /\ UNCHANGED <<lpc, lid, candidate, loading, result, queue, released, gerr>>
      /\ UNCHANGED <<routes, creating, router, serving, inHand, delivered>>
      /\ \A l \in Leases : cpc[l] = "idle" => cpc'[l] = "idle"
  BY DEF ClientStep, ReadStep, WriteStep, ReadAsk, ReadFails, ReadNote, ReadAnswer, WritePacket, CleanupRuns,
         ProcessNoticed, CallRetires, CallExpires, leaseVars, groupVars, routeVars, callVars, Known, ClientTypes
<1>2. err => err'
  <2>1. ClientActs
    BY ClientMoves DEF Next
  <2> QED BY <2>1, ErrStays DEF Known
<1>3. GroupTypes'
  BY <1>1 DEF Known, GroupTypes, LeaseTypes, RouterTypes
<1>4. RouteTrue'
  BY <1>1 DEF Known, GroupTrue, RouteTrue
<1>5. QueueTrue'
  BY <1>1, <1>2, QueueFrame DEF Known, GroupTrue
<1> QED BY <1>3, <1>4, <1>5 DEF GroupTrue

LEMMA RouterKeeps ==
    ASSUME Known, RouterFails \/ RouterTakes \/ RouterDrained \/ \E l \in Leases : RouterSelects(l)
    PROVE  GroupTypes' /\ GroupTrue'
<1> USE DEF Known, GroupTrue
<1>1. CASE RouterFails
  <2>1. /\ UNCHANGED <<cpc, err, lpc, lid, candidate, loading, result, routes, creating, serving, inHand, delivered>>
        /\ retireLocked /\ router' = "done"
    BY <1>1 DEF RouterFails, clientVars, callVars, retireVars, leaseVars
  <2>2. GroupTypes'
    BY <2>1, RetireGroup DEF GroupTypes, LeaseTypes, RouterTypes
  <2>3. RouteTrue'
    BY <2>1, RetireGroup DEF RouteTrue
  <2>4. QueueTrue'
    BY <2>1, RetireGroup, QueueFrame
  <2> QED BY <2>2, <2>3, <2>4
<1>2. CASE RouterTakes
  <2>1. /\ UNCHANGED <<cpc, err, lpc, lid, candidate, loading, result, queue, released, gerr>>
        /\ UNCHANGED <<routes, creating, router, serving, delivered>>
        /\ events # <<>> /\ inHand' = Head(events)
    BY <1>2 DEF RouterTakes, callVars, retireVars, leaseVars, groupVars
  <2>2. inHand' \in Named
    BY <2>1 DEF ClientTypes
  <2>3. GroupTypes'
    BY <2>1, <2>2 DEF GroupTypes, LeaseTypes, RouterTypes
  <2>4. RouteTrue'
    BY <2>1 DEF RouteTrue
  <2>5. QueueTrue'
    BY <2>1, QueueFrame
  <2> QED BY <2>3, <2>4, <2>5
<1>3. CASE RouterDrained
  <2>1. /\ UNCHANGED <<cpc, err, lid, candidate, loading, result, queue, released, gerr>>
        /\ UNCHANGED <<routes, creating, inHand, delivered>>
        /\ router' \in {"draining", "select"} /\ serving' = Nobody
        /\ \/ UNCHANGED lpc
           \/ serving \in Leases /\ lpc[serving] = "taken" /\ lpc' = [lpc EXCEPT ![serving] = "acked"]
    BY <1>3 DEF RouterDrained, clientVars, callVars, retireVars, groupVars, GroupTypes, RouterTypes
  <2>2. GroupTypes'
    BY <2>1 DEF GroupTypes, LeaseTypes, RouterTypes, Labels
  <2>3. RouteTrue'
    BY <2>1, RouterAssumption DEF RouteTrue, GroupTypes, LeaseTypes, RouterTypes
  <2>4. QueueTrue'
    BY <2>1, QueueFrame
  <2> QED BY <2>2, <2>3, <2>4
<1>4. ASSUME NEW l \in Leases, RouterSelects(l) PROVE GroupTypes' /\ GroupTrue'
  <2>1. /\ UNCHANGED <<cpc, err, lid, candidate, loading, result, queue, released, gerr>>
        /\ UNCHANGED <<routes, creating, inHand, delivered>>
        /\ router' \in {"done", "draining", "serving"} /\ serving' \in {l, serving}
        /\ \/ UNCHANGED lpc
           \/ lpc[l] = "barrier" /\ lpc' = [lpc EXCEPT ![l] = "taken"]
    BY <1>4 DEF RouterSelects, Goto, callVars, groupVars
  <2>2. GroupTypes'
    BY <2>1 DEF GroupTypes, LeaseTypes, RouterTypes, Labels
  <2>3. RouteTrue'
    BY <2>1, RouterAssumption DEF RouteTrue, GroupTypes, LeaseTypes, RouterTypes
  <2>4. QueueTrue'
    BY <2>1, QueueFrame
  <2> QED BY <2>2, <2>3, <2>4
<1> QED BY <1>1, <1>2, <1>3, <1>4

\* A notification reaches lease l.
GivenTo(l) ==
    /\ \/ routes[inHand] = l /\ UNCHANGED candidate
       \/ /\ routes[inHand] = "unknown" /\ creating = l
          /\ candidate[l] \in {NoSession, inHand}
          /\ candidate' = [candidate EXCEPT ![l] = inHand]
    /\ delivered' = [delivered EXCEPT ![l] = @ + 1]
    /\ queue' = queue \/ queue' = [queue EXCEPT ![l] = Append(@, inHand)]

\* Deliver ends the group, drops the notification, or gives it to one lease.
LEMMA DeliverEffect ==
    ASSUME Known, Deliver
    PROVE  /\ UNCHANGED <<cpc, id, pending, box, err, events, notes, mark>>
           /\ UNCHANGED <<lpc, lid, loading, result, released, routes, creating, serving>>
           /\ inHand # "none" /\ inHand' = "none"
           /\ \/ /\ retireLocked /\ router' = "done" /\ UNCHANGED delivered
                 /\ \/ UNCHANGED candidate
                    \/ /\ inHand \in Sessions /\ ~gerr /\ creating \in Leases
                       /\ candidate[creating] \in {NoSession, inHand}
                       /\ candidate' = [candidate EXCEPT ![creating] = inHand]
              \/ /\ ~gerr /\ UNCHANGED <<router, gerr, candidate, queue, delivered>>
                 /\ inHand \in Sessions => routes[inHand] = "nil"
              \/ /\ ~gerr /\ UNCHANGED <<router, gerr>>
                 /\ inHand \in Sessions /\ \E l \in Leases : GivenTo(l)
<1> DEFINE to == IF inHand = NoSession THEN "nobody" ELSE Addressee(inHand)
<1>1. /\ UNCHANGED <<cpc, id, pending, box, err, events, notes, mark>>
      /\ UNCHANGED <<lpc, lid, loading, result, routes, creating, serving>>
      /\ inHand # "none" /\ inHand' = "none"
  BY DEF Deliver, clientVars, callVars, retireVars, ioVars
<1>2. inHand \in Named
  BY <1>1 DEF Known, GroupTypes, RouterTypes
<1>3. released' = released
  BY DEF Deliver, retireLocked
<1>4. CASE to \in Leases
  <2>1. /\ inHand \in Sessions
        /\ routes[inHand] = to \/ (routes[inHand] = "unknown" /\ creating = to)
        /\ routes[inHand] = "unknown" => candidate[to] \in {NoSession, inHand}
    BY <1>2, <1>4, MarkAssumption, RouterAssumption DEF Addressee, Named, Known, GroupTypes, RouterTypes
  <2>2. to # "error"
    BY <1>4, MarkAssumption
  <2>3. CASE /\ ~gerr /\ UNCHANGED <<router, gerr>>
             /\ delivered' = [delivered EXCEPT ![to] = @ + 1]
             /\ queue' = queue \/ queue' = [queue EXCEPT ![to] = Append(@, inHand)]
    <3>1. GivenTo(to)
      BY <1>4, <2>1, <2>3, MarkAssumption DEF Deliver, GivenTo
    <3> QED BY <1>1, <1>3, <1>4, <2>1, <2>3, <3>1
  <2>4. CASE retireLocked /\ router' = "done" /\ UNCHANGED delivered
    BY <1>1, <1>2, <1>3, <1>4, <2>1, <2>4, MarkAssumption DEF Deliver
  <2>5. \/ retireLocked /\ router' = "done" /\ UNCHANGED delivered
        \/ /\ ~gerr /\ UNCHANGED <<router, gerr>>
           /\ delivered' = [delivered EXCEPT ![to] = @ + 1]
           /\ queue' = queue \/ queue' = [queue EXCEPT ![to] = Append(@, inHand)]
    BY <1>4, <2>2 DEF Deliver
  <2> QED BY <2>3, <2>4, <2>5
<1>5. CASE to \notin Leases
  <2>1. to = "error" \/ (inHand \in Sessions => routes[inHand] = "nil")
    <3> SUFFICES ASSUME inHand \in Sessions, routes[inHand] # "nil" PROVE to = "error"
      OBVIOUS
    <3>1. to = Addressee(inHand)
      BY ClientAssumption
    <3>2. routes[inHand] = "unknown"
      BY <1>5, <3>1 DEF Addressee, Known, GroupTypes, RouterTypes
    <3>3. creating # Nobody => creating \in Leases
      BY DEF Known, GroupTypes, RouterTypes
    <3> QED BY <1>5, <3>1, <3>2, <3>3, MarkAssumption DEF Addressee
  <2> QED BY <1>1, <1>3, <1>5, <2>1 DEF Deliver
<1> QED BY <1>4, <1>5

LEMMA DeliverKeeps ==
    ASSUME Known, Deliver
    PROVE  GroupTypes' /\ GroupTrue'
<1> USE DEF Known, GroupTrue
<1>0. NoSession \notin Sessions /\ Sessions \subseteq Named /\ Nobody \notin Leases
  BY ClientAssumption, RouterAssumption DEF Named
<1>1. /\ UNCHANGED <<cpc, err, lpc, lid, loading, result, released, routes, creating, serving>>
      /\ inHand' = "none"
  BY DeliverEffect
<1>2. CASE retireLocked /\ router' = "done" /\ UNCHANGED <<delivered, candidate>>
  <2>1. GroupTypes'
    BY <1>1, <1>2, RetireGroup DEF GroupTypes, LeaseTypes, RouterTypes
  <2>2. RouteTrue'
    BY <1>1 DEF RouteTrue
  <2>3. QueueTrue'
    BY <1>1, <1>2, RetireGroup, QueueFrame
  <2> QED BY <2>1, <2>2, <2>3
<1>3. CASE /\ retireLocked /\ router' = "done" /\ UNCHANGED delivered
           /\ inHand \in Sessions /\ ~gerr /\ creating \in Leases
           /\ candidate[creating] \in {NoSession, inHand}
           /\ candidate' = [candidate EXCEPT ![creating] = inHand]
  <2>1. /\ gerr' = TRUE
        /\ queue' \in [Leases -> Seq(Sessions)]
        /\ \A l \in Leases : queue'[l] \in {queue[l], <<>>}
    BY <1>3, RetireGroup
  <2>2. GroupTypes'
    BY <1>0, <1>1, <1>3, <2>1 DEF GroupTypes, LeaseTypes, RouterTypes
  <2>3. RouteTrue'
    BY <1>1 DEF RouteTrue
  <2>4. \A l \in Leases : queue[l] # <<>> /\ lid[l] = NoSession => candidate'[l] = candidate[l]
    BY <1>3 DEF GroupTypes, LeaseTypes, QueueTrue
  <2>5. QueueTrue'
    BY <1>1, <2>1, <2>4 DEF QueueTrue
  <2> QED BY <2>2, <2>3, <2>5
<1>4. CASE UNCHANGED <<router, gerr, candidate, queue, delivered>>
  <2>1. GroupTypes'
    BY <1>1, <1>4 DEF GroupTypes, LeaseTypes, RouterTypes
  <2>2. RouteTrue'
    BY <1>1 DEF RouteTrue
  <2>3. QueueTrue'
    BY <1>1, <1>4, QueueFrame
  <2> QED BY <2>1, <2>2, <2>3
<1>5. ASSUME UNCHANGED <<router, gerr>>, inHand \in Sessions, NEW l \in Leases, GivenTo(l)
      PROVE  GroupTypes' /\ GroupTrue'
  <2>1. candidate' \in [Leases -> Named] /\ delivered' \in [Leases -> Nat] /\ queue' \in [Leases -> Seq(Sessions)]
    <3>1. candidate' \in [Leases -> Named]
      BY <1>0, <1>5 DEF GivenTo, GroupTypes, LeaseTypes
    <3>2. delivered' \in [Leases -> Nat]
      BY <1>5 DEF GivenTo, GroupTypes, LeaseTypes
    <3>3. queue \in [Leases -> Seq(Sessions)] /\ Append(queue[l], inHand) \in Seq(Sessions)
      BY <1>5 DEF GroupTypes, LeaseTypes
    <3>4. queue' = queue \/ queue' = [queue EXCEPT ![l] = Append(queue[l], inHand)]
      BY <1>5 DEF GivenTo
    <3> QED BY <3>1, <3>2, <3>3, <3>4
  <2>2. GroupTypes'
    BY <1>1, <1>5, <2>1 DEF GroupTypes, LeaseTypes, RouterTypes
  <2>3. RouteTrue'
    BY <1>1 DEF RouteTrue
  <2>4. \A m \in Leases \ {l} : queue'[m] = queue[m] /\ candidate'[m] = candidate[m]
    BY <1>5 DEF GivenTo, GroupTypes, LeaseTypes
  <2>5. /\ queue[l] \in Seq(Sessions)
        /\ \A i \in 1..Len(queue'[l]) : (i \in 1..Len(queue[l]) /\ queue'[l][i] = queue[l][i]) \/ queue'[l][i] = inHand
    BY <1>5 DEF GivenTo, GroupTypes, LeaseTypes
  <2>6. CASE routes[inHand] = l /\ UNCHANGED candidate
    <3>1. lid[l] = inHand
      BY <1>5, <2>6 DEF RouteTrue
    <3>2. \A i \in 1..Len(queue[l]) : queue[l][i] = lid[l]
      BY <1>0, <1>5, <2>5, <3>1 DEF QueueTrue
    <3> QED BY <1>0, <1>1, <1>5, <2>2, <2>3, <2>4, <2>5, <2>6, <3>1, <3>2 DEF QueueTrue
  <2>7. CASE /\ routes[inHand] = "unknown" /\ creating = l
             /\ candidate[l] \in {NoSession, inHand} /\ candidate' = [candidate EXCEPT ![l] = inHand]
    <3>1. lid[l] = NoSession /\ candidate'[l] = inHand
      BY <1>0, <2>7 DEF RouteTrue, GroupTypes, LeaseTypes
    <3>2. \A m \in Leases : lid[m] # inHand
      BY <1>0, <1>5, <2>7, MarkAssumption DEF RouteTrue
    <3>3. \A i \in 1..Len(queue[l]) : queue[l][i] = inHand
      BY <1>0, <2>5, <2>7, <3>1 DEF QueueTrue
    <3>4. QueueTrue'
      BY <1>0, <1>1, <1>5, <2>4, <2>5, <2>7, <3>1, <3>2, <3>3 DEF QueueTrue
    <3> QED BY <2>2, <2>3, <3>4
  <2> QED BY <1>5, <2>6, <2>7 DEF GivenTo
<1> QED BY <1>2, <1>3, <1>4, <1>5, DeliverEffect

\* A lease fails: its Create, if it was one, ends the group.
LEMMA FailedKeeps ==
    ASSUME Known, NEW l \in Leases, Failed(l), err => err',
           \A m \in Leases : cpc'[m] # "idle" => cpc[m] # "idle" /\ m # l
    PROVE  GroupTypes' /\ GroupTrue'
<1> USE DEF Known, GroupTrue
<1>1. /\ lpc' = [lpc EXCEPT ![l] = "failed"]
      /\ UNCHANGED <<lid, candidate, loading, result, routes, router, serving, inHand, delivered>>
      /\ \/ creating = l /\ creating' = Nobody /\ retireLocked
         \/ creating # l /\ UNCHANGED <<creating, queue, released, gerr>>
  BY DEF Failed, Goto, groupVars
<1>2. /\ released' = released /\ gerr' \in BOOLEAN /\ (gerr => gerr')
      /\ creating' = creating \/ gerr'
      /\ queue' \in [Leases -> Seq(Sessions)]
      /\ \A m \in Leases : queue'[m] \in {queue[m], <<>>}
  BY <1>1, RetireGroup DEF GroupTypes, LeaseTypes, RouterTypes
<1>3. GroupTypes'
  BY <1>1, <1>2 DEF GroupTypes, LeaseTypes, RouterTypes, Labels
<1>4. RouteTrue'
  BY <1>1, <1>2, RouterAssumption DEF RouteTrue, GroupTypes, LeaseTypes, RouterTypes
<1>5. QueueTrue'
  BY <1>1, <1>2, QueueFrame
<1> QED BY <1>3, <1>4, <1>5

\* A lease goes on, and nothing else of the group changes.
LEMMA LeaseGoes ==
    ASSUME Known, NEW l \in Leases, NEW to \in Labels, lpc' = [lpc EXCEPT ![l] = to],
           UNCHANGED <<lid, candidate, loading, queue, released, gerr, routes, creating, router, serving, inHand, delivered>>,
           err => err', result' \in [Leases -> Named],
           \A m \in Leases : m # l => result'[m] = result[m],
           \A m \in Leases : cpc'[m] # "idle" => IF m = l THEN to = "calling" ELSE cpc[m] # "idle",
           \/ to = "failed" /\ creating # l
           \/ to = "calling" /\ lpc[l] \in {"creating", "ready"}
           \/ to = "barrier" /\ lpc[l] = "calling" /\ result'[l] \in Sessions
           \/ to = "idle" /\ lpc[l] = "acked" /\ creating # l
    PROVE  GroupTypes' /\ GroupTrue'
<1> USE DEF Known, GroupTrue
<1>1. GroupTypes'
  BY DEF GroupTypes, LeaseTypes, RouterTypes
<1>2. RouteTrue'
  BY RouterAssumption DEF RouteTrue, GroupTypes, LeaseTypes, RouterTypes
<1>3. QueueTrue'
  BY QueueFrame
<1> QED BY <1>1, <1>2, <1>3

LEMMA LeaseStepKeeps ==
    ASSUME Known, NEW l \in Leases,
           \/ LeaseCalls(l) \/ LeaseRefused(l) \/ LeaseGivesUp(l) \/ LeaseAnswered(l) \/ CreateLeaves(l)
           \/ \E large \in BOOLEAN : LeaseTooLarge(l, large)
    PROVE  GroupTypes' /\ GroupTrue'
<1> USE DEF Known
<1>0. /\ cpc \in [Leases -> {"idle", "full", "waiting", "expired"}]
      /\ result \in [Leases -> Named] /\ Sessions \subseteq Named
  BY DEF ClientTypes, GroupTypes, LeaseTypes, Named
<1>1. err => err'
  <2>1. Next
    BY DEF Next, LeaseStep, Named
  <2> QED BY <2>1, ClientMoves, ErrStays
<1>2. CASE LeaseCalls(l) \/ \E large \in BOOLEAN : LeaseTooLarge(l, large)
  <2>1. /\ lpc[l] \in {"creating", "ready"} /\ lpc' = [lpc EXCEPT ![l] = "calling"]
        /\ UNCHANGED <<lid, candidate, loading, result, queue, released, gerr>>
        /\ UNCHANGED <<routes, creating, router, serving, inHand, delivered>>
        /\ \A m \in Leases \ {l} : cpc'[m] = cpc[m]
    BY <1>0, <1>2 DEF LeaseCalls, LeaseTooLarge, CallRegisters, CallFails, Goto, groupVars, routeVars
  <2>2. "calling" \in Labels
    BY DEF Labels
  <2> QED BY <1>0, <1>1, <2>1, <2>2, LeaseGoes
<1>3. CASE LeaseRefused(l)
  <2>1. Failed(l) /\ cpc' = cpc /\ lpc[l] \in {"creating", "ready"}
    BY <1>3 DEF LeaseRefused, clientVars, callVars
  <2>2. cpc[l] = "idle"
    BY <2>1 DEF GroupTrue, RouteTrue
  <2> QED BY <1>1, <2>1, <2>2, FailedKeeps
<1>4. CASE LeaseGivesUp(l)
  <2>1. Failed(l) /\ cpc' = [cpc EXCEPT ![l] = "idle"]
    BY <1>4 DEF LeaseGivesUp, GivesUp
  <2> QED BY <1>0, <1>1, <2>1, FailedKeeps
<1>5. CASE LeaseAnswered(l)
  <2>1. cpc' = [cpc EXCEPT ![l] = "idle"] /\ lpc[l] = "calling" /\ box[l] # Empty
    BY <1>5 DEF LeaseAnswered, TakesAnswer, Answered
  <2>2. CASE box[l].kind = "error"
    <3>1. Failed(l)
      BY <1>5, <2>2 DEF LeaseAnswered
    <3> QED BY <1>0, <1>1, <2>1, <3>1, FailedKeeps
  <2>3. CASE box[l].kind # "error"
    <3>1. /\ lpc' = [lpc EXCEPT ![l] = "barrier"]
          /\ result' = [result EXCEPT ![l] = box[l].session]
          /\ UNCHANGED <<lid, candidate, loading, queue, released, gerr>>
          /\ UNCHANGED <<routes, creating, router, serving, inHand, delivered>>
      BY <1>5, <2>3 DEF LeaseAnswered, Goto, groupVars, routeVars
    <3>2. box[l].session \in Sessions
      BY <2>1, <2>3 DEF ClientTrue, Failure
    <3>3. "barrier" \in Labels
      BY DEF Labels
    <3> QED BY <1>0, <1>1, <2>1, <3>1, <3>2, <3>3, LeaseGoes
  <2> QED BY <2>2, <2>3
<1>6. CASE CreateLeaves(l)
  <2>1. /\ lpc[l] = "new" /\ lpc' = [lpc EXCEPT ![l] = "failed"]
        /\ UNCHANGED <<cpc, lid, candidate, loading, result, queue, released, gerr>>
        /\ UNCHANGED <<routes, creating, router, serving, inHand, delivered>>
    BY <1>6 DEF CreateLeaves, Goto, groupVars, routeVars, clientVars, callVars
  <2>2. creating # l /\ cpc[l] = "idle"
    BY <2>1, RouterAssumption DEF GroupTrue, RouteTrue
  <2>3. "failed" \in Labels
    BY DEF Labels
  <2> QED BY <1>0, <1>1, <2>1, <2>2, <2>3, LeaseGoes
<1> QED BY <1>2, <1>3, <1>4, <1>5, <1>6

LEMMA EndsKeep ==
    ASSUME Known, NEW l \in Leases, BarrierFails(l) \/ PromptEnds(l) \/ LeaseTakes(l)
    PROVE  GroupTypes' /\ GroupTrue'
<1> USE DEF Known, GroupTrue
<1>1. err => err'
  <2>1. Next
    BY DEF Next, LeaseStep, Named
  <2> QED BY <2>1, ClientMoves, ErrStays
<1>2. CASE BarrierFails(l)
  <2>1. /\ lpc[l] \in {"barrier", "taken"} /\ lpc' = [lpc EXCEPT ![l] = "failed"]
        /\ retireLocked /\ creating' = IF creating = l THEN Nobody ELSE creating
        /\ UNCHANGED <<cpc, lid, candidate, loading, result, routes, router, serving, inHand, delivered>>
    BY <1>2 DEF BarrierFails, Goto, clientVars, callVars
  <2>2. GroupTypes'
    BY <2>1, RetireGroup DEF GroupTypes, LeaseTypes, RouterTypes, Labels
  <2>3. RouteTrue'
    <3>1. released' = released
      BY <2>1, RetireGroup
    <3> QED BY <2>1, <3>1, RouterAssumption DEF RouteTrue, GroupTypes, LeaseTypes, RouterTypes
  <2>4. QueueTrue'
    BY <1>1, <2>1, RetireGroup, QueueFrame
  <2> QED BY <2>2, <2>3, <2>4
<1>3. CASE PromptEnds(l)
  <2>1. /\ lpc[l] = "acked" /\ creating # l
        /\ UNCHANGED <<cpc, lid, candidate, loading, result, routes, creating, router, serving, inHand, delivered>>
    BY <1>3 DEF PromptEnds, clientVars, callVars, routeVars
  <2>2. CASE Broken(l)
    <3>1. lpc' = [lpc EXCEPT ![l] = "failed"] /\ retireLocked
      BY <1>3, <2>2 DEF PromptEnds, Goto
    <3>2. GroupTypes'
      BY <2>1, <3>1, RetireGroup DEF GroupTypes, LeaseTypes, RouterTypes, Labels
    <3>3. RouteTrue'
      BY ZenonT(60), <2>1, <3>1, RetireGroup, RouterAssumption DEF RouteTrue, GroupTypes, LeaseTypes, RouterTypes
    <3>4. QueueTrue'
      BY <1>1, <2>1, <3>1, RetireGroup, QueueFrame
    <3> QED BY <3>2, <3>3, <3>4
  <2>3. CASE ~Broken(l)
    <3>1. lpc' = [lpc EXCEPT ![l] = "idle"] /\ UNCHANGED <<queue, released, gerr>>
      BY <1>3, <2>3 DEF PromptEnds, Goto, groupVars
    <3>2. cpc[l] = "idle" /\ "idle" \in Labels /\ result \in [Leases -> Named]
      BY <2>1 DEF RouteTrue, Labels, GroupTypes, LeaseTypes
    <3> QED BY <1>1, <2>1, <3>1, <3>2, LeaseGoes
  <2> QED BY <2>2, <2>3
<1>4. CASE LeaseTakes(l)
  <2>1. /\ queue[l] # <<>> /\ queue' = [queue EXCEPT ![l] = Tail(@)] /\ ~gerr /\ ~err /\ ~err'
        /\ UNCHANGED <<cpc, lpc, lid, candidate, loading, result, released, gerr>>
        /\ UNCHANGED <<routes, creating, router, serving, inHand, delivered>>
    BY <1>4 DEF LeaseTakes, Broken, clientVars, callVars, retireVars, leaseVars, routeVars
  <2>2. /\ queue[l] \in Seq(Sessions) /\ Tail(queue[l]) \in Seq(Sessions)
        /\ \A i \in 1..Len(Tail(queue[l])) : i + 1 \in 1..Len(queue[l]) /\ Tail(queue[l])[i] = queue[l][i + 1]
    <3>1. queue[l] \in Seq(Sessions)
      BY DEF GroupTypes, LeaseTypes
    <3>2. /\ Tail(queue[l]) \in Seq(Sessions) /\ Len(Tail(queue[l])) = Len(queue[l]) - 1
          /\ \A i \in 1..Len(Tail(queue[l])) : Tail(queue[l])[i] = queue[l][i + 1]
      BY <2>1, <3>1, HeadTailProperties
    <3> QED BY <3>1, <3>2
  <2>3. /\ queue'[l] = Tail(queue[l]) /\ \A m \in Leases \ {l} : queue'[m] = queue[m]
        /\ queue' \in [Leases -> Seq(Sessions)]
    BY <2>1, <2>2 DEF GroupTypes, LeaseTypes
  <2>4. GroupTypes'
    BY <2>1, <2>3 DEF GroupTypes, LeaseTypes, RouterTypes
  <2>5. RouteTrue'
    BY <2>1 DEF RouteTrue
  <2>6. QueueTrue'
    BY <2>1, <2>2, <2>3 DEF QueueTrue
  <2> QED BY <2>4, <2>5, <2>6
<1> QED BY <1>2, <1>3, <1>4

LEMMA ClosesKeep ==
    ASSUME Known, GroupCloses \/ LeaseCloses
    PROVE  GroupTypes' /\ GroupTrue'
<1> USE DEF Known, GroupTrue
<1>1. err => err'
  <2>1. Next
    BY DEF Next
  <2> QED BY <2>1, ClientMoves, ErrStays
<1>2. CASE GroupCloses
  <2>1. /\ UNCHANGED <<cpc, lpc, lid, candidate, loading, result, queue, released, gerr>>
        /\ UNCHANGED <<routes, creating, router, serving, inHand, delivered>>
    BY <1>2 DEF GroupCloses, callVars, leaseVars, groupVars, routeVars
  <2>2. GroupTypes'
    BY <2>1 DEF GroupTypes, LeaseTypes, RouterTypes
  <2>3. RouteTrue'
    BY <2>1 DEF RouteTrue
  <2>4. QueueTrue'
    BY <1>1, <2>1, QueueFrame
  <2> QED BY <2>2, <2>3, <2>4
<1>3. CASE LeaseCloses
  <2>1. /\ UNCHANGED <<cpc, lpc, lid, candidate, loading, result, routes, creating, router, serving, inHand, delivered>>
        /\ retireLocked
    BY <1>3 DEF LeaseCloses, clientVars, callVars, leaseVars, routeVars
  <2>2. GroupTypes'
    BY <2>1, RetireGroup DEF GroupTypes, LeaseTypes, RouterTypes
  <2>3. RouteTrue'
    BY <2>1, RetireGroup DEF RouteTrue
  <2>4. QueueTrue'
    BY <1>1, <2>1, RetireGroup, QueueFrame
  <2> QED BY <2>2, <2>3, <2>4
<1> QED BY <1>2, <1>3

LEMMA EntersKeeps ==
    ASSUME Known, NEW l \in Leases, NEW load \in Named, CreateEnters(l, load)
    PROVE  GroupTypes' /\ GroupTrue'
<1> USE DEF Known, GroupTrue
<1>1. /\ lpc[l] = "new" /\ creating = Nobody
      /\ UNCHANGED <<cpc, err, lid, result, queue, released, gerr, routes, router, serving, inHand, delivered>>
  BY DEF CreateEnters, clientVars, callVars, retireVars, groupVars
<1>2. lid[l] = NoSession /\ cpc[l] = "idle"
  BY <1>1 DEF RouteTrue
<1>3. CASE Broken(l)
  <2>1. lpc' = [lpc EXCEPT ![l] = "failed"] /\ UNCHANGED <<creating, loading, candidate>>
    BY <1>3 DEF CreateEnters, Goto
  <2>2. "failed" \in Labels /\ result \in [Leases -> Named] /\ creating # l
    BY <1>1, RouterAssumption DEF Labels, GroupTypes, LeaseTypes
  <2> QED BY <1>1, <1>2, <2>1, <2>2, LeaseGoes
<1>4. CASE ~Broken(l)
  <2>1. /\ lpc' = [lpc EXCEPT ![l] = "creating"] /\ creating' = l
        /\ loading' \in {loading, loading \cup {l}}
        /\ candidate' = [candidate EXCEPT ![l] = load]
    BY <1>4 DEF CreateEnters, Goto
  <2>2. GroupTypes'
    BY <1>1, <2>1 DEF GroupTypes, LeaseTypes, RouterTypes, Labels
  <2>3. RouteTrue'
    BY <1>1, <1>2, <2>1, RouterAssumption DEF RouteTrue, GroupTypes, LeaseTypes, RouterTypes
  <2>4. \A m \in Leases : queue[m] # <<>> => lid[m] # NoSession
    BY <1>1, <1>4, RouterAssumption DEF QueueTrue, Broken
  <2>5. QueueTrue'
    BY <1>1, <2>1, <2>4 DEF QueueTrue
  <2> QED BY <2>2, <2>3, <2>5
<1> QED BY <1>3, <1>4

\* Create ends: it fails, and the group with it unless the client had failed already, or the
\* session is named.
LEMMA CreateEffect ==
    ASSUME Known, NEW l \in Leases, CreateEnds(l)
    PROVE  /\ lpc[l] = "acked" /\ creating = l /\ creating' = Nobody
           /\ result[l] \in Sessions
           /\ UNCHANGED <<cpc, err, events, notes, mark, candidate, result, router, serving, inHand, delivered>>
           /\ \/ /\ lpc' = [lpc EXCEPT ![l] = "failed"] /\ UNCHANGED <<lid, loading, routes, released>>
                 /\ queue' \in [Leases -> Seq(Sessions)]
                 /\ \A m \in Leases : queue'[m] \in {queue[m], <<>>}
                 /\ gerr' \in BOOLEAN /\ (gerr => gerr') /\ (gerr' \/ err')
              \/ /\ ~Broken(l) /\ ~mismatch(l, result[l])
                 /\ lpc' = [lpc EXCEPT ![l] = "ready"]
                 /\ lid' = [lid EXCEPT ![l] = result[l]]
                 /\ loading' = loading \ {l}
                 /\ routes' = [routes EXCEPT ![result[l]] = l]
                 /\ UNCHANGED <<queue, released, gerr>>
<1>1. /\ lpc[l] = "acked" /\ creating = l /\ creating' = Nobody
      /\ UNCHANGED <<cpc, err, events, notes, mark, candidate, result, router, serving, inHand, delivered>>
  BY DEF CreateEnds, clientVars, callVars, retireVars, ioVars
<1>2. result[l] \in Sessions /\ lid[l] = NoSession
  BY <1>1, RouterAssumption DEF Known, GroupTrue, RouteTrue
<1>3. CASE /\ lpc' = [lpc EXCEPT ![l] = "failed"] /\ UNCHANGED <<lid, loading, routes>>
           /\ retireLocked \/ (UNCHANGED groupVars /\ Broken(l))
  <2>1. l \notin released
    BY <1>2 DEF Known, GroupTrue, RouteTrue
  <2>2. CASE retireLocked
    BY <1>1, <1>2, <1>3, <2>2, RetireGroup DEF Known
  <2>3. CASE UNCHANGED groupVars /\ Broken(l)
    BY <1>1, <1>2, <1>3, <2>1, <2>3 DEF groupVars, Broken, Known, GroupTypes, LeaseTypes, RouterTypes
  <2> QED BY <1>3, <2>2, <2>3
<1>4. CASE /\ ~Broken(l) /\ ~mismatch(l, result[l])
           /\ lpc' = [lpc EXCEPT ![l] = "ready"]
           /\ lid' = [lid EXCEPT ![l] = result[l]]
           /\ loading' = loading \ {l}
           /\ routes' = [routes EXCEPT ![result[l]] = l]
           /\ UNCHANGED <<queue, released, gerr>>
  BY <1>1, <1>2, <1>4
<1> QED BY <1>3, <1>4 DEF CreateEnds, Goto, groupVars

LEMMA CreateEndsKeeps ==
    ASSUME Known, NEW l \in Leases, CreateEnds(l)
    PROVE  GroupTypes' /\ GroupTrue'
<1> USE DEF Known, GroupTrue
<1> DEFINE s == result[l]
<1>1. /\ lpc[l] = "acked" /\ creating = l /\ creating' = Nobody /\ s \in Sessions
      /\ UNCHANGED <<cpc, err, candidate, result, router, serving, inHand, delivered>>
  BY CreateEffect
<1>2. CASE /\ lpc' = [lpc EXCEPT ![l] = "failed"] /\ UNCHANGED <<lid, loading, routes, released>>
           /\ queue' \in [Leases -> Seq(Sessions)]
           /\ \A m \in Leases : queue'[m] \in {queue[m], <<>>}
           /\ gerr' \in BOOLEAN /\ (gerr => gerr') /\ (gerr' \/ err')
  <2>1. GroupTypes'
    BY <1>1, <1>2 DEF GroupTypes, LeaseTypes, RouterTypes, Labels
  <2>2. RouteTrue'
    BY <1>1, <1>2, RouterAssumption DEF RouteTrue, GroupTypes, LeaseTypes, RouterTypes
  <2>3. QueueTrue'
    BY <1>1, <1>2, QueueFrame
  <2> QED BY <2>1, <2>2, <2>3
<1>3. CASE /\ ~Broken(l) /\ ~mismatch(l, s)
           /\ lpc' = [lpc EXCEPT ![l] = "ready"]
           /\ lid' = [lid EXCEPT ![l] = s]
           /\ loading' = loading \ {l}
           /\ routes' = [routes EXCEPT ![s] = l]
           /\ UNCHANGED <<queue, released, gerr>>
  <2>0. NoSession \notin Sessions /\ Sessions \subseteq Named /\ s # NoSession
    BY <1>1, ClientAssumption DEF Named
  <2>1. GroupTypes'
    BY <1>1, <1>3, <2>0 DEF GroupTypes, LeaseTypes, RouterTypes, Labels
  <2>2. /\ routes[s] = "unknown" /\ (candidate[l] = NoSession \/ candidate[l] = s)
        /\ ~gerr /\ ~err
    BY <1>3 DEF mismatch, Broken
  <2>3. \A m \in Leases : lid[m] # s
    BY <2>0, <2>2, MarkAssumption DEF RouteTrue
  <2>4. lid'[l] = s /\ routes'[s] = l /\ lpc'[l] = "ready" /\ s \in Sessions
    BY <1>1, <1>3 DEF GroupTypes, LeaseTypes, RouterTypes
  <2>5. /\ \A m \in Leases \ {l} : lid'[m] = lid[m] /\ lpc'[m] = lpc[m]
        /\ \A r \in Sessions \ {s} : routes'[r] = routes[r]
    BY <1>3 DEF GroupTypes, LeaseTypes, RouterTypes
  <2>6. RouteTrue'
    <3>1. \A m \in Leases : cpc'[m] # "idle" => lpc'[m] = "calling"
      BY <1>1, <2>5 DEF RouteTrue
    <3>2. \A m \in released' : lid'[m] # NoSession
      BY <1>3, <2>0, <2>4, <2>5 DEF RouteTrue, GroupTypes, LeaseTypes
    <3>3. \A m \in Leases : /\ lpc'[m] = "creating" => creating' = m
                            /\ lpc'[m] = "new" => lid'[m] = NoSession
      BY <1>1, <2>4, <2>5 DEF RouteTrue
    <3>4. \A m \in Leases : lpc'[m] \in {"barrier", "taken", "acked"} => result'[m] \in Sessions
      BY <1>1, <2>4, <2>5 DEF RouteTrue
    <3>5. \A m \in Leases : lpc'[m] \in {"calling", "barrier", "taken", "acked", "ready", "idle"} => lid'[m] # NoSession
      BY <1>1, <2>0, <2>4, <2>5 DEF RouteTrue
    <3>6. \A m \in Leases : lid'[m] # NoSession =>
            routes'[lid'[m]] \in {m, "nil"} /\ \A o \in Leases \ {m} : lid'[o] # lid'[m]
      <4>1. \A m \in Leases : lid[m] \in Named
        BY DEF GroupTypes, LeaseTypes
      <4> QED BY <2>3, <2>4, <2>5, <4>1 DEF RouteTrue, Named
    <3>7. \A r \in Sessions : routes'[r] \in Leases => lid'[routes'[r]] = r
      <4>1. \A r \in Sessions \ {s} : routes[r] # l
        BY <1>1, <2>0, RouterAssumption DEF RouteTrue
      <4> QED BY <2>4, <2>5, <4>1 DEF RouteTrue
    <3> QED BY <1>1, <3>1, <3>2, <3>3, <3>4, <3>5, <3>6, <3>7 DEF RouteTrue
  <2>7. \A m \in Leases \ {l} : queue[m] # <<>> => lid[m] # NoSession
    BY <1>1, <2>2, RouterAssumption DEF QueueTrue
  <2>8. \A i \in 1..Len(queue[l]) : queue[l][i] = s
    <3>1. lid[l] = NoSession /\ queue[l] \in Seq(Sessions)
      BY <1>1, RouterAssumption DEF RouteTrue, GroupTypes, LeaseTypes
    <3> QED BY <2>2, <3>1 DEF QueueTrue
  <2>9. QueueTrue'
    BY <1>3, <2>0, <2>4, <2>5, <2>7, <2>8 DEF QueueTrue
  <2> QED BY <2>1, <2>6, <2>9
<1> QED BY <1>2, <1>3, CreateEffect

LEMMA ReleaseKeeps ==
    ASSUME Known, NEW l \in Leases, ReleaseIdle(l)
    PROVE  GroupTypes' /\ GroupTrue'
<1> USE DEF Known, GroupTrue
<1>1. /\ lpc[l] = "idle" /\ released' = released \cup {l}
      /\ queue' = [queue EXCEPT ![l] = <<>>]
      /\ routes' = [routes EXCEPT ![lid[l]] = "nil"]
      /\ gerr' \in BOOLEAN /\ (gerr => gerr')
      /\ UNCHANGED <<cpc, err, lpc, lid, candidate, loading, result, creating, router, serving, inHand, delivered>>
  BY DEF ReleaseIdle, clientVars, callVars, retireVars, leaseVars, GroupTypes, RouterTypes
<1>2. lid[l] # NoSession /\ lid[l] \in Sessions
  BY <1>1, RouterAssumption DEF RouteTrue, GroupTypes, LeaseTypes, Named
<1>3. queue' \in [Leases -> Seq(Sessions)] /\ \A m \in Leases : queue'[m] \in {queue[m], <<>>}
  BY <1>1 DEF GroupTypes, LeaseTypes
<1>4. GroupTypes'
  BY <1>1, <1>2, <1>3 DEF GroupTypes, LeaseTypes, RouterTypes
<1>5. RouteTrue'
  BY <1>1, <1>2, MarkAssumption DEF RouteTrue, GroupTypes, LeaseTypes, RouterTypes
<1>6. QueueTrue'
  BY <1>1, <1>3, QueueFrame
<1> QED BY <1>4, <1>5, <1>6

LEMMA KnownKeeps == Known /\ [Next]_vars => Known'
<1> SUFFICES ASSUME Known, [Next]_vars PROVE Known'
  OBVIOUS
<1>1. ClientTypes' /\ ClientTrue'
  BY ClientMoves, ClientKeeps DEF Known
<1>2. ASSUME ClientStep PROVE GroupTypes' /\ GroupTrue'
  BY <1>2, ClientStepKeeps
<1>3. ASSUME RouterStep PROVE GroupTypes' /\ GroupTrue'
  BY <1>3, RouterKeeps, DeliverKeeps DEF RouterStep
<1>4. ASSUME NEW l \in Leases, LeaseStep(l) \/ CreateLeaves(l) \/ LeaseTakes(l) \/ ReleaseIdle(l)
      PROVE  GroupTypes' /\ GroupTrue'
  BY <1>4, LeaseStepKeeps, EndsKeep, CreateEndsKeeps, ReleaseKeeps DEF LeaseStep
<1>5. ASSUME NEW l \in Leases, \E large \in BOOLEAN : LeaseTooLarge(l, large) PROVE GroupTypes' /\ GroupTrue'
  BY <1>5, LeaseStepKeeps
<1>6. ASSUME NEW l \in Leases, NEW load \in Named, CreateEnters(l, load) PROVE GroupTypes' /\ GroupTrue'
  BY <1>6, EntersKeeps
<1>7. ASSUME GroupCloses \/ LeaseCloses PROVE GroupTypes' /\ GroupTrue'
  BY <1>7, ClosesKeep
<1>8. ASSUME UNCHANGED vars PROVE GroupTypes' /\ GroupTrue'
  <2>1. /\ UNCHANGED <<cpc, err, lpc, lid, candidate, loading, result, queue, released, gerr>>
        /\ UNCHANGED <<routes, creating, router, serving, inHand, delivered>>
    BY <1>8 DEF vars, clientVars, callVars, retireVars, leaseVars, groupVars, routeVars
  <2>2. GroupTypes'
    BY <2>1 DEF Known, GroupTypes, LeaseTypes, RouterTypes
  <2>3. RouteTrue'
    BY <2>1 DEF Known, GroupTrue, RouteTrue
  <2>4. QueueTrue'
    BY <2>1, QueueFrame DEF Known, GroupTrue
  <2> QED BY <2>2, <2>3, <2>4 DEF GroupTrue
<1>9. GroupTypes' /\ GroupTrue'
  BY <1>2, <1>3, <1>4, <1>5, <1>6, <1>7, <1>8 DEF Next, Named
<1> QED BY <1>1, <1>9 DEF Known

LEMMA KnownInit == Init => Known
<1> SUFFICES ASSUME Init PROVE Known
  OBVIOUS
<1> USE RouterAssumption, MarkAssumption
<1>1. Empty \in Boxes
  BY DEF Empty, Boxes, Named
<1>2. ClientTypes
  <2>1. /\ notes \in [Sessions -> Nat] /\ mark = [c \in Leases |-> notes]
        /\ cpc = [c \in Leases |-> "idle"] /\ id = [c \in Leases |-> 0] /\ box = [c \in Leases |-> Empty]
        /\ events = <<>> /\ writes = <<>> /\ written = {} /\ frames = 0 /\ nextID = 1 /\ err = FALSE /\ pending = {}
    BY DEF Init, ClientInit
  <2>2. box \in [Leases -> Boxes] /\ cpc \in [Leases -> {"idle", "full", "waiting", "expired"}] /\ id \in [Leases -> Nat]
    BY <1>1, <2>1
  <2>3. mark \in [Leases -> [Sessions -> Nat]]
    BY <2>1
  <2>4. events \in Seq(Named) /\ writes \in Seq(Nat)
    BY <2>1
  <2>5. /\ written \subseteq Nat /\ frames \in Nat /\ nextID \in Nat \ {0}
        /\ pending \subseteq Leases /\ notes \in [Sessions -> Nat]
    BY DEF Init, ClientInit
  <2>6. err \in BOOLEAN
    BY <2>1
  <2> QED BY <2>2, <2>3, <2>4, <2>5, <2>6 DEF ClientTypes
<1>3. ClientTrue
  BY DEF Init, ClientInit, ClientTrue
<1>4. LeaseTypes
  <2>1. /\ lpc = [l \in Leases |-> "new"] /\ lid = [l \in Leases |-> NoSession] /\ candidate = lid /\ result = lid
        /\ loading = {} /\ released = {}
        /\ queue = [l \in Leases |-> <<>>] /\ delivered = [l \in Leases |-> 0]
    BY DEF Init
  <2> QED BY <2>1 DEF LeaseTypes, Named, Labels
<1>5. RouterTypes
  BY DEF Init, RouterTypes
<1>6. GroupTrue
  BY DEF Init, ClientInit, GroupTrue, RouteTrue, QueueTrue
<1> QED BY <1>2, <1>3, <1>4, <1>5, <1>6 DEF Known, GroupTypes

LEMMA KnownAlways == Spec => []Known
BY KnownInit, KnownKeeps, PTL DEF Spec

\* The answer a Call takes is one the process gave to that very request: to the id its
\* caller registered last.
THEOREM OwnAnswerHolds == Spec => []OwnAnswer
<1>1. Known => OwnAnswer
  BY DEF Known, ClientTrue, OwnAnswer, Answered
<1> QED BY <1>1, KnownAlways, PTL

\* What a lease finds in its queue is about its own session, and never about the session
\* of another lease of the process.
THEOREM AttributionHolds == Spec => []Attribution
<1>1. Known => Attribution
  <2> SUFFICES ASSUME Known, NEW l \in Leases, NEW i \in 1..Len(queue[l])
               PROVE  /\ lid[l] # NoSession => queue[l][i] = lid[l]
                      /\ \A m \in Leases \ {l} : queue[l][i] # lid[m]
    BY DEF Attribution
  <2>1. queue[l] # <<>>
    BY DEF Known, GroupTypes, LeaseTypes
  <2> QED BY <2>1 DEF Known, GroupTrue, RouteTrue, QueueTrue
<1> QED BY <1>1, KnownAlways, PTL

----------------------------------------------------------------------------
(* The flow of notifications.                                              *)

LEMMA CountAppend ==
    ASSUME NEW S, NEW q \in Seq(S), NEW e \in S, NEW s
    PROVE  /\ Count(q, s) \in Nat
           /\ Count(Append(q, e), s) = Count(q, s) + (IF e = s THEN 1 ELSE 0)
<1> DEFINE old == {i \in 1..Len(q) : q[i] = s}
           new == {i \in 1..Len(Append(q, e)) : Append(q, e)[i] = s}
<1>1. Len(q) \in Nat /\ Len(Append(q, e)) = Len(q) + 1
      /\ \A i \in 1..(Len(q) + 1) : Append(q, e)[i] = IF i <= Len(q) THEN q[i] ELSE e
  OBVIOUS
<1>2. IsFiniteSet(old)
  <2>1. IsFiniteSet(1..Len(q)) /\ old \in SUBSET (1..Len(q))
    BY <1>1, FS_Interval
  <2> QED BY <2>1, FS_Subset
<1>3. Cardinality(old) \in Nat
  BY <1>2, FS_CardinalityType
<1>4. CASE e = s
  <2>1. new = old \cup {Len(q) + 1} /\ Len(q) + 1 \notin old
    BY <1>1, <1>4
  <2> QED BY <1>2, <1>3, <1>4, <2>1, FS_AddElement DEF Count
<1>5. CASE e # s
  <2>1. new = old
    BY <1>1, <1>5
  <2>2. Count(Append(q, e), s) = Cardinality(new) /\ Count(q, s) = Cardinality(old)
    BY DEF Count
  <2> HIDE DEF new, old
  <2> QED BY <1>3, <1>5, <2>1, <2>2
<1> QED BY <1>4, <1>5

LEMMA CountTail ==
    ASSUME NEW S, NEW q \in Seq(S), q # <<>>, NEW s
    PROVE  /\ Count(q, s) \in Nat
           /\ Count(q, s) = Count(Tail(q), s) + (IF Head(q) = s THEN 1 ELSE 0)
<1> DEFINE old == {i \in 1..Len(q) : q[i] = s}
           tl == {i \in 1..Len(Tail(q)) : Tail(q)[i] = s}
           f == [i \in tl |-> i + 1]
<1>1. /\ Len(q) \in Nat \ {0} /\ Len(Tail(q)) = Len(q) - 1 /\ Head(q) = q[1]
      /\ \A i \in 1..Len(Tail(q)) : Tail(q)[i] = q[i + 1]
  OBVIOUS
<1>2. IsFiniteSet(old) /\ IsFiniteSet(tl)
  <2>1. /\ IsFiniteSet(1..Len(q)) /\ old \in SUBSET (1..Len(q))
        /\ IsFiniteSet(1..Len(Tail(q))) /\ tl \in SUBSET (1..Len(Tail(q)))
    BY <1>1, FS_Interval
  <2> QED BY <2>1, FS_Subset
<1>3. Cardinality(old) \in Nat /\ Cardinality(tl) \in Nat
  BY <1>2, FS_CardinalityType
<1>4. f \in Bijection(tl, old \ {1})
  <2>1. f \in [tl -> old \ {1}]
    BY <1>1
  <2>2. \A a, b \in tl : f[a] = f[b] => a = b
    OBVIOUS
  <2>3. \A j \in old \ {1} : j - 1 \in tl /\ f[j - 1] = j
    BY <1>1
  <2> HIDE DEF tl, old, f
  <2>4. f \in Injection(tl, old \ {1}) /\ f \in Surjection(tl, old \ {1})
    BY <2>1, <2>2, <2>3 DEF Injection, IsInjective, Surjection
  <2> QED BY <2>4 DEF Bijection
<1>5. Cardinality(tl) = Cardinality(old \ {1})
  BY ZenonT(60), <1>2, <1>4, FS_Bijection DEF ExistsBijection
<1>6. Cardinality(old \ {1}) = IF 1 \in old THEN Cardinality(old) - 1 ELSE Cardinality(old)
  BY <1>2, FS_RemoveElement
<1>7. 1 \in old <=> Head(q) = s
  BY <1>1
<1>8. Count(q, s) = Cardinality(old) /\ Count(Tail(q), s) = Cardinality(tl)
  BY DEF Count
<1> HIDE DEF tl, old
<1> QED BY <1>3, <1>5, <1>6, <1>7, <1>8

LEMMA CountEmpty == ASSUME NEW s PROVE Count(<<>>, s) = 0
<1>1. {i \in 1..Len(<<>>) : <<>>[i] = s} = {}
  OBVIOUS
<1> QED BY <1>1, FS_EmptySet DEF Count

\* Only a caller that waits for an answer has its mark moved.
LEMMA MarkStays ==
    ASSUME Known, ClientActs, NEW l \in Leases, cpc[l] = "idle"
    PROVE  mark'[l] = mark[l]
<1>1. l \notin pending
  BY DEF Known, ClientTrue
<1>2. ASSUME NEW i, NEW kind, NEW s, ReadAnswer(i, kind, s) PROVE mark'[l] = mark[l]
  BY <1>1, <1>2 DEF ReadAnswer, correlated, Fails, Known, ClientTypes
<1>3. CASE \E m \in Leases : CallerActs(m)
  BY <1>3 DEF CallerActs, CallRetires, CallExpires, CallRegisters, GivesUp, CallFails, ioVars
<1>4. CASE ReadAsk \/ ReadFails \/ CleanupRuns \/ (\E s \in Named : ReadNote(s)) \/ (\E fault \in BOOLEAN : WritePacket(fault))
  BY <1>4 DEF ReadAsk, ReadFails, ReadNote, WritePacket, CleanupRuns
<1> QED BY <1>2, <1>3, <1>4 DEF ClientActs, clientVars, ioVars

\* How far one step can take a lease.
Moves(l) ==
    /\ delivered'[l] >= delivered[l]
    /\ lid[l] # NoSession => lid'[l] = lid[l]
    /\ lpc[l] = "idle" => lpc'[l] = "idle"
    /\ lpc'[l] = "idle" => lpc[l] = "idle" \/ PromptEnds(l)
    /\ lpc'[l] = "acked" => lpc[l] = "acked" \/ (lpc[l] = "taken" /\ serving = l /\ RouterDrained)

LEMMA LeaseMoves ==
    ASSUME Known, [Next]_vars, NEW l \in Leases
    PROVE  Moves(l)
<1>0. delivered \in [Leases -> Nat] /\ lpc \in [Leases -> Labels] /\ lid \in [Leases -> Named]
  BY DEF Known, GroupTypes, LeaseTypes
<1>1. CASE UNCHANGED <<lpc, lid, delivered>>
  BY <1>0, <1>1 DEF Moves
<1>2. CASE ClientStep \/ GroupCloses \/ LeaseCloses \/ UNCHANGED vars \/ RouterFails \/ RouterTakes
  BY <1>1, <1>2 DEF ClientStep, GroupCloses, LeaseCloses, RouterFails, RouterTakes, vars, leaseVars, routeVars
<1>3. CASE RouterDrained
  BY <1>0, <1>3 DEF RouterDrained, Moves
<1>4. CASE Deliver
  <2>1. UNCHANGED <<lpc, lid>>
    BY <1>4, DeliverEffect
  <2>2. delivered' = delivered \/ \E m \in Leases : delivered' = [delivered EXCEPT ![m] = @ + 1]
    BY <1>4, DeliverEffect DEF GivenTo
  <2> QED BY <1>0, <2>1, <2>2 DEF Moves
<1>5. ASSUME NEW m \in Leases, RouterSelects(m) PROVE Moves(l)
  BY <1>0, <1>5 DEF RouterSelects, Goto, Moves
<1>6. ASSUME NEW m \in Leases, CreateEnds(m) PROVE Moves(l)
  <2>1. /\ lid[m] = NoSession /\ lpc[m] = "acked" /\ UNCHANGED delivered
        /\ lpc' \in {[lpc EXCEPT ![m] = "failed"], [lpc EXCEPT ![m] = "ready"]}
        /\ lid' = lid \/ lid' = [lid EXCEPT ![m] = result[m]]
    BY <1>6, CreateEffect, RouterAssumption DEF Known, GroupTrue, RouteTrue
  <2> QED BY <1>0, <2>1 DEF Moves
<1>7. ASSUME NEW m \in Leases, PromptEnds(m) PROVE Moves(l)
  BY <1>0, <1>7 DEF PromptEnds, Goto, routeVars, Moves
<1>8. ASSUME NEW m \in Leases, NEW to \in Labels \ {"idle", "acked"},
             lpc[m] # "idle", lpc' = [lpc EXCEPT ![m] = to], UNCHANGED <<lid, delivered>>
      PROVE  Moves(l)
  BY <1>0, <1>8 DEF Moves
<1>9. {"calling", "failed", "barrier", "creating"} \subseteq Labels \ {"idle", "acked"}
  BY DEF Labels
<1>10. ASSUME NEW m \in Leases, LeaseCalls(m) \/ LeaseRefused(m) \/ LeaseGivesUp(m) \/ LeaseAnswered(m) \/ BarrierFails(m)
       PROVE  Moves(l)
  BY <1>8, <1>9, <1>10 DEF LeaseCalls, LeaseRefused, LeaseGivesUp, LeaseAnswered, BarrierFails, Failed, Goto, routeVars
<1>11. ASSUME NEW m \in Leases, NEW large \in BOOLEAN, LeaseTooLarge(m, large) PROVE Moves(l)
  BY <1>8, <1>9, <1>11 DEF LeaseTooLarge, Goto, routeVars
<1>12. ASSUME NEW m \in Leases, NEW load \in Named, CreateEnters(m, load) PROVE Moves(l)
  BY <1>8, <1>9, <1>12 DEF CreateEnters, Goto
<1>13. ASSUME NEW m \in Leases, CreateLeaves(m) PROVE Moves(l)
  BY <1>8, <1>9, <1>13 DEF CreateLeaves, Goto, routeVars
<1>14. ASSUME NEW m \in Leases, LeaseTakes(m) \/ ReleaseIdle(m) PROVE Moves(l)
  BY <1>1, <1>14 DEF LeaseTakes, ReleaseIdle, leaseVars, routeVars
<1> QED BY <1>2, <1>3, <1>4, <1>5, <1>6, <1>7, <1>10, <1>11, <1>12, <1>13, <1>14 DEF Next, RouterStep, LeaseStep, Named

\* Neither failure is taken back.
LEMMA FailureStays ==
    ASSUME Known, [Next]_vars
    PROVE  (gerr => gerr') /\ (err => err')
<1>1. err => err'
  BY ClientMoves, ErrStays DEF Known
<1>2. gerr \in BOOLEAN
  BY DEF Known, GroupTypes, RouterTypes
<1>3. gerr => gerr'
  BY <1>2 DEF Next, vars, ClientStep, RouterStep, LeaseStep, GroupCloses, LeaseCloses, CreateEnters, CreateLeaves, LeaseTakes,
         ReleaseIdle, LeaseTooLarge, LeaseCalls, LeaseRefused, LeaseGivesUp, LeaseAnswered, BarrierFails, PromptEnds,
         CreateEnds, Failed, RouterFails, RouterTakes, RouterDrained, Deliver, RouterSelects, retireLocked, groupVars
<1> QED BY <1>1, <1>3

\* A step that moves no notification and gives no session.
LEMMA FlowFrame ==
    ASSUME Known, [Next]_vars, FlowTrue, ~gerr, ~err, ~RouterDrained,
           UNCHANGED <<notes, events, inHand, routes, creating, candidate, lid, delivered>>
    PROVE  FlowTrue'
<1>1. ASSUME NEW s \in Sessions PROVE Accounted(s)'
  BY <1>1 DEF FlowTrue, Accounted, InFlight
<1>2. ASSUME NEW l \in Leases PROVE Served(l)'
  <2>1. Served(l) /\ Moves(l)
    BY <1>2, LeaseMoves DEF FlowTrue
  <2>2. lpc[l] = "acked" => mark'[l] = mark[l]
    BY <1>2, ClientMoves, MarkStays DEF Known, GroupTrue, RouteTrue
  <2> QED BY <2>1, <2>2 DEF Served, Moves
<1> QED BY <1>1, <1>2 DEF FlowTrue

LEMMA FlowTypes ==
    ASSUME Known, NEW s \in Sessions
    PROVE  /\ Count(events, s) \in Nat /\ InFlight(s) \in Nat /\ notes[s] \in Nat
           /\ \A l \in Leases : delivered[l] \in Nat
<1>1. events \in Seq(Named) /\ s \in Named
  BY DEF Known, ClientTypes, Named
<1>2. Count(events, s) \in Nat
  BY <1>1, CountAppend
<1> QED BY <1>2 DEF InFlight, Known, ClientTypes, GroupTypes, LeaseTypes

LEMMA NoteFlows ==
    ASSUME Known, FlowTrue, ~gerr, ~err, ~err', NEW r \in Named, ReadNote(r), [Next]_vars,
           UNCHANGED <<inHand, routes, creating, candidate, lid, lpc, delivered>>
    PROVE  FlowTrue'
<1>1. events' = Append(events, r) /\ mark' = mark
      /\ notes' = IF r = NoSession THEN notes ELSE [notes EXCEPT ![r] = @ + 1]
  BY DEF ReadNote, Fails, retire
<1>2. ASSUME NEW s \in Sessions PROVE Accounted(s)'
  <2>1. events \in Seq(Named) /\ notes \in [Sessions -> Nat] /\ NoSession \notin Sessions
    BY ClientAssumption DEF Known, ClientTypes
  <2>2. Count(events', s) = Count(events, s) + (IF r = s THEN 1 ELSE 0)
    BY <1>1, <2>1, CountAppend
  <2>3. notes'[s] = notes[s] + (IF r = s THEN 1 ELSE 0)
    BY <1>1, <1>2, <2>1 DEF Named
  <2>4. Accounted(s)
    BY <1>2 DEF FlowTrue
  <2>5. routes[s] \in Leases => delivered[routes[s]] \in Nat
    BY <1>2, FlowTypes
  <2>6. creating # Nobody => delivered[creating] \in Nat
    BY <1>2, FlowTypes DEF Known, GroupTypes, RouterTypes
  <2>7. InFlight(s)' = InFlight(s) + (IF r = s THEN 1 ELSE 0)
    BY <1>2, <2>2, FlowTypes DEF InFlight
  <2> QED BY <1>2, <2>3, <2>4, <2>5, <2>6, <2>7, FlowTypes DEF Accounted
<1>3. ASSUME NEW l \in Leases PROVE Served(l)'
  BY <1>1, <1>3 DEF FlowTrue, Served
<1> QED BY <1>2, <1>3 DEF FlowTrue

LEMMA TakeFlows ==
    ASSUME Known, FlowTrue, ~gerr, ~err, RouterTakes
    PROVE  FlowTrue'
<1>1. /\ inHand = "none" /\ events # <<>> /\ inHand' = Head(events) /\ events' = Tail(events)
      /\ UNCHANGED <<notes, mark, lpc, lid, candidate, routes, creating, delivered>>
  BY DEF RouterTakes, Draining, leaseVars
<1>2. ASSUME NEW s \in Sessions PROVE Accounted(s)'
  <2>1. InFlight(s)' = InFlight(s)
    <3>1. events \in Seq(Named) /\ inHand # s /\ s \in Named
      BY <1>1, <1>2, MarkAssumption DEF Known, ClientTypes, Named
    <3>2. Count(events, s) = Count(Tail(events), s) + (IF Head(events) = s THEN 1 ELSE 0)
      BY <1>1, <3>1, CountTail
    <3>3. Count(Tail(events), s) \in Nat
      <4>1. Tail(events) \in Seq(Named)
        BY <1>1, <3>1
      <4> QED BY <3>1, <4>1, CountAppend
    <3> QED BY <1>1, <3>1, <3>2, <3>3 DEF InFlight
  <2> QED BY <1>1, <1>2, <2>1 DEF FlowTrue, Accounted
<1>3. ASSUME NEW l \in Leases PROVE Served(l)'
  BY <1>1, <1>3 DEF FlowTrue, Served
<1> QED BY <1>2, <1>3 DEF FlowTrue

\* Everything has been handed on when the router acknowledges a barrier.
LEMMA DrainFlows ==
    ASSUME Known, FlowTrue, ~gerr, ~err, RouterDrained
    PROVE  FlowTrue'
<1>1. /\ inHand = "none" /\ events = <<>>
      /\ UNCHANGED <<notes, mark, events, inHand, lid, candidate, routes, creating, delivered>>
      /\ \/ UNCHANGED lpc
         \/ serving # Nobody /\ lpc[serving] = "taken" /\ lpc' = [lpc EXCEPT ![serving] = "acked"]
  BY DEF RouterDrained, Draining, clientVars, ioVars
<1>2. ASSUME NEW s \in Sessions PROVE Accounted(s)'
  BY <1>1, <1>2 DEF FlowTrue, Accounted, InFlight
<1>3. ASSUME NEW l \in Leases PROVE Served(l)'
  <2>1. Served(l)
    BY <1>3 DEF FlowTrue
  <2>2. CASE lpc'[l] = lpc[l]
    BY <1>1, <2>1, <2>2 DEF Served
  <2>3. CASE lpc[l] = "taken" /\ lpc'[l] = "acked" /\ lid[l] # NoSession
    <3>1. lid[l] \in Sessions /\ routes[lid[l]] = l
      BY <1>3, <2>1, <2>3 DEF Served, Known, GroupTypes, LeaseTypes, Named
    <3>2. InFlight(lid[l]) = 0
      BY <1>1, <3>1, CountEmpty, MarkAssumption DEF InFlight
    <3>3. notes[lid[l]] <= delivered[l]
      BY <1>3, <3>1, <3>2, FlowTypes DEF FlowTrue, Accounted
    <3>4. mark[l][lid[l]] <= notes[lid[l]] /\ mark[l][lid[l]] \in Nat
      BY <1>3, <3>1 DEF Known, ClientTrue, ClientTypes
    <3> QED BY <1>1, <1>3, <2>3, <3>1, <3>3, <3>4, FlowTypes DEF Served
  <2>4. lpc'[l] = lpc[l] \/ (lpc[l] = "taken" /\ lpc'[l] = "acked")
    BY <1>1, <1>3 DEF Known, GroupTypes, LeaseTypes
  <2> QED BY <1>1, <2>2, <2>3, <2>4 DEF Served
<1> QED BY <1>2, <1>3 DEF FlowTrue

LEMMA DeliverFlows ==
    ASSUME Known, FlowTrue, ~gerr, ~err, ~gerr', Deliver
    PROVE  FlowTrue'
<1>1. /\ UNCHANGED <<notes, mark, events, lpc, lid, routes, creating>>
      /\ inHand # "none" /\ inHand' = "none"
      /\ \/ UNCHANGED <<candidate, delivered>> /\ (inHand \in Sessions => routes[inHand] = "nil")
         \/ inHand \in Sessions /\ \E l \in Leases : GivenTo(l)
  BY DeliverEffect, RetireGroup DEF Known
<1>2. \A s \in Sessions : s # "none"
  BY MarkAssumption
<1>3. ASSUME NEW s \in Sessions, s # inHand PROVE InFlight(s)' = InFlight(s)
  BY <1>1, <1>2, <1>3 DEF InFlight
<1>4. delivered \in [Leases -> Nat] /\ candidate \in [Leases -> Named]
  BY DEF Known, GroupTypes, LeaseTypes
<1>5. CASE UNCHANGED <<candidate, delivered>> /\ (inHand \in Sessions => routes[inHand] = "nil")
  <2>1. ASSUME NEW s \in Sessions PROVE Accounted(s)'
    <3>1. CASE s = inHand
      BY <1>1, <1>5, <2>1, <3>1, MarkAssumption DEF Accounted
    <3>2. CASE s # inHand
      BY <1>1, <1>3, <1>5, <2>1, <3>2 DEF FlowTrue, Accounted
    <3> QED BY <3>1, <3>2
  <2>2. ASSUME NEW l \in Leases PROVE Served(l)'
    BY <1>1, <1>5, <2>2 DEF FlowTrue, Served
  <2> QED BY <2>1, <2>2 DEF FlowTrue
<1>6. ASSUME inHand \in Sessions, NEW l \in Leases, GivenTo(l) PROVE FlowTrue'
  <2>1. /\ delivered'[l] = delivered[l] + 1 /\ \A m \in Leases \ {l} : delivered'[m] = delivered[m]
        /\ delivered[l] \in Nat
    BY <1>4, <1>6 DEF GivenTo
  <2>2. ASSUME NEW s \in Sessions, s = inHand
        PROVE  InFlight(s) = InFlight(s)' + 1 /\ InFlight(s)' \in Nat
    <3>1. Count(events, s) \in Nat
      BY <2>2, FlowTypes
    <3>2. InFlight(s) = Count(events, s) + 1 /\ InFlight(s)' = Count(events, s)
      BY <1>1, <1>2, <2>2, <3>1 DEF InFlight
    <3> QED BY <3>1, <3>2
  <2>3. ASSUME NEW s \in Sessions PROVE Accounted(s)'
    <3>0. /\ Accounted(s) /\ InFlight(s) \in Nat /\ notes[s] \in Nat
          /\ \A m \in Leases : delivered[m] \in Nat /\ delivered'[m] \in Nat /\ delivered'[m] >= delivered[m]
      BY <1>4, <2>1, <2>3, FlowTypes DEF FlowTrue
    <3>1. CASE s = inHand
      <4>1. CASE routes[s] = l /\ UNCHANGED candidate
        BY <1>1, <2>1, <2>2, <2>3, <3>0, <3>1, <4>1, MarkAssumption DEF Accounted
      <4>2. CASE /\ routes[s] = "unknown" /\ creating = l
                 /\ candidate' = [candidate EXCEPT ![l] = s]
        <5>1. candidate'[l] = s /\ creating' = l /\ l # Nobody /\ routes'[s] \notin Leases
          BY <1>1, <1>4, <4>2, RouterAssumption, MarkAssumption
        <5>2. notes[s] <= InFlight(s) + delivered[l]
          BY <3>0, <4>2, <5>1 DEF Accounted
        <5> QED BY <1>1, <2>1, <2>2, <2>3, <3>0, <3>1, <5>1, <5>2 DEF Accounted
      <4> QED BY <1>6, <3>1, <4>1, <4>2 DEF GivenTo
    <3>2. CASE s # inHand
      <4>1. InFlight(s)' = InFlight(s)
        BY <1>3, <2>3, <3>2
      <4>2. creating # Nobody /\ candidate[creating] = s => candidate'[creating'] = s
        BY <1>1, <1>4, <1>6, <3>2, ClientAssumption, <2>3 DEF GivenTo, Known, GroupTypes, RouterTypes
      <4>3. creating # Nobody => creating \in Leases
        BY DEF Known, GroupTypes, RouterTypes
      <4>4. routes[s] \in Leases => notes'[s] <= InFlight(s)' + delivered'[routes'[s]]
        BY <1>1, <3>0, <4>1 DEF Accounted
      <4>5. ASSUME routes[s] = "unknown"
            PROVE  notes'[s] <= InFlight(s)' + (IF creating' # Nobody /\ candidate'[creating'] = s THEN delivered'[creating'] ELSE 0)
        <5>1. CASE creating # Nobody /\ candidate[creating] = s
          BY <1>1, <3>0, <4>1, <4>2, <4>3, <4>5, <5>1 DEF Accounted
        <5>2. CASE ~(creating # Nobody /\ candidate[creating] = s)
          BY <1>1, <3>0, <4>1, <4>3, <4>5, <5>2 DEF Accounted
        <5> QED BY <5>1, <5>2
      <4> QED BY <1>1, <4>4, <4>5 DEF Accounted
    <3> QED BY <3>1, <3>2
  <2>4. ASSUME NEW m \in Leases PROVE Served(m)'
    <3>1. Served(m) /\ delivered[m] \in Nat /\ delivered'[m] >= delivered[m] /\ delivered'[m] \in Nat
      BY <1>4, <2>1, <2>4 DEF FlowTrue
    <3>2. lid[m] # NoSession => mark[m][lid[m]] \in Nat
      BY <2>4 DEF Known, ClientTypes, GroupTypes, LeaseTypes, Named
    <3> QED BY <1>1, <3>1, <3>2 DEF Served
  <2> QED BY <2>3, <2>4 DEF FlowTrue
<1> QED BY <1>1, <1>5, <1>6

LEMMA EntersFlows ==
    ASSUME Known, FlowTrue, ~gerr, ~err, NEW l \in Leases, NEW load \in Named, CreateEnters(l, load), [Next]_vars
    PROVE  FlowTrue'
<1>1. /\ lpc[l] = "new" /\ creating = Nobody
      /\ UNCHANGED <<notes, mark, events, lid, routes, inHand, delivered>>
  BY DEF CreateEnters, clientVars, ioVars
<1>2. CASE Broken(l)
  <2>1. UNCHANGED <<creating, candidate>> /\ ~RouterDrained
    BY <1>1, <1>2, RouterAssumption DEF CreateEnters, Goto, RouterDrained, Known, GroupTypes, LeaseTypes, RouterTypes
  <2> QED BY <1>1, <2>1, FlowFrame
<1>3. CASE ~Broken(l)
  <2>1. lpc' = [lpc EXCEPT ![l] = "creating"] /\ creating' = l /\ candidate' = [candidate EXCEPT ![l] = load]
    BY <1>3 DEF CreateEnters, Goto
  <2>2. ASSUME NEW s \in Sessions PROVE Accounted(s)'
    <3>1. InFlight(s)' = InFlight(s) /\ InFlight(s) \in Nat /\ delivered[l] \in Nat /\ notes[s] \in Nat
      BY <1>1, <2>2, FlowTypes DEF InFlight
    <3> QED BY <1>1, <2>1, <2>2, <3>1 DEF FlowTrue, Accounted
  <2>3. ASSUME NEW m \in Leases PROVE Served(m)'
    BY <1>1, <2>1, <2>3 DEF FlowTrue, Served, Known, GroupTypes, LeaseTypes, GroupTrue, RouteTrue
  <2> QED BY <2>2, <2>3 DEF FlowTrue
<1> QED BY <1>2, <1>3

LEMMA CreateFlows ==
    ASSUME Known, FlowTrue, ~gerr, ~err, ~gerr', ~err', NEW l \in Leases, CreateEnds(l)
    PROVE  FlowTrue'
<1> DEFINE n == result[l]
<1>1. /\ lpc[l] = "acked" /\ creating = l /\ creating' = Nobody /\ n \in Sessions
      /\ UNCHANGED <<notes, mark, events, inHand, candidate, delivered>>
      /\ ~mismatch(l, n)
      /\ lpc' = [lpc EXCEPT ![l] = "ready"]
      /\ lid' = [lid EXCEPT ![l] = n]
      /\ routes' = [routes EXCEPT ![n] = l]
  BY CreateEffect
<1>2. routes[n] = "unknown" /\ candidate[l] \in {NoSession, n} /\ NoSession \notin Sessions
  BY <1>1, ClientAssumption DEF mismatch
<1>3. /\ routes'[n] = l /\ \A s \in Sessions \ {n} : routes'[s] = routes[s]
      /\ lid'[l] = n /\ lpc'[l] = "ready"
      /\ \A m \in Leases \ {l} : lid'[m] = lid[m] /\ lpc'[m] = lpc[m]
  BY <1>1 DEF Known, GroupTypes, LeaseTypes, RouterTypes
<1>4. ASSUME NEW s \in Sessions PROVE Accounted(s)'
  <2>1. /\ Accounted(s) /\ InFlight(s)' = InFlight(s) /\ InFlight(s) \in Nat /\ notes[s] \in Nat
        /\ \A m \in Leases : delivered[m] \in Nat
    BY <1>1, <1>4, FlowTypes DEF InFlight, FlowTrue
  <2>2. CASE s = n
    <3>1. notes[s] <= InFlight(s) + delivered[l]
      BY <1>1, <1>2, <2>1, <2>2 DEF Accounted
    <3> QED BY <1>1, <1>3, <2>1, <2>2, <3>1, MarkAssumption DEF Accounted
  <2>3. CASE s # n
    <3>1. candidate[l] # s
      BY <1>2, <1>4, <2>3
    <3> QED BY <1>1, <1>3, <1>4, <2>1, <2>3, <3>1 DEF Accounted
  <2> QED BY <2>2, <2>3
<1>5. ASSUME NEW m \in Leases PROVE Served(m)'
  <2>1. CASE m = l
    BY <1>1, <1>3, <2>1 DEF Served
  <2>2. CASE m # l
    <3>1. lid[m] # n
      BY <1>1, <1>2, <1>5, MarkAssumption DEF Known, GroupTrue, RouteTrue
    <3>2. lid[m] \in Sessions \/ lid[m] = NoSession
      BY <1>5 DEF Known, GroupTypes, LeaseTypes, Named
    <3> QED BY <1>1, <1>3, <1>5, <2>2, <3>1, <3>2 DEF FlowTrue, Served
  <2> QED BY <2>1, <2>2
<1> QED BY <1>4, <1>5 DEF FlowTrue

LEMMA ReleaseFlows ==
    ASSUME Known, FlowTrue, ~gerr, ~err, NEW l \in Leases, ReleaseIdle(l)
    PROVE  FlowTrue'
<1>1. /\ lpc[l] = "idle"
      /\ routes' = [routes EXCEPT ![lid[l]] = "nil"]
      /\ UNCHANGED <<notes, mark, events, inHand, lpc, lid, candidate, creating, delivered>>
  BY DEF ReleaseIdle, clientVars, ioVars, leaseVars
<1>2. lid[l] \in Sessions /\ routes \in [Sessions -> Leases \cup {"nil", "unknown"}]
  BY <1>1, RouterAssumption DEF Known, GroupTrue, RouteTrue, GroupTypes, LeaseTypes, RouterTypes, Named
<1>3. ASSUME NEW s \in Sessions PROVE Accounted(s)'
  BY <1>1, <1>2, <1>3, MarkAssumption DEF FlowTrue, Accounted, InFlight
<1>4. ASSUME NEW m \in Leases PROVE Served(m)'
  <2>1. m # l /\ lid[m] # NoSession => lid[m] # lid[l] /\ lid[m] \in Sessions
    BY <1>4, <1>2 DEF Known, GroupTrue, RouteTrue, GroupTypes, LeaseTypes, Named
  <2> QED BY <1>1, <1>2, <1>4, <2>1 DEF FlowTrue, Served
<1> QED BY <1>3, <1>4 DEF FlowTrue

LEMMA FlowKeeps == Known /\ FlowTrue /\ [Next]_vars => FlowTrue'
<1> SUFFICES ASSUME Known, FlowTrue, [Next]_vars, ~gerr', ~err' PROVE FlowTrue'
  BY DEF FlowTrue
<1>0. ~gerr /\ ~err
  BY FailureStays
<1> DEFINE Still == UNCHANGED <<notes, events, inHand, routes, creating, candidate, lid, delivered>>
<1>1. CASE RouterDrained
  BY <1>0, <1>1, DrainFlows
<1>2. CASE ~RouterDrained /\ Still
  BY <1>0, <1>2, FlowFrame
<1>3. CASE ClientStep
  <2>1. UNCHANGED <<lpc, inHand, routes, creating, candidate, lid, delivered>>
    BY <1>3 DEF ClientStep, leaseVars, routeVars
  <2>2. CASE \E r \in Named : ReadNote(r)
    BY <1>0, <2>1, <2>2, NoteFlows
  <2>3. CASE CleanupRuns
    BY <1>0, <2>3 DEF CleanupRuns, Known, ClientTrue
  <2>4. CASE UNCHANGED <<notes, events>>
    BY <1>1, <1>2, <2>1, <2>4
  <2>5. \/ UNCHANGED <<notes, events>> \/ CleanupRuns \/ \E r \in Named : ReadNote(r)
    BY <1>0, <1>3 DEF ClientStep, ReadStep, WriteStep, ReadAsk, ReadFails, ReadAnswer, Fails, WritePacket, ProcessNoticed,
                      CallRetires, CallExpires, ioVars, Named
  <2> QED BY <2>2, <2>3, <2>4, <2>5
<1>4. CASE RouterTakes
  BY <1>0, <1>4, TakeFlows
<1>5. CASE Deliver
  BY <1>0, <1>5, DeliverFlows
<1>6. ASSUME NEW l \in Leases, NEW load \in Named, CreateEnters(l, load) PROVE FlowTrue'
  BY <1>0, <1>6, EntersFlows
<1>7. ASSUME NEW l \in Leases, CreateEnds(l) PROVE FlowTrue'
  BY <1>0, <1>7, CreateFlows
<1>8. ASSUME NEW l \in Leases, ReleaseIdle(l) PROVE FlowTrue'
  BY <1>0, <1>8, ReleaseFlows
<1>9. ASSUME NEW l \in Leases, LeaseRefused(l) \/ LeaseGivesUp(l) \/ LeaseAnswered(l) \/ BarrierFails(l) \/ LeaseCalls(l)
      PROVE  FlowTrue'
  <2>1. Still
    BY <1>9 DEF LeaseRefused, LeaseGivesUp, LeaseAnswered, BarrierFails, LeaseCalls, Failed, retireLocked, CallRegisters,
                GivesUp, clientVars, ioVars, routeVars
  <2> QED BY <1>1, <1>2, <2>1
<1>10. ASSUME NEW l \in Leases, NEW large \in BOOLEAN, LeaseTooLarge(l, large) PROVE FlowTrue'
  <2>1. Still
    BY <1>10 DEF LeaseTooLarge, CallFails, routeVars
  <2> QED BY <1>1, <1>2, <2>1
<1>11. ASSUME NEW l \in Leases, PromptEnds(l) \/ LeaseTakes(l) \/ CreateLeaves(l) \/ RouterSelects(l) PROVE FlowTrue'
  <2>1. Still
    BY <1>11 DEF PromptEnds, LeaseTakes, CreateLeaves, RouterSelects, clientVars, ioVars, leaseVars, routeVars
  <2> QED BY <1>1, <1>2, <2>1
<1>12. CASE RouterFails \/ GroupCloses \/ LeaseCloses \/ UNCHANGED vars
  <2>1. Still
    BY <1>12 DEF RouterFails, GroupCloses, LeaseCloses, vars, clientVars, ioVars, leaseVars, routeVars
  <2> QED BY <1>1, <1>2, <2>1
<1> QED BY <1>1, <1>3, <1>4, <1>5, <1>6, <1>7, <1>8, <1>9, <1>10, <1>11, <1>12 DEF Next, RouterStep, LeaseStep, Named

\* The end of a Call is seen by a lease that was given what its answer followed.
LEMMA IdleKeeps == Known /\ FlowTrue /\ OrderedDelivery /\ [Next]_vars => OrderedDelivery'
<1> SUFFICES ASSUME Known, FlowTrue, OrderedDelivery, [Next]_vars, NEW l \in Leases, lpc'[l] = "idle"
             PROVE  delivered'[l] >= mark'[l][lid'[l]]
  BY DEF OrderedDelivery
<1>1. Moves(l)
  BY LeaseMoves
<1>2. lpc[l] = "idle" \/ (PromptEnds(l) /\ lpc[l] = "acked" /\ creating # l /\ ~gerr /\ ~err)
  <2>1. ASSUME PromptEnds(l) PROVE lpc[l] = "acked" /\ creating # l /\ ~gerr /\ ~err
    BY <2>1 DEF PromptEnds, Goto, Broken, Known, GroupTypes, LeaseTypes
  <2> QED BY <1>1, <2>1 DEF Moves
<1>3. lid[l] # NoSession /\ lid[l] \in Sessions /\ cpc[l] = "idle"
  BY <1>2, RouterAssumption DEF Known, GroupTypes, LeaseTypes, GroupTrue, RouteTrue, Named
<1>4. mark'[l] = mark[l] /\ lid'[l] = lid[l] /\ delivered'[l] >= delivered[l]
  BY <1>1, <1>3, ClientMoves, MarkStays DEF Moves
<1>5. delivered[l] >= mark[l][lid[l]]
  BY <1>2, <1>3 DEF FlowTrue, Served, OrderedDelivery
<1>6. delivered[l] \in Nat /\ delivered'[l] \in Nat /\ mark[l][lid[l]] \in Nat
  <2>1. Known'
    BY KnownKeeps
  <2> QED BY <1>3, <2>1 DEF Known, ClientTypes, GroupTypes, LeaseTypes
<1> QED BY <1>4, <1>5, <1>6

\* The barrier works: when Call returns, its lease has been given every notification about its
\* session that the process sent before the answer.
THEOREM OrderHolds == Spec => []OrderedDelivery
<1>1. Init => FlowTrue /\ OrderedDelivery
  <2> SUFFICES ASSUME Init PROVE FlowTrue /\ OrderedDelivery
    OBVIOUS
  <2>1. ASSUME NEW s \in Sessions PROVE Accounted(s)
    <3>1. notes[s] = 0 /\ routes[s] = "unknown" /\ creating = Nobody
      BY <2>1 DEF Init, ClientInit
    <3>2. Known
      BY KnownInit
    <3> QED BY <2>1, <3>1, <3>2, FlowTypes, MarkAssumption DEF Accounted
  <2>2. ASSUME NEW l \in Leases PROVE Served(l)
    BY <2>2 DEF Init, Served
  <2> QED BY <2>1, <2>2 DEF FlowTrue, OrderedDelivery, Init
<1> QED BY <1>1, KnownAlways, FlowKeeps, IdleKeeps, PTL DEF Spec
----------------------------------------------------------------------------
(* Nobody waits in vain.                                                   *)

\* A request that is waited for is pending or has its answer, and a client that has failed is
\* cleaned up.
AnswersTrue ==
    /\ cleanup \in {"no", "running", "done"}
    /\ err => cleanup # "no"
    /\ \A l \in Leases : Waiting(l) => l \in pending \/ box[l] # Empty

\* The router in its select learns of a failed client; a barrier it has taken is one it serves, or
\* the group is over.
LoopTrue ==
    /\ router = "select" /\ err => activity
    /\ router = "done" => gerr
    /\ \A l \in Leases : lpc[l] = "taken" => gerr \/ (router = "serving" /\ serving = l)
    /\ \A l \in Leases : lpc[l] = "calling" => cpc[l] # "idle"

\* A retirement answers whoever waits and wakes the router.
LEMMA RetireAnswers ==
    ASSUME ClientTypes, ClientTrue, AnswersTrue, retire,
           \A l \in Leases : Waiting(l)' => Waiting(l)
    PROVE  AnswersTrue' /\ (activity' \/ (err /\ activity' = activity))
<1>1. CASE err
  BY <1>1 DEF retire, retireVars, AnswersTrue
<1>2. CASE ~err
  <2>1. /\ err' /\ activity' /\ cleanup' = "running" /\ pending' = {}
        /\ box' = [c \in Leases |-> IF c \in pending THEN Failure ELSE box[c]]
    BY <1>2, RouterAssumption DEF retire
  <2>2. Failure # Empty
    BY DEF Failure, Empty
  <2> QED BY <2>1, <2>2 DEF AnswersTrue
<1> QED BY <1>1, <1>2

LEMMA AnswersKeep ==
    ASSUME ClientTypes, ClientTrue, AnswersTrue, ClientActs
    PROVE  AnswersTrue'
<1> DEFINE Same == UNCHANGED <<pending, box, err, cleanup>>
<1>0. cpc \in [Leases -> {"idle", "full", "waiting", "expired"}] /\ box \in [Leases -> Boxes]
  BY DEF ClientTypes
<1>1. CASE Same /\ \A l \in Leases : Waiting(l)' => Waiting(l)
  BY <1>1 DEF AnswersTrue
<1>2. CASE retire /\ \A l \in Leases : Waiting(l)' => Waiting(l)
  BY <1>2, RetireAnswers
<1>3. CASE UNCHANGED cpc /\ (Same \/ retire)
  <2>1. \A l \in Leases : Waiting(l)' => Waiting(l)
    BY <1>3 DEF Waiting
  <2> QED BY <1>1, <1>2, <1>3, <2>1
<1>4. CASE UNCHANGED clientVars \/ ReadAsk \/ ReadFails \/ \E s \in Named : ReadNote(s)
  BY <1>3, <1>4 DEF clientVars, callVars, retireVars, ReadAsk, ReadFails, ReadNote, Fails
<1>5. CASE CleanupRuns
  BY <1>5 DEF CleanupRuns, callVars, AnswersTrue, Waiting
<1>6. ASSUME NEW i \in written, NEW kind \in {"result", "error"}, NEW s \in Named, ReadAnswer(i, kind, s)
      PROVE  AnswersTrue'
  <2>1. UNCHANGED cpc
    BY <1>6 DEF ReadAnswer, callVars
  <2>2. CASE correlated(i) = {}
    BY <1>3, <1>6, <2>1, <2>2 DEF ReadAnswer, Fails
  <2>3. CASE correlated(i) # {}
    <3>1. PICK c \in correlated(i) :
            /\ pending' = pending \ {c}
            /\ box' = [box EXCEPT ![c] = [kind |-> kind, session |-> s, id |-> i]]
            /\ UNCHANGED <<err, cleanup>>
      BY <1>6, <2>3 DEF ReadAnswer
    <3>2. c \in Leases
      BY <3>1 DEF correlated, ClientTypes
    <3>3. [kind |-> kind, session |-> s, id |-> i] # Empty
      BY <1>6 DEF Empty
    <3>4. box'[c] # Empty /\ \A l \in Leases \ {c} : box'[l] = box[l]
      BY <1>0, <3>1, <3>2, <3>3
    <3> QED BY <2>1, <3>1, <3>4 DEF AnswersTrue, Waiting
  <2> QED BY <2>2, <2>3
<1>7. ASSUME NEW fault \in BOOLEAN, WritePacket(fault) PROVE AnswersTrue'
  BY <1>3, <1>7 DEF WritePacket, callVars, retireVars
<1>8. CASE retire /\ UNCHANGED <<callVars, ioVars>>
  BY <1>3, <1>8 DEF callVars
<1>9. ASSUME NEW l \in Leases, CallerActs(l) PROVE AnswersTrue'
  <2>1. CASE CallRetires(l)
    <3>1. retire /\ cpc[l] = "full" /\ cpc' = [cpc EXCEPT ![l] = "waiting"]
      BY <2>1 DEF CallRetires
    <3> QED BY <1>0, <1>2, <3>1 DEF Waiting
  <2>2. CASE CallExpires(l)
    <3>1. cpc' = [cpc EXCEPT ![l] = "expired"] /\ Same
      BY <2>2 DEF CallExpires, retireVars
    <3> QED BY <1>0, <1>1, <3>1 DEF Waiting
  <2>3. CASE CallRegisters(l)
    <3>1. /\ UNCHANGED <<err, cleanup>> /\ pending' = pending \cup {l}
          /\ box' = [box EXCEPT ![l] = Empty]
          /\ \A m \in Leases \ {l} : cpc'[m] = cpc[m]
      BY <1>0, <2>3 DEF CallRegisters
    <3> QED BY <1>0, <3>1 DEF AnswersTrue, Waiting
  <2>4. CASE GivesUp(l)
    <3>1. retire /\ cpc' = [cpc EXCEPT ![l] = "idle"]
      BY <2>4 DEF GivesUp
    <3> QED BY <1>0, <1>2, <3>1 DEF Waiting
  <2>5. CASE \E large \in BOOLEAN : CallFails(l, large)
    <3>1. cpc' = [cpc EXCEPT ![l] = "expired"] /\ Same
      BY <2>5 DEF CallFails, retireVars
    <3> QED BY <1>0, <1>1, <3>1 DEF Waiting
  <2>6. CASE TakesAnswer(l) /\ UNCHANGED <<id, retireVars, ioVars>>
    <3>1. cpc' = [cpc EXCEPT ![l] = "idle"] /\ Same
      BY <2>6 DEF TakesAnswer, retireVars
    <3> QED BY <1>0, <1>1, <3>1 DEF Waiting
  <2> QED BY <1>9, <2>1, <2>2, <2>3, <2>4, <2>5, <2>6 DEF CallerActs
<1>10. CASE /\ events # <<>> /\ events' = Tail(events)
            /\ UNCHANGED <<callVars, retireVars, nextID, writes, written, frames, notes, mark>>
  BY <1>3, <1>10 DEF callVars, retireVars
<1>11. CASE activity' = FALSE /\ UNCHANGED <<callVars, pending, box, err, cleanup, ioVars>>
  BY <1>3, <1>11 DEF callVars
<1>12. NoSession \in Named /\ Sessions \subseteq Named
  BY DEF Named
<1> QED BY <1>4, <1>5, <1>6, <1>7, <1>8, <1>9, <1>10, <1>11, <1>12 DEF ClientActs

\* A client that fails leaves the router a sign, which the router takes only as it goes on.
LEMMA Wakes ==
    ASSUME [Next]_vars, router = "select", router' = "select"
    PROVE  retire \/ UNCHANGED <<err, activity>> \/ activity' = TRUE
<1> DEFINE Moved == retire \/ UNCHANGED <<err, activity>> \/ activity' = TRUE
<1>0. UNCHANGED clientVars => UNCHANGED <<err, activity>>
  BY DEF clientVars, retireVars
<1>1. CASE ClientStep
  <2>1. CASE ReadStep
    BY <2>1 DEF ReadStep, ReadAsk, ReadFails, ReadNote, ReadAnswer, Fails, retireVars
  <2>2. CASE WriteStep \/ CleanupRuns \/ ProcessNoticed \/ \E l \in Leases : CallRetires(l) \/ CallExpires(l)
    BY <2>2 DEF WriteStep, WritePacket, CleanupRuns, ProcessNoticed, CallRetires, CallExpires, retireVars
  <2> QED BY <1>1, <2>1, <2>2 DEF ClientStep
<1>2. CASE RouterStep
  <2>1. ~RouterFails /\ ~RouterTakes /\ ~RouterDrained /\ \A l \in Leases : ~RouterSelects(l)
    BY DEF RouterFails, RouterTakes, RouterDrained, RouterSelects, Draining
  <2>2. UNCHANGED clientVars
    BY <1>2, <2>1 DEF RouterStep, Deliver
  <2> QED BY <1>0, <2>2
<1>3. CASE GroupCloses
  BY <1>3 DEF GroupCloses
<1>4. CASE LeaseCloses \/ UNCHANGED vars
  <2>1. UNCHANGED clientVars
    BY <1>4 DEF LeaseCloses, vars
  <2> QED BY <1>0, <2>1
<1>5. ASSUME NEW l \in Leases, LeaseStep(l) PROVE Moved
  <2>1. CASE LeaseCalls(l)
    BY <2>1 DEF LeaseCalls, CallRegisters
  <2>2. CASE LeaseGivesUp(l)
    BY <2>2 DEF LeaseGivesUp, GivesUp
  <2>3. CASE LeaseAnswered(l)
    BY <2>3 DEF LeaseAnswered, retireVars
  <2>4. CASE LeaseRefused(l) \/ BarrierFails(l) \/ PromptEnds(l) \/ CreateEnds(l)
    <3>1. UNCHANGED clientVars
      BY <2>4 DEF LeaseRefused, BarrierFails, PromptEnds, CreateEnds
    <3> QED BY <1>0, <3>1
  <2> QED BY <1>5, <2>1, <2>2, <2>3, <2>4 DEF LeaseStep
<1>6. ASSUME NEW l \in Leases, NEW load \in Named,
             CreateEnters(l, load) \/ CreateLeaves(l) \/ LeaseTakes(l) \/ ReleaseIdle(l)
      PROVE  Moved
  <2>1. UNCHANGED clientVars
    BY <1>6 DEF CreateEnters, CreateLeaves, LeaseTakes, ReleaseIdle
  <2> QED BY <1>0, <2>1
<1>7. ASSUME NEW l \in Leases, NEW large \in BOOLEAN, LeaseTooLarge(l, large) PROVE Moved
  BY <1>7 DEF LeaseTooLarge, CallFails, retireVars
<1> QED BY <1>1, <1>2, <1>3, <1>4, <1>5, <1>6, <1>7 DEF Next, Named

\* Steps of others: the router stays where it is, and no barrier is taken.
LEMMA LoopFrame ==
    ASSUME Known, LoopTrue, [Next]_vars, UNCHANGED <<router, serving>>, gerr => gerr',
           \A l \in Leases : lpc'[l] = "taken" => lpc[l] = "taken",
           \A l \in Leases : lpc'[l] = "calling" => cpc'[l] # "idle"
    PROVE  LoopTrue'
<1>1. ASSUME router' = "select", err' PROVE activity'
  <2>1. router = "select" /\ (err => activity)
    BY <1>1 DEF LoopTrue
  <2>2. CASE retire
    BY <2>1, <2>2 DEF retire, retireVars
  <2>3. CASE UNCHANGED <<err, activity>>
    BY <1>1, <2>1, <2>3
  <2> QED BY <1>1, <2>1, <2>2, <2>3, Wakes
<1> QED BY <1>1 DEF LoopTrue

LEMMA LoopKeeps ==
    ASSUME Known, Known', LoopTrue, [Next]_vars
    PROVE  LoopTrue'
<1> DEFINE Stays == UNCHANGED <<router, serving>> /\ (gerr => gerr')
<1>0. /\ cpc \in [Leases -> {"idle", "full", "waiting", "expired"}] /\ lpc \in [Leases -> Labels]
      /\ gerr \in BOOLEAN
      /\ \A l \in Leases : lpc[l] = "calling" => cpc[l] # "idle"
  BY DEF Known, ClientTypes, GroupTypes, LeaseTypes, RouterTypes, LoopTrue
<1>1. CASE Stays /\ UNCHANGED <<cpc, lpc>>
  BY <1>0, <1>1, LoopFrame
<1>2. ASSUME Stays, NEW l \in Leases, NEW to \in {"failed", "idle", "ready", "creating", "barrier"}, Goto(l, to),
             \A m \in Leases \ {l} : cpc'[m] = cpc[m]
      PROVE  LoopTrue'
  <2>1. lpc'[l] = to /\ \A m \in Leases \ {l} : lpc'[m] = lpc[m]
    BY <1>0, <1>2 DEF Goto
  <2> QED BY <1>0, <1>2, <2>1, LoopFrame
<1>3. ASSUME retireLocked PROVE gerr'
  BY <1>3 DEF retireLocked
<1>4. CASE ClientStep
  <2>1. UNCHANGED <<lpc, router, serving, gerr>> /\ \A l \in Leases : cpc[l] # "idle" => cpc'[l] # "idle"
    BY <1>0, <1>4 DEF ClientStep, ReadStep, WriteStep, ReadAsk, ReadFails, ReadNote, ReadAnswer, WritePacket, CleanupRuns,
         ProcessNoticed, CallRetires, CallExpires, leaseVars, groupVars, routeVars, callVars
  <2> QED BY <1>0, <2>1, LoopFrame
<1>5. CASE RouterFails
  <2>1. UNCHANGED <<cpc, lpc>> /\ retireLocked /\ router' = "done"
    BY <1>5 DEF RouterFails, clientVars, callVars, leaseVars
  <2> QED BY <1>0, <1>3, <2>1 DEF LoopTrue
<1>6. CASE RouterTakes
  BY <1>1, <1>6 DEF RouterTakes, callVars, leaseVars, groupVars
<1>7. CASE RouterDrained
  <2>1. /\ UNCHANGED <<cpc, err, gerr>> /\ ~err
        /\ router' \in {"draining", "select"}
        /\ lpc' = IF serving # Nobody /\ lpc[serving] = "taken" THEN [lpc EXCEPT ![serving] = "acked"] ELSE lpc
        /\ router # "done"
    BY <1>7 DEF RouterDrained, Draining, clientVars, callVars, retireVars, groupVars
  <2>2. \A l \in Leases : lpc'[l] = "calling" => lpc[l] = "calling"
    BY <1>0, <2>1
  <2>3. \A l \in Leases : lpc'[l] = "taken" => lpc[l] = "taken" /\ l # serving
    BY <1>0, <2>1, RouterAssumption
  <2> QED BY <1>0, <2>1, <2>2, <2>3 DEF LoopTrue
<1>8. CASE Deliver
  <2>1. UNCHANGED <<cpc, lpc, serving>>
    BY <1>8, DeliverEffect
  <2>2. CASE retireLocked /\ router' = "done"
    BY <1>0, <1>3, <2>1, <2>2 DEF LoopTrue
  <2>3. CASE UNCHANGED <<router, gerr>>
    BY <1>1, <2>1, <2>3
  <2> QED BY <1>8, <2>2, <2>3, DeliverEffect
<1>9. ASSUME NEW l \in Leases, RouterSelects(l) PROVE LoopTrue'
  <2>1. UNCHANGED <<cpc, gerr>> /\ router = "select"
    BY <1>9 DEF RouterSelects, callVars, groupVars
  <2>2. \A m \in Leases : lpc[m] = "taken" => gerr
    BY <2>1 DEF LoopTrue
  <2>3. \/ UNCHANGED lpc /\ ((router' = "done" /\ gerr) \/ router' = "draining")
        \/ router' = "serving" /\ serving' = l /\ lpc' = [lpc EXCEPT ![l] = "taken"]
    BY <1>9 DEF RouterSelects, Goto
  <2> QED BY <1>0, <2>1, <2>2, <2>3 DEF LoopTrue
<1>10. CASE GroupCloses \/ LeaseCloses \/ UNCHANGED vars
  BY <1>1, <1>3, <1>10 DEF GroupCloses, LeaseCloses, vars, clientVars, callVars, leaseVars, groupVars, routeVars
<1>11. ASSUME NEW l \in Leases, Failed(l), \A m \in Leases \ {l} : cpc'[m] = cpc[m] PROVE LoopTrue'
  <2>1. Stays /\ Goto(l, "failed")
    BY <1>3, <1>11 DEF Failed, groupVars
  <2> QED BY <1>2, <1>11, <2>1
<1>12. ASSUME NEW l \in Leases, LeaseCalls(l) \/ \E large \in BOOLEAN : LeaseTooLarge(l, large) PROVE LoopTrue'
  <2>1. /\ Stays /\ lpc' = [lpc EXCEPT ![l] = "calling"]
        /\ cpc'[l] # "idle" /\ \A m \in Leases \ {l} : cpc'[m] = cpc[m]
    BY <1>0, <1>12 DEF LeaseCalls, LeaseTooLarge, CallRegisters, CallFails, Goto, groupVars, routeVars
  <2> QED BY <1>0, <2>1, LoopFrame
<1>13. ASSUME NEW l \in Leases, LeaseRefused(l) \/ LeaseGivesUp(l) PROVE LoopTrue'
  <2>1. Failed(l) /\ \A m \in Leases \ {l} : cpc'[m] = cpc[m]
    BY <1>0, <1>13 DEF LeaseRefused, LeaseGivesUp, GivesUp, clientVars, callVars
  <2> QED BY <1>11, <2>1
<1>14. ASSUME NEW l \in Leases, LeaseAnswered(l) PROVE LoopTrue'
  <2>1. \A m \in Leases \ {l} : cpc'[m] = cpc[m]
    BY <1>0, <1>14 DEF LeaseAnswered, TakesAnswer
  <2>2. Failed(l) \/ (Goto(l, "barrier") /\ Stays)
    BY <1>14 DEF LeaseAnswered, groupVars, routeVars
  <2> QED BY <1>2, <1>11, <2>1, <2>2
<1>15. ASSUME NEW l \in Leases, BarrierFails(l) \/ PromptEnds(l) \/ CreateEnds(l) \/ CreateLeaves(l)
       PROVE  LoopTrue'
  <2>1. UNCHANGED <<cpc, router, serving>>
    BY <1>15 DEF BarrierFails, PromptEnds, CreateEnds, CreateLeaves, clientVars, callVars, routeVars
  <2>2. Goto(l, "failed") \/ Goto(l, "idle") \/ Goto(l, "ready")
    BY <1>15 DEF BarrierFails, PromptEnds, CreateEnds, CreateLeaves
  <2>3. gerr => gerr'
    BY <1>15 DEF BarrierFails, PromptEnds, CreateEnds, CreateLeaves, retireLocked, groupVars
  <2> QED BY <1>2, <2>1, <2>2, <2>3
<1>16. ASSUME NEW l \in Leases, NEW load \in Named, CreateEnters(l, load) PROVE LoopTrue'
  <2>1. UNCHANGED <<cpc, router, serving, gerr>> /\ (Goto(l, "failed") \/ Goto(l, "creating"))
    BY <1>16 DEF CreateEnters, clientVars, callVars, groupVars
  <2> QED BY <1>2, <2>1
<1>17. ASSUME NEW l \in Leases, LeaseTakes(l) \/ ReleaseIdle(l) PROVE LoopTrue'
  <2>1. UNCHANGED <<cpc, lpc, router, serving>> /\ (gerr => gerr')
    BY <1>0, <1>17 DEF LeaseTakes, ReleaseIdle, clientVars, callVars, leaseVars, routeVars
  <2> QED BY <1>1, <2>1
<1> QED BY <1>4, <1>5, <1>6, <1>7, <1>8, <1>9, <1>10, <1>12, <1>13, <1>14, <1>15, <1>16, <1>17
        DEF Next, RouterStep, LeaseStep, Named

\* What is at rest is settled.
LEMMA RestIsSettled ==
    ASSUME Known, AnswersTrue, LoopTrue, ~AtWork
    PROVE  Settled
<1>0. /\ cpc \in [Leases -> {"idle", "full", "waiting", "expired"}] /\ lpc \in [Leases -> Labels]
      /\ router \in {"draining", "select", "serving", "done"}
  BY DEF Known, ClientTypes, GroupTypes, LeaseTypes, RouterTypes
<1>1. ASSUME NEW l \in Leases PROVE lpc[l] \notin {"barrier", "taken", "acked"}
  BY <1>0, <1>1 DEF AtWork, LoopTrue
<1>2. ASSUME err PROVE gerr /\ cleanup = "done" /\ router = "done"
  BY <1>0, <1>2 DEF AtWork, LoopTrue, AnswersTrue
<1>3. ASSUME err, NEW l \in Leases PROVE lpc[l] \in {"new", "ready", "idle", "failed"}
  <2>1. lpc[l] # "calling"
    <3> SUFFICES ASSUME lpc[l] = "calling" PROVE FALSE
      OBVIOUS
    <3>1. cpc[l] = "waiting" /\ box[l] = Empty
      BY <1>0, <1>3 DEF AtWork, LoopTrue, Answered
    <3>2. pending = {}
      BY <1>3 DEF Known, ClientTrue
    <3> QED BY <1>3, <3>1, <3>2 DEF AnswersTrue, Waiting
  <2>2. lpc[l] # "creating"
    BY <1>3 DEF AtWork
  <2> QED BY <1>0, <1>1, <1>3, <2>1, <2>2 DEF Labels
<1> QED BY <1>1, <1>2, <1>3 DEF Settled

\* No wait of a group is forgotten: as long as a call, its barrier, the router or the cleanup of a failed
\* client has not come to its end, one of the code's own goroutines has what it waits for.
THEOREM NothingWaits == Spec => [](AtWork \/ Settled)
<1>1. Init => AnswersTrue /\ LoopTrue
  BY RouterAssumption DEF Init, ClientInit, AnswersTrue, LoopTrue, Waiting
<1>2. Known /\ AnswersTrue /\ [Next]_vars => AnswersTrue'
  BY ClientMoves, AnswersKeep DEF Known
<1>3. Known /\ Known' /\ LoopTrue /\ [Next]_vars => LoopTrue'
  BY LoopKeeps
<1>4. Known /\ AnswersTrue /\ LoopTrue => AtWork \/ Settled
  BY RestIsSettled
<1> QED BY <1>1, <1>2, <1>3, <1>4, KnownAlways, PTL DEF Spec
=============================================================================
