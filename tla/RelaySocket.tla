----------------------------- MODULE RelaySocket -----------------------------
(***************************************************************************)
(* The private socket between the proxy and its relay children: the        *)
(* server's end (relay/socket.go, relay/attachment.go), the child's end    *)
(* (relay/attachment_child.go) and the MCP server in the child             *)
(* (relay/mcp/server.go).  A child attaches over a connection that lives   *)
(* as long as it does; each tool call has a connection of its own.  The    *)
(* attachment waits for the process group that the driver's setup binds,   *)
(* which may happen before, while or after the child connects, or never.   *)
(*                                                                         *)
(* The broker is reduced to whether it is closed and to the calls in it:   *)
(* module RelayBroker has the rest.  Frames are well formed and carry the  *)
(* right secret.                                                           *)
(***************************************************************************)
EXTENDS Integers, FiniteSets

CONSTANTS
    Children,       \* relay processes the backend starts
    Requests,       \* tool calls
    None,
    Connections,    \* how many connections are served at once
    MaxActive       \* how many calls a child works on at once

ASSUME RelaySocketAssumption ==
    /\ IsFiniteSet(Children) /\ IsFiniteSet(Requests) /\ Children \cap Requests = {}
    /\ None \notin Children \cup Requests /\ {Connections, MaxActive} \subseteq Nat

Conns == Children \cup Requests

VARIABLES
    setup,      \* the driver's setup: "running", "succeeded" or "failed"
    bind,       \* BindProcess: "none", "checked", "bound" or "refused"
    broker,     \* "open" or "closed"
    closing,    \* Socket.Close: "no", "closed", "broker", "joined" or "removed"
    cleanupErr, \* whether Close has given up on the attached child
    accepting,  \* the accept loop
    peer, joined,
    h,          \* the handler of each connection
    srv, cli,   \* the two ends of each connection
    toCli,      \* what the server has written to it
    late,       \* the children that were refused because the setup had ended
    place, grp, \* where each child is, and whether it is in the group
    job, owner, \* of each call: where its job is, and whose it is
    replies     \* how often the backend was answered

server == <<setup, bind, broker, closing, cleanupErr, accepting, peer, joined, late>>
child == <<place, grp, job, owner, replies>>
socketVars == <<server, h, srv, cli, toCli, child>>

\* Listen has made the directory, the socket and the child's configuration.
SocketInit ==
    /\ setup = "running" /\ bind = "none" /\ broker = "open" /\ closing = "no" /\ cleanupErr = FALSE
    /\ accepting = TRUE /\ peer = None /\ joined = FALSE /\ late = {}
    /\ h = [k \in Conns |-> "none"] /\ srv = h /\ cli = h /\ toCli = [k \in Conns |-> None]
    /\ place = [c \in Children |-> "none"] /\ grp = [c \in Children |-> FALSE]
    /\ job = [x \in Requests |-> "none"] /\ owner = [x \in Requests |-> None] /\ replies = [x \in Requests |-> 0]

----------------------------------------------------------------------------
(* The driver's setup and BindProcess.                                     *)

Mutex == bind # "checked"       \* BindProcess holds the socket's mutex
Closed == closing # "no"

BindChecks ==
    /\ bind = "none"
    /\ bind' = IF Closed \/ setup # "running" THEN "refused" ELSE "checked"
    /\ UNCHANGED <<setup, broker, closing, cleanupErr, accepting, peer, joined, late, h, srv, cli, toCli, child>>

BindSets ==
    /\ bind = "checked" /\ bind' = "bound"
    /\ UNCHANGED <<setup, broker, closing, cleanupErr, accepting, peer, joined, late, h, srv, cli, toCli, child>>

\* The setup ends, and with it its context, in either case.
SetupSucceeds ==
    /\ setup = "running" /\ bind = "bound" /\ setup' = "succeeded"
    /\ UNCHANGED <<bind, broker, closing, cleanupErr, accepting, peer, joined, late, h, srv, cli, toCli, child>>

SetupFails ==
    /\ setup = "running" /\ setup' = "failed"
    /\ UNCHANGED <<bind, broker, closing, cleanupErr, accepting, peer, joined, late, h, srv, cli, toCli, child>>

----------------------------------------------------------------------------
(* accept and serve.                                                       *)

Serving == {k \in Conns : h[k] \notin {"none", "done"}}
Handler(k, state) == h' = [h EXCEPT ![k] = state]
Shut(end, k) == end' = [end EXCEPT ![k] = "closed"]
Lost(k) == srv[k] = "closed" \/ cli[k] = "closed"

Accept(k) ==
    /\ accepting /\ Mutex /\ srv[k] = "backlog"
    /\ IF Closed \/ Cardinality(Serving) >= Connections
       THEN Shut(srv, k) /\ UNCHANGED h
       ELSE srv' = [srv EXCEPT ![k] = "open"] /\ Handler(k, "first")
    /\ UNCHANGED <<server, cli, toCli, child>>

AcceptEnds ==
    /\ accepting /\ Closed /\ accepting' = FALSE
    /\ UNCHANGED <<setup, bind, broker, closing, cleanupErr, peer, joined, late, h, srv, cli, toCli, child>>

\* The handler returns, and closes its connection.
ServeReturns(k) == Handler(k, "done") /\ Shut(srv, k) /\ UNCHANGED <<cli, toCli, child>>

\* The first frame, or none before the connection or the deadline ends.
ReadFirst(k) ==
    /\ h[k] = "first" /\ srv[k] = "open"
    /\ Handler(k, IF k \in Children THEN "wait" ELSE "check")
    /\ UNCHANGED <<server, srv, cli, toCli, child>>

ReadFails(k) == h[k] = "first" /\ (Lost(k) \/ Closed) /\ ServeReturns(k) /\ UNCHANGED server

\* A call is served for the child that has joined, once there is a group.
Check(x) ==
    /\ h[x] = "check" /\ Mutex
    /\ IF Closed \/ (bind = "bound" /\ ~(joined /\ owner[x] = peer /\ grp[peer]))
       THEN ServeReturns(x)
       ELSE Handler(x, "call") /\ UNCHANGED <<srv, cli, toCli, child>>
    /\ UNCHANGED server

\* Broker.Call returns: with the client's result, or because the broker is closed,
CallReturns(x) ==
    /\ h[x] = "call"
    /\ Handler(x, "reply")
    /\ UNCHANGED <<server, srv, cli, toCli, child>>

\* or the monitor has seen the connection end.
CallCancelled(x) ==
    /\ h[x] = "call" /\ Lost(x) /\ ServeReturns(x) /\ UNCHANGED server

Reply(x) ==
    /\ h[x] = "reply" /\ Mutex /\ Handler(x, "done") /\ Shut(srv, x)
    /\ toCli' = [toCli EXCEPT ![x] = IF Closed \/ Lost(x) THEN None ELSE "result"]
    /\ UNCHANGED <<server, cli, child>>

----------------------------------------------------------------------------
(* attach.                                                                 *)

\* It waits for the group, the end of the setup, Close or the timer.
WaitBound(c) ==
    /\ h[c] = "wait" /\ bind = "bound" /\ Handler(c, "claim")
    /\ UNCHANGED <<server, srv, cli, toCli, child>>

WaitCloses(c) == h[c] = "wait" /\ Closed /\ ServeReturns(c) /\ UNCHANGED server

WaitTimes(c) ==
    /\ h[c] = "wait" /\ ServeReturns(c) /\ UNCHANGED server

WaitSetup(c) ==
    /\ h[c] = "wait" /\ setup # "running" /\ Handler(c, "again")
    /\ UNCHANGED <<server, srv, cli, toCli, child>>

\* A mutant: the end of the setup refuses the child.
AgainRefuses(c) ==
    /\ h[c] = "again" /\ ServeReturns(c) /\ late' = late \cup {c}
    /\ UNCHANGED <<setup, bind, broker, closing, cleanupErr, accepting, peer, joined>>

\* The setup has ended: a group that was bound before is still good.
Again(c) ==
    /\ h[c] = "again"
    /\ IF bind = "bound" THEN Handler(c, "claim") /\ UNCHANGED <<late, srv, cli, toCli, child>>
       ELSE ServeReturns(c) /\ late' = late \cup {c}
    /\ UNCHANGED <<setup, bind, broker, closing, cleanupErr, accepting, peer, joined>>

\* The slot is claimed once.
Claim(c) ==
    /\ h[c] = "claim" /\ Mutex
    /\ IF Closed \/ peer # None THEN ServeReturns(c) /\ UNCHANGED peer
       ELSE peer' = c /\ Handler(c, "offer") /\ UNCHANGED <<srv, cli, toCli, child>>
    /\ UNCHANGED <<setup, bind, broker, closing, cleanupErr, accepting, joined, late>>

\* From here on, to return is to close the broker.
Retires(c) ==
    /\ ServeReturns(c) /\ broker' = "closed"
    /\ UNCHANGED <<setup, bind, closing, cleanupErr, accepting, peer, joined, late>>

Writes(c, frame, state) ==
    /\ Handler(c, state) /\ toCli' = [toCli EXCEPT ![c] = frame]
    /\ UNCHANGED <<server, srv, cli, child>>

Offer(c) == h[c] = "offer" /\ IF Lost(c) THEN Retires(c) ELSE Writes(c, "offer", "ack")

\* The child says that it has joined the group, and it has.
Ack(c) ==
    /\ h[c] = "ack" /\ srv[c] = "open" /\ place[c] = "joined" /\ grp[c]
    /\ Handler(c, "join") /\ UNCHANGED <<server, srv, cli, toCli, child>>

AckFails(c) == h[c] = "ack" /\ Lost(c) /\ Retires(c)

\* It does not say so in time.
AckTimes(c) == h[c] = "ack" /\ Retires(c)

Join(c) ==
    /\ h[c] = "join" /\ Mutex
    /\ IF Closed THEN Retires(c)
       ELSE /\ joined' = TRUE /\ Handler(c, "ready")
            /\ UNCHANGED <<setup, bind, broker, closing, cleanupErr, accepting, peer, late, srv, cli, toCli, child>>

Ready(c) == h[c] = "ready" /\ IF Lost(c) THEN Retires(c) ELSE Writes(c, "ready", "live")

\* The connection ends with the child, or with Close.
LiveEnds(c) == h[c] = "live" /\ Lost(c) /\ Retires(c)

----------------------------------------------------------------------------
(* Close.                                                                  *)

\* A mutant: Close leaves the connections to their deadlines.
CloseListener ==
    /\ closing = "no" /\ Mutex /\ closing' = "closed"
    /\ srv' = [k \in Conns |-> IF srv[k] = "backlog" THEN "closed" ELSE srv[k]]
    /\ UNCHANGED <<setup, bind, broker, cleanupErr, accepting, peer, joined, late, h, cli, toCli, child>>

\* Whoever calls it first, the driver or the goroutine that waits for the broker, ends every
\* connection, those not yet accepted with the listener.
CloseStarts ==
    /\ closing = "no" /\ Mutex /\ closing' = "closed"
    /\ srv' = [k \in Conns |-> IF srv[k] = "none" THEN "none" ELSE "closed"]
    /\ UNCHANGED <<setup, bind, broker, cleanupErr, accepting, peer, joined, late, h, cli, toCli, child>>

CloseBroker ==
    /\ closing = "closed" /\ closing' = "broker" /\ broker' = "closed"
    /\ UNCHANGED <<setup, bind, cleanupErr, accepting, peer, joined, late, h, srv, cli, toCli, child>>

\* A mutant: the handlers are not waited for.
CloseUnjoined ==
    /\ closing = "broker" /\ closing' = "joined"
    /\ UNCHANGED <<setup, bind, broker, cleanupErr, accepting, peer, joined, late, h, srv, cli, toCli, child>>

CloseJoins ==
    /\ closing = "broker" /\ ~accepting /\ Serving = {} /\ closing' = "joined"
    /\ UNCHANGED <<setup, bind, broker, cleanupErr, accepting, peer, joined, late, h, srv, cli, toCli, child>>

\* waitRelayExit, and the directory is removed.
CloseEnds ==
    /\ closing = "joined" /\ closing' = "removed" /\ (peer # None => place[peer] = "gone")
    /\ UNCHANGED <<setup, bind, broker, cleanupErr, accepting, peer, joined, late, h, srv, cli, toCli, child>>

CloseGivesUp ==
    /\ closing = "joined" /\ closing' = "removed" /\ peer # None /\ place[peer] # "gone" /\ cleanupErr' = TRUE
    /\ UNCHANGED <<setup, bind, broker, accepting, peer, joined, late, h, srv, cli, toCli, child>>

\* The broker is closed by its own deadlines or by the turn.
BrokerEnds ==
    /\ broker = "open" /\ broker' = "closed"
    /\ UNCHANGED <<setup, bind, closing, cleanupErr, accepting, peer, joined, late, h, srv, cli, toCli, child>>

----------------------------------------------------------------------------
(* The child: Attach.                                                      *)

Step(c, state) == place' = [place EXCEPT ![c] = state]
Jobs(c) == {x \in Requests : owner[x] = c}

\* A process that ends closes its connections.
Exits(c) ==
    /\ Step(c, "gone") /\ grp' = [grp EXCEPT ![c] = FALSE]
    /\ cli' = [k \in Conns |-> IF k \in {c} \cup Jobs(c) /\ cli[k] # "none" THEN "closed" ELSE cli[k]]
    /\ job' = [x \in Requests |-> IF x \in Jobs(c) THEN "done" ELSE job[x]]
    /\ UNCHANGED <<server, h, srv, toCli, owner, replies>>

\* Connecting works as long as the socket listens.
Dials(k) ==
    /\ ~Closed
    /\ cli' = [cli EXCEPT ![k] = "open"] /\ srv' = [srv EXCEPT ![k] = "backlog"]

\* The backend starts a relay process, which reads its configuration and dials.
Launch(c) ==
    /\ place[c] = "none"
    /\ \/ Dials(c) /\ Step(c, "attach") /\ UNCHANGED <<server, h, toCli, grp, job, owner, replies>>
       \/ Closed /\ Exits(c)

GetsOffer(c) ==
    /\ place[c] = "attach" /\ toCli[c] = "offer"
    /\ Step(c, "joined") /\ grp' = [grp EXCEPT ![c] = TRUE]
    /\ UNCHANGED <<server, h, srv, cli, toCli, job, owner, replies>>

GetsReady(c) ==
    /\ place[c] = "joined" /\ toCli[c] = "ready" /\ Step(c, "serving")
    /\ UNCHANGED <<server, h, srv, cli, toCli, grp, job, owner, replies>>

\* Attach fails with its connection, or when the time is over.
AttachFails(c) == place[c] \in {"attach", "joined"} /\ srv[c] = "closed" /\ Exits(c)
AttachTimes(c) == place[c] \in {"attach", "joined"} /\ Exits(c)

\* The attachment's reader sees the end of the connection, which ends Run.
AttachmentLost(c) ==
    /\ place[c] = "serving" /\ srv[c] = "closed" /\ Step(c, "draining") /\ Shut(cli, c)
    /\ UNCHANGED <<server, h, srv, toCli, grp, job, owner, replies>>

\* The backend closes the input, or sends what is no request.
InputEnds(c) ==
    /\ place[c] = "serving" /\ Step(c, "draining")
    /\ UNCHANGED <<server, h, srv, cli, toCli, grp, job, owner, replies>>

\* Run has waited for its jobs.
ChildExits(c) == place[c] = "draining" /\ (\A x \in Jobs(c) : job[x] = "done") /\ Exits(c)

\* It is killed.
ChildDies(c) == place[c] \notin {"none", "gone"} /\ Exits(c)

----------------------------------------------------------------------------
(* The child: tools/call and Exchange.                                     *)

JobStep(x, state) == job' = [job EXCEPT ![x] = state]
Active(c) == {x \in Jobs(c) : job[x] # "done"}

\* A request is refused at the limit, and otherwise has a job of its own.
Request(x) ==
    /\ job[x] = "none"
    /\ \E c \in Children :
         /\ place[c] = "serving" /\ owner' = [owner EXCEPT ![x] = c]
         /\ IF Cardinality(Active(c)) >= MaxActive
            THEN JobStep(x, "done") /\ replies' = [replies EXCEPT ![x] = @ + 1]
            ELSE JobStep(x, "dial") /\ UNCHANGED replies
    /\ UNCHANGED <<server, h, srv, cli, toCli, place, grp>>

JobDials(x) ==
    /\ job[x] = "dial" /\ place[owner[x]] = "serving" /\ Dials(x) /\ JobStep(x, "sent")
    /\ UNCHANGED <<server, h, toCli, place, grp, owner, replies>>

\* The answer, or the end of the connection without one, or of the child, or a cancellation.
JobReads(x) ==
    /\ job[x] = "sent" /\ toCli[x] = "result" /\ JobStep(x, "write") /\ Shut(cli, x)
    /\ UNCHANGED <<server, h, srv, toCli, place, grp, owner, replies>>

JobCancelled(x) ==
    /\ job[x] \in {"dial", "sent"} /\ JobStep(x, "write")
    /\ cli' = [cli EXCEPT ![x] = IF @ = "none" THEN "none" ELSE "closed"]
    /\ UNCHANGED <<server, h, srv, toCli, place, grp, owner, replies>>

JobFails(x) ==
    /\ job[x] \in {"dial", "sent"}
    /\ \/ place[owner[x]] = "draining"
       \/ job[x] = "dial" /\ Closed
       \/ srv[x] = "closed" /\ toCli[x] = None
    /\ JobCancelled(x)

\* A mutant: a request whose exchange has failed is not answered.
JobWritesResults(x) ==
    /\ job[x] = "write" /\ JobStep(x, "done")
    /\ replies' = [replies EXCEPT ![x] = IF toCli[x] = None THEN @ ELSE @ + 1]
    /\ UNCHANGED <<server, h, srv, cli, toCli, place, grp, owner>>

\* The backend is answered, unless the child is ending.
JobWrites(x) ==
    /\ job[x] = "write" /\ JobStep(x, "done")
    /\ replies' = [replies EXCEPT ![x] = IF place[owner[x]] = "draining" THEN @ ELSE @ + 1]
    /\ UNCHANGED <<server, h, srv, cli, toCli, place, grp, owner>>

----------------------------------------------------------------------------

\* What happens by itself, without anyone's decision and without a timer.
OwnStep ==
    \/ BindSets \/ AcceptEnds \/ CloseBroker \/ CloseJoins \/ CloseEnds
    \/ (broker = "closed" \/ setup = "failed") /\ CloseStarts
    \/ \E k \in Conns : Accept(k) \/ ReadFirst(k) \/ ReadFails(k)
    \/ \E c \in Children :
         \/ WaitBound(c) \/ WaitCloses(c) \/ WaitSetup(c) \/ Again(c) \/ Claim(c) \/ Offer(c)
         \/ Ack(c) \/ AckFails(c) \/ Join(c) \/ Ready(c) \/ LiveEnds(c)
         \/ GetsOffer(c) \/ GetsReady(c) \/ AttachFails(c) \/ AttachmentLost(c) \/ ChildExits(c)
    \/ \E x \in Requests :
         \/ Check(x) \/ CallCancelled(x) \/ Reply(x)
         \/ JobDials(x) \/ JobReads(x) \/ JobFails(x) \/ JobWrites(x)
         \/ broker = "closed" /\ CallReturns(x)

\* The guards of the steps of OwnStep that lead to an end: Close has something to do, or a handler, a
\* child or a job that has lost what it works for.
AtWork ==
    \/ bind = "checked"
    \/ closing = "no" /\ (broker = "closed" \/ setup = "failed")
    \/ closing = "closed" \/ (Closed /\ accepting)
    \/ closing = "broker" /\ ~accepting /\ Serving = {}
    \/ closing = "joined" /\ (peer # None => place[peer] = "gone")
    \/ \E k \in Conns : \/ h[k] \in {"check", "reply", "again", "claim", "offer", "join", "ready"}
                        \/ h[k] \in {"first", "wait"} /\ Closed
                        \/ h[k] \in {"call", "ack", "live"} /\ Lost(k)
    \/ \E c \in Children : \/ place[c] \in {"attach", "joined", "serving"} /\ srv[c] = "closed"
                           \/ place[c] = "draining" /\ \A x \in Jobs(c) : job[x] = "done"
    \/ \E x \in Requests : \/ job[x] = "write"
                           \/ job[x] \in {"dial", "sent"} /\ place[owner[x]] = "draining"

\* What the driver, the backend and the client decide, and timers.
OtherStep ==
    \/ BindChecks \/ SetupSucceeds \/ SetupFails \/ BrokerEnds \/ CloseGivesUp
    \/ (broker = "open" /\ setup # "failed") /\ CloseStarts
    \/ \E c \in Children :
         \/ WaitTimes(c) \/ AckTimes(c) \/ AttachTimes(c) \/ Launch(c) \/ InputEnds(c) \/ ChildDies(c)
    \/ \E x \in Requests : Request(x) \/ JobCancelled(x) \/ (broker = "open" /\ CallReturns(x))

SocketNext == OwnStep \/ OtherStep

SocketSpec == SocketInit /\ [][SocketNext]_socketVars

----------------------------------------------------------------------------
(* Properties.                                                             *)

\* A successful setup ends its context, and that never refuses a child: a group bound before that
\* is good for one that is connecting or starts later.
LateChild == setup = "succeeded" => late = {}

\* When Close returns nothing is left of the relay: no handler, no connection, no admitted call and,
\* unless an error says so, no attached child.
NothingLeft ==
    closing = "removed" =>
        /\ Serving = {} /\ \A k \in Conns : srv[k] \in {"none", "closed"}
        /\ broker = "closed" /\ (peer # None /\ ~cleanupErr => place[peer] = "gone")

\* A relay that has lost its child, its broker or its setup is closed, and every child of a closed
\* relay has gone.
Ended ==
    /\ (broker = "closed" \/ setup = "failed" \/ (peer # None /\ place[peer] = "gone"))
       => closing = "removed"
    /\ closing = "removed" => \A c \in Children : place[c] \in {"none", "gone"}

\* Nobody waits on the others, and no timer is needed: when nothing more happens by itself, what has
\* to end has ended.  Something happens whenever one of the guards in AtWork holds.
AllEnd == (AtWork => ENABLED OwnStep) /\ (~ENABLED OwnStep => Ended)

\* Every tool request the backend has made is answered once, whatever ends its exchange, unless the
\* child ends as well.
AnsweredOnce ==
    \A x \in Requests : /\ replies[x] <= 1
                        /\ job[x] = "done" /\ place[owner[x]] = "serving" => replies[x] = 1
=============================================================================
