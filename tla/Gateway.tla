------------------------------ MODULE Gateway ------------------------------
(***************************************************************************)
(* The HTTP gateway of internal/gateway: the server with its bounded       *)
(* listener (server.go), the model and hook handlers (http.go, ui.go), the *)
(* registry of terminal responses (delivery.go) and the queue of turn      *)
(* records it protects (internal/status/metrics.go).                       *)
(*                                                                         *)
(* Each connection carries one request.  The backend is external: it       *)
(* starts a turn or refuses, sends any event, and settles a turn when it   *)
(* is told to.  net/http is external as well: a connection goroutine calls *)
(* ConnState, the handler and Close in the order that package documents.   *)
(***************************************************************************)
EXTENDS Integers, Sequences, FiniteSets

CONSTANTS Conns, MaxConnections,
          MaxActive,    \* MaxActiveRequests, for each of the two admissions
          MaxRecords    \* the 32 records a TurnQueue keeps

ASSUME GatewayAssumption ==
    /\ IsFiniteSet(Conns)
    /\ {MaxConnections, MaxActive, MaxRecords} \subseteq Nat \ {0}

VARIABLES
    stage,      \* Server.run: "off", "serve", "closing", "draining", "joining" or "done"
    served, serveErr, closeErr,
    owned,      \* listener.connections
    tasks,      \* connections counted by connectionTasks
    handlers,   \* connections counted by handlers
    cpc,        \* where each connection is
    active, ui, \* the two admissions
    turn,       \* of each connection: "none", "open", "finished" or "cancelled"
    tools,      \* connections with a private batch of tools
    ended,      \* connections that were sent the end of their response
    deliveries, \* h.deliveries
    before,     \* the deliveries a hook waits for
    records,    \* the queued turn records
    after,      \* the responses that had ended when a hook was admitted
    drained     \* those that had ended for the caller of a hook which took the records

serverVars == <<stage, served, serveErr, closeErr, owned, tasks>>
queueVars  == <<deliveries, before, records, drained>>
turnVars   == <<turn, tools, ended>>
gatewayVars == <<serverVars, handlers, cpc, active, ui, turnVars, queueVars, after>>

GatewayInit ==
    /\ stage = "off" /\ served = FALSE /\ serveErr = FALSE /\ closeErr = FALSE
    /\ owned = {} /\ tasks = {} /\ handlers = {}
    /\ cpc = [c \in Conns |-> "none"]
    /\ active = {} /\ ui = {}
    /\ turn = [c \in Conns |-> "none"] /\ tools = {} /\ ended = {}
    /\ deliveries = {} /\ before = [c \in Conns |-> {}] /\ records = <<>>
    /\ after = [c \in Conns |-> {}] /\ drained = {}

At(c, label) == cpc[c] = label
Goto(c, label) == cpc' = [cpc EXCEPT ![c] = label]
Only(c, from, to) == At(c, from) /\ Goto(c, to) /\ UNCHANGED <<serverVars, handlers, after>>

----------------------------------------------------------------------------
(* Connections.                                                            *)

\* boundedListener.Accept, and ConnState(StateNew), by the one goroutine of Serve.  A connection
\* beyond the limit is closed at once.
Accept(c) ==
    /\ ~served /\ stage \in {"serve", "closing"} /\ At(c, "none")
    /\ Cardinality(owned) < MaxConnections
    /\ owned' = owned \cup {c} /\ tasks' = tasks \cup {c} /\ Goto(c, "open")
    /\ UNCHANGED <<stage, served, serveErr, closeErr, handlers, active, ui, turnVars, queueVars, after>>

\* Serve returns: the listener is closed, or it broke.
ServeEnds(broke) ==
    /\ stage # "off" /\ ~served
    /\ broke \/ stage \in {"draining", "joining", "done"}
    /\ served' = TRUE /\ serveErr' = broke
    /\ UNCHANGED <<stage, closeErr, owned, tasks, handlers, cpc, active, ui, turnVars, queueVars, after>>

\* A request was read: the handler counts itself and looks whether the server is closing.
Request(c) ==
    /\ At(c, "open")
    /\ handlers' = handlers \cup {c}
    /\ Goto(c, IF stage = "serve" THEN "route" ELSE "leave")
    /\ UNCHANGED <<serverVars, active, ui, turnVars, queueVars, after>>

\* The handler returns.
Leave(c) ==
    /\ At(c, "leave") /\ Goto(c, "after")
    /\ handlers' = handlers \ {c}
    /\ before' = [before EXCEPT ![c] = {}] /\ after' = [after EXCEPT ![c] = {}]
    /\ UNCHANGED <<serverVars, active, ui, turnVars, deliveries, records, drained>>

\* The goroutine of a connection ends: ownedConnection.Close and ConnState(StateClosed).
ConnEnds(c) ==
    /\ cpc[c] \in {"open", "after"} /\ Goto(c, "gone")
    /\ owned' = owned \ {c} /\ tasks' = tasks \ {c}
    /\ UNCHANGED <<stage, served, serveErr, closeErr, handlers, active, ui, turnVars, queueVars, after>>

----------------------------------------------------------------------------
(* The model handler.                                                      *)

\* Health, unknown routes and wrong credentials.
RouteElsewhere(c) == Only(c, "route", "leave") /\ UNCHANGED <<active, ui, turnVars, queueVars>>

\* GET /v1/models or POST /v1/messages.
AdmitModel(c, to) ==
    LET room == Cardinality(active) < MaxActive
    IN /\ Only(c, "route", IF room THEN to ELSE "leave")
       /\ active' = IF room THEN active \cup {c} ELSE active
       /\ UNCHANGED <<ui, turnVars, queueVars>>

\* The login has expired: the client may be told how to log in, by a response that ends like
\* any other and is not registered.
fallback(c, told) ==
    /\ told => c \in owned
    /\ ended' = IF told THEN ended \cup {c} ELSE ended

\* The request is invalid, or Backend.Start returns an error.
Refuse(c, told) ==
    /\ Only(c, "start", "release")
    /\ fallback(c, told)
    /\ UNCHANGED <<active, ui, turn, tools, queueVars>>

StartSucceeds(c) ==
    /\ Only(c, "start", "next")
    /\ turn' = [turn EXCEPT ![c] = "open"]
    /\ UNCHANGED <<active, ui, tools, ended, queueVars>>

\* A batch of tools is kept private.  Text, searches and pings change nothing that matters here.
NextTools(c) ==
    /\ At(c, "next") /\ c \notin tools
    /\ tools' = tools \cup {c}
    /\ UNCHANGED <<serverVars, handlers, cpc, active, ui, turn, ended, queueVars, after>>

\* A deadline, a failure of the backend, an event that is not allowed now, the output limit, or
\* a failed write.  The turn is still open when the client is told of an expired login.
NextFails(c, told) ==
    /\ Only(c, "next", "cancel")
    /\ fallback(c, told)
    /\ UNCHANGED <<active, ui, turn, tools, queueVars>>

\* A mutant: the response is registered when it has been written.
NextEndsUnregistered(c, toolUse) ==
    /\ Only(c, "next", IF toolUse = (c \in tools) THEN "terminal" ELSE "cancel")
    /\ UNCHANGED <<active, ui, turnVars, queueVars>>

\* The backend ends the turn; the stop reason has to agree with the tools.  A response that
\* ends the turn is registered before its last bytes are written.
NextEnds(c, toolUse) ==
    /\ Only(c, "next", IF toolUse = (c \in tools) THEN "terminal" ELSE "cancel")
    /\ deliveries' = IF ~toolUse /\ c \notin tools THEN deliveries \cup {c} ELSE deliveries
    /\ UNCHANGED <<active, ui, turnVars, before, records, drained>>

\* The tools and the end are written, or not; and the request is still wanted, or not.
Terminal(c, ok, wanted) ==
    /\ ok => c \in owned
    /\ wanted => ok /\ stage = "serve"
    /\ Only(c, "terminal", IF wanted THEN "finish" ELSE "cancel")
    /\ ended' = IF ok THEN ended \cup {c} ELSE ended
    /\ UNCHANGED <<active, ui, turn, tools, queueVars>>

\* TurnQueue.Push: the oldest record makes room.
Push(c) == Append(IF Len(records) = MaxRecords THEN Tail(records) ELSE records, c)

\* Finish or Cancel.  A finished turn that was not aborted meanwhile leaves a record.
Settle(c, recorded) ==
    /\ cpc[c] \in {"finish", "cancel"} /\ Goto(c, "release")
    /\ turn' = [turn EXCEPT ![c] = IF At(c, "finish") THEN "finished" ELSE "cancelled"]
    /\ recorded => At(c, "finish") /\ c \notin tools
    /\ records' = IF recorded THEN Push(c) ELSE records
    /\ UNCHANGED <<serverVars, handlers, active, ui, tools, ended, deliveries, before, after, drained>>

\* deliveryDone, and the slot is given back.
Release(c) ==
    /\ Only(c, "release", "leave")
    /\ deliveries' = deliveries \ {c}
    /\ active' = active \ {c}
    /\ UNCHANGED <<ui, turnVars, before, records, drained>>

----------------------------------------------------------------------------
(* The turn-metrics hook.                                                  *)

\* The hook is admitted; awaitDeliveries looks at what is registered now.
AdmitHook(c) ==
    LET room == Cardinality(ui) < MaxActive
    IN /\ At(c, "route") /\ Goto(c, IF room THEN "await" ELSE "leave")
       /\ ui' = IF room THEN ui \cup {c} ELSE ui
       /\ before' = IF room THEN [before EXCEPT ![c] = deliveries] ELSE before
       /\ after' = IF room THEN [after EXCEPT ![c] = ended] ELSE after
       /\ UNCHANGED <<serverVars, handlers, active, turnVars, deliveries, records, drained>>

\* All of them are settled: Drain.
HookDrains(c) ==
    /\ Only(c, "await", "leave")
    /\ before[c] \cap deliveries = {}
    /\ records' = <<>>
    /\ drained' = drained \cup after[c]
    /\ ui' = ui \ {c}
    /\ UNCHANGED <<active, turnVars, deliveries, before>>

\* The body is not what it should be, or 200 ms have passed.
HookFails(c) ==
    /\ Only(c, "await", "leave")
    /\ ui' = ui \ {c}
    /\ UNCHANGED <<active, turnVars, queueVars>>

----------------------------------------------------------------------------
(* The server.                                                             *)

StartServer ==
    /\ stage = "off" /\ stage' = "serve"
    /\ UNCHANGED <<served, serveErr, closeErr, owned, tasks, handlers, cpc, active, ui, turnVars, queueVars, after>>

\* run wakes up: new requests are refused and the contexts of the others cancelled.
RunStops ==
    /\ stage = "serve" /\ stage' = "closing"
    /\ UNCHANGED <<served, serveErr, closeErr, owned, tasks, handlers, cpc, active, ui, turnVars, queueVars, after>>

\* http.Shutdown closes the listener and waits.
RunDrains ==
    /\ stage = "closing" /\ stage' = "draining"
    /\ UNCHANGED <<served, serveErr, closeErr, owned, tasks, handlers, cpc, active, ui, turnVars, queueVars, after>>

\* The wait ends: all is idle, or ShutdownTimeout has passed.  What is left is closed by force.
RunForces ==
    /\ stage = "draining" /\ stage' = "joining"
    /\ owned' = {}
    /\ UNCHANGED <<served, serveErr, closeErr, tasks, handlers, cpc, active, ui, turnVars, queueVars, after>>

\* A mutant: the goroutines of the connections are not counted.
quiescentHandlers == served /\ owned = {} /\ handlers = {}

quiescent == served /\ owned = {} /\ handlers = {} /\ tasks = {}

\* All is joined, or JoinTimeout has passed.  An earlier failure to close is reported now.
RunJoins(late, failed) ==
    /\ stage = "joining" /\ stage' = "done"
    /\ late \/ quiescent
    /\ closeErr' = (failed \/ serveErr \/ late)
    /\ UNCHANGED <<served, serveErr, owned, tasks, handlers, cpc, active, ui, turnVars, queueVars, after>>

----------------------------------------------------------------------------

\* What the goroutine of a connection does by itself or with the backend.
Handle(c) ==
    \/ Leave(c) \/ ConnEnds(c) \/ NextTools(c) \/ Release(c)
    \/ HookDrains(c) \/ RouteElsewhere(c) \/ AdmitHook(c)
    \/ \E to \in {"models", "start"} : AdmitModel(c, to)
    \/ \E told \in BOOLEAN : Refuse(c, told) \/ NextFails(c, told)
    \/ \E toolUse \in BOOLEAN : NextEnds(c, toolUse)
    \/ \E ok, wanted \in BOOLEAN : Terminal(c, ok, wanted)

----------------------------------------------------------------------------
(* Properties.                                                             *)

\* The client calls the turn-metrics hook when it has seen the end of a response.  Once a hook has
\* taken the records, none comes in of a turn whose response had ended when the hook was admitted: it
\* was among those taken, or there is none, because the turn was cancelled or still has to be, as
\* after a login message.
HookSeesTurn == \A i \in 1..Len(records) : records[i] \notin drained

=============================================================================
