------------------------------ MODULE Launcher ------------------------------
(***************************************************************************)
(* One launch of the program: the startup phases of start                  *)
(* (internal/launcher/startup.go), the run of the client with its gateway  *)
(* (RunClient, internal/launcher/runtime.go), and the release of every     *)
(* owner.  It composes the gateway, the model catalog, and here the        *)
(* refresh of the usage display (internal/status/usage.go) and the command *)
(* runner (internal/childproc/run.go), each of which may have work under   *)
(* way when the launch ends.                                               *)
(*                                                                         *)
(* The session manager (module Manager), the client process and the        *)
(* operating system are external here.                                     *)
(***************************************************************************)
EXTENDS Gateway, Catalog

ASSUME LauncherAssumption == Conns \subseteq Readers /\ "launch" \in Readers \ Conns

VARIABLES
    phase,      \* where start and RunClient are
    open,       \* the owners that exist
    left,       \* what is left to release, in order
    cancelled,  \* the context of the launch, or the one RunClient owns, has ended
    usage       \* UsageCache: "idle" or "refreshing"

launchVars == <<phase, open, left, cancelled, usage>>
vars == <<gatewayVars, catalogVars, launchVars>>

\* The phases that make one owner or none, and the phase that follows.
Owner == [runtime |-> {"runtime"}, runner |-> {"runner"}, policy |-> {},
          schema |-> {"schema"}, backend |-> {"backend"}, usage |-> {"usage"},
          attached |-> {"attached"}, profile |-> {"profile"}, client |-> {"client"}]
After == [runtime |-> "runner", runner |-> "checks", policy |-> "schema",
          schema |-> "backend", backend |-> "usage", usage |-> "attached",
          attached |-> "server", profile |-> "client", client |-> "running"]

\* The owners are RunClient's from here on.
Transferred == phase \in {"attached", "server", "profile", "client", "running"}

\* A mutant: the runner is closed before the catalog that runs commands with it.
RunnerFirst ==
    IF Transferred
    THEN <<{"server", "client", "backend", "usage"}, {"runner"}, {"models"}, {"attached"},
           {"schema"}, {"profile"}, {"runtime"}>>
    ELSE <<{"usage"}, {"backend"}, {"schema"}, {"runner"}, {"models"}, {"runtime"}>>

\* The order in which owners are released.  RunClient closes those of its first stage at once.
ReleaseOrder ==
    IF Transferred
    THEN <<{"server", "client", "backend", "usage"}, {"models"}, {"attached"}, {"schema"},
           {"profile"}, {"runner"}, {"runtime"}>>
    ELSE <<{"usage"}, {"backend"}, {"schema"}, {"models"}, {"runner"}, {"runtime"}>>

Init ==
    /\ GatewayInit /\ CatalogInit
    /\ phase = "settings" /\ open = {} /\ left = <<>> /\ cancelled = FALSE
    /\ usage = "idle"

----------------------------------------------------------------------------
(* Startup.                                                                *)

\* The options are complete and the settings of the user can be read.
SettingsPass ==
    /\ phase = "settings" /\ ~cancelled /\ phase' = "runtime"
    /\ UNCHANGED <<open, left, cancelled, usage, gatewayVars, catalogVars>>

\* A phase succeeds.  start looks at its context before it hands the owners over, and RunClient
\* when it receives them.
Advance ==
    /\ phase \in DOMAIN Owner
    /\ phase \in {"usage", "attached"} => ~cancelled
    /\ phase' = After[phase] /\ open' = open \cup Owner[phase]
    /\ UNCHANGED <<left, cancelled, usage, gatewayVars, catalogVars>>

\* The scope key is loaded, and commands ask for the versions and the login.
ChecksPass ==
    /\ phase = "checks" /\ phase' = "cache"
    /\ UNCHANGED <<open, left, cancelled, usage, gatewayVars, catalogVars>>

\* PrepareModels makes the cache, which it closes itself when it fails.
PrepareCache(found) ==
    /\ phase = "cache" /\ phase' = "catalog"
    /\ NewCache(found)
    /\ open' = open \cup {"models"}
    /\ UNCHANGED <<left, cancelled, usage, gatewayVars>>

\* Its Get finds data, or waits.
PrepareGets ==
    /\ phase = "catalog" /\ ~cancelled /\ phase' = "policy"
    /\ GetReturns(TRUE)
    /\ UNCHANGED <<open, left, cancelled, usage, gatewayVars>>

PrepareWaits ==
    /\ phase = "catalog" /\ ~cancelled /\ phase' = "awaiting"
    /\ GetWaits("launch")
    /\ UNCHANGED <<open, left, cancelled, usage, gatewayVars>>

\* The selection of the startup model may still fail.
PrepareWakes ==
    /\ phase = "awaiting" /\ "launch" \notin waiting
    /\ phase' = IF cdata = "none" THEN "failed" ELSE "policy"
    /\ UNCHANGED <<open, left, cancelled, usage, gatewayVars, catalogVars>>

ServerStarts ==
    /\ phase = "server" /\ ~cancelled /\ phase' = "profile"
    /\ StartServer
    /\ open' = open \cup {"server"}
    /\ UNCHANGED <<left, cancelled, usage, catalogVars>>

\* A phase fails, or the context ends in it, or an inspection ends with the policy.
StartFails ==
    /\ phase \in DOMAIN Owner \cup {"settings", "failed", "checks", "cache", "catalog", "awaiting", "server"}
    /\ phase' = "release" /\ left' = ReleaseOrder /\ cancelled' = TRUE
    /\ GetCancelled("launch")
    /\ UNCHANGED <<open, usage, gatewayVars>>

----------------------------------------------------------------------------
(* The run and its end.                                                    *)

Cancel ==
    /\ ~cancelled /\ cancelled' = TRUE
    /\ UNCHANGED <<phase, open, left, usage, gatewayVars, catalogVars>>

\* RunClient returns: the context ended, the gateway stopped, or the client exited.
RunEnds(exited) ==
    /\ phase = "running" /\ (exited \/ cancelled \/ stage = "done")
    /\ phase' = "release" /\ left' = ReleaseOrder /\ cancelled' = TRUE
    /\ UNCHANGED <<open, usage, gatewayVars, catalogVars>>

\* Close has been called on this owner.
Closing(o) == phase = "release" /\ left # <<>> /\ o \in Head(left) \cap open

\* What Close waits for.
Joined(o) ==
    /\ o = "server" => stage = "done"
    /\ o = "models" => cclosed /\ flight = "none"
    /\ o = "usage"  => usage = "idle"
    /\ o = "runner" => flight # "discovering"

\* Close returns.  That of the client ends its process.
Closed(o) ==
    /\ Closing(o) /\ Joined(o)
    /\ open' = open \ {o}
    /\ UNCHANGED <<phase, left, cancelled, usage, gatewayVars, catalogVars>>

CloseModels ==
    /\ Closing("models") /\ ModelsClose
    /\ UNCHANGED <<launchVars, gatewayVars>>

\* The next stage.
ReleaseNext ==
    /\ phase = "release" /\ left # <<>> /\ Head(left) \cap open = {}
    /\ left' = Tail(left)
    /\ UNCHANGED <<phase, open, cancelled, usage, gatewayVars, catalogVars>>

\* start returns.
StartReturns ==
    /\ phase = "release" /\ left = <<>> /\ phase' = "done"
    /\ UNCHANGED <<open, left, cancelled, usage, gatewayVars, catalogVars>>

----------------------------------------------------------------------------
(* Work in the background.                                                 *)

\* ReadKiroCatalog runs a command, which ends by itself or by force; it needs an open runner.
DiscoverSucceeds ==
    /\ "runner" \in open /\ ~Closing("runner") /\ FlightDiscovers
    /\ UNCHANGED <<launchVars, gatewayVars>>

DiscoverFails ==
    /\ flight = "discovering" /\ FlightEnds(FALSE)
    /\ UNCHANGED <<launchVars, gatewayVars>>

FlightStores(ok) ==
    /\ flight = "writing" /\ FlightEnds(ok)
    /\ UNCHANGED <<launchVars, gatewayVars>>

\* The status route: UsageCache.Read starts a refresh unless Close was called.
StatusReads(c, refresh) ==
    /\ Only(c, "route", "leave")
    /\ refresh => "usage" \in open /\ ~Closing("usage")
    /\ usage' = IF refresh THEN "refreshing" ELSE usage
    /\ UNCHANGED <<active, ui, turnVars, queueVars, catalogVars>>
    /\ UNCHANGED <<phase, open, left, cancelled>>

UsageEnds ==
    /\ usage = "refreshing" /\ usage' = "idle"
    /\ UNCHANGED <<phase, open, left, cancelled, gatewayVars, catalogVars>>

----------------------------------------------------------------------------
(* Handlers that use the catalog.                                          *)

\* GET /v1/models.  The launch went on with data only, so that Get does not wait here.
ModelsGet(c, due) ==
    /\ Only(c, "models", "release") /\ (GetReturns(due) \/ GetRefuses)
    /\ UNCHANGED <<active, ui, turnVars, queueVars, launchVars>>

\* catalogBackend.Start needs the catalog and the backend.
TurnStarts(c) ==
    /\ ~cclosed /\ "backend" \in open
    /\ StartSucceeds(c)
    /\ UNCHANGED <<catalogVars, launchVars>>

\* modelTurn.Finish and Cancel: a foreground turn that ended the response is remembered.
TurnSettles(c, recorded, foreground) ==
    /\ Settle(c, recorded)
    /\ recordUsed(c, foreground /\ At(c, "finish") /\ c \notin tools)
    /\ UNCHANGED launchVars

----------------------------------------------------------------------------

ServerStops ==
    /\ cancelled \/ served
    /\ RunStops

\* What the program does, when no timer has to fire.
Startup ==
    \/ SettingsPass \/ Advance \/ ChecksPass \/ PrepareGets \/ PrepareWaits \/ PrepareWakes \/ ServerStarts
    \/ (phase = "failed" \/ cancelled) /\ StartFails
    \/ \E found \in {"none", "fresh", "stale"} : PrepareCache(found)

Releasing ==
    \/ RunEnds(FALSE) \/ CloseModels \/ ReleaseNext \/ StartReturns
    \/ \E o \in open : Closed(o)

Background ==
    \/ DiscoverSucceeds \/ DiscoverFails \/ UsageEnds
    \/ \E ok \in BOOLEAN : FlightStores(ok)

Handlers(c) ==
    \/ TurnStarts(c)
    \/ \E b \in BOOLEAN : ModelsGet(c, b) \/ StatusReads(c, b)
    \/ \E b, f \in BOOLEAN : TurnSettles(c, b, f)
    \/ Handle(c) /\ UNCHANGED <<catalogVars, launchVars>>

Server ==
    /\ ServerStops \/ RunDrains \/ RunForces \/ ServeEnds(FALSE) \/ RunJoins(FALSE, FALSE)
    /\ UNCHANGED <<catalogVars, launchVars>>

OwnStep == Startup \/ Releasing \/ Background \/ Server \/ \E c \in Conns : Handlers(c)

\* The guards of OwnStep: a phase of the launch, the release of its owners, the server, a
\* connection or the work in the background can go on.
AtWork ==
    \/ phase \in DOMAIN Owner \cup {"settings", "failed", "checks", "cache"}
    \/ phase = "catalog"  /\ (cancelled \/ ~cclosed)
    \/ phase = "awaiting" /\ (cancelled \/ "launch" \notin waiting)
    \/ phase = "server"   /\ (cancelled \/ stage = "off")
    \/ phase = "running"  /\ (cancelled \/ stage = "done")
    \/ phase = "release"  /\ (left # <<>> => Head(left) \cap open = {})
    \/ \E o \in open : Closing(o) /\ (Joined(o) \/ (o = "models" /\ ~cclosed))
    \/ flight # "none" \/ usage = "refreshing"
    \/ stage = "serve" /\ (cancelled \/ served)
    \/ stage \in {"closing", "draining"}
    \/ stage = "joining" /\ (served => quiescent)
    \/ \E c \in Conns : \/ cpc[c] \notin {"none", "gone", "models", "await"}
                        \/ At(c, "models") /\ (cclosed \/ cdata # "none")
                        \/ At(c, "await") /\ before[c] \cap deliveries = {}

\* Timers that fire, the client, and failures of the system.
Outside ==
    \/ Cancel \/ RunEnds(TRUE) \/ StartFails
    \/ phase = "running" /\ DataAges /\ UNCHANGED <<gatewayVars, launchVars>>
    \/ /\ \E c \in Conns : Accept(c) \/ Request(c) \/ HookFails(c)
       /\ UNCHANGED <<catalogVars, launchVars>>
    \/ (ServeEnds(TRUE) \/ RunJoins(FALSE, TRUE) \/ RunJoins(TRUE, FALSE)) /\ UNCHANGED <<catalogVars, launchVars>>

Next == OwnStep \/ Outside

Spec == Init /\ [][Next]_vars

----------------------------------------------------------------------------
(* Properties.                                                             *)

\* Everything an owner uses outlives it, whichever phase failed and however the run ended: the
\* runner and its directory the discovery of models, the schema workers the sessions, the client's
\* profile the client, and the catalog every handler that may still save the model of its turn.
OutliveUsers ==
    /\ flight # "none" => {"runner", "runtime"} \subseteq open
    /\ "backend" \in open => "schema" \in open
    /\ "client" \in open => "profile" \in open
    /\ open # {} => "runtime" \in open
    /\ handlers # {} => ~cclosed \/ closeErr

\* A launch that ends has closed every owner, and unless its gateway reports a failed cleanup nothing
\* it started is still running.
EndsClean ==
    phase = "done" =>
        /\ open = {} /\ flight = "none" /\ usage = "idle" /\ waiting = {}
        /\ closeErr \/ \A c \in Conns : cpc[c] \in {"none", "gone"} /\ turn[c] # "open"

\* The launch has ended, or its client is running, and no request is left unanswered.
AtRest == phase \in {"running", "done"} /\ \A c \in Conns : cpc[c] \in {"none", "gone"}

\* Nobody waits for nobody: when the program can do nothing by itself it is at rest.  No join timeout
\* is needed for that.  It can do something whenever one of the guards in AtWork holds.
NothingHangs == (AtWork => ENABLED OwnStep) /\ (~ENABLED OwnStep => AtRest)
=============================================================================
