--------------------------- MODULE LauncherProofs ---------------------------
(***************************************************************************)
(* Proofs about Launcher and the Gateway it composes, for any set of       *)
(* connections and any limits.                                             *)
(***************************************************************************)
EXTENDS Launcher, SequenceTheorems, TLAPS

----------------------------------------------------------------------------
(* The invariant of the gateway.                                           *)

Places == {"none", "open", "route", "leave", "after", "gone", "models", "start", "release",
           "next", "terminal", "cancel", "finish", "await"}
Settled == {"finished", "cancelled"}

GatewayTypes ==
    /\ stage \in {"off", "serve", "closing", "draining", "joining", "done"}
    /\ {tasks, handlers, deliveries, tools, ended, drained} \subseteq SUBSET Conns
    /\ cpc \in [Conns -> Places]
    /\ turn \in [Conns -> {"none", "open"} \cup Settled]
    /\ before \in [Conns -> SUBSET Conns] /\ after \in [Conns -> SUBSET Conns]
    /\ records \in Seq(Conns)

\* What a connection is counted in, and where its turn may be open.
ConnTrue ==
    \A c \in Conns :
        /\ c \in tasks <=> cpc[c] \notin {"none", "gone"}
        /\ c \in handlers <=> cpc[c] \notin {"none", "open", "after", "gone"}
        /\ turn[c] = "open" => cpc[c] \in {"next", "terminal", "finish", "cancel"}

\* There is no connection before the server starts, and none is left when run returns without
\* an error.
StageTrue ==
    /\ stage = "off" => \A c \in Conns : cpc[c] = "none"
    /\ stage = "done" /\ ~closeErr => tasks = {} /\ handlers = {}

\* A response whose turn will be finished is registered, and a hook that came in after its end
\* waits for it.  The others that have ended leave no record: they brought tools, or their turn was
\* cancelled or still has to be.
DeliveryTrue ==
    \A c \in Conns :
        /\ cpc[c] = "terminal" /\ c \notin tools => c \in deliveries
        /\ c \in ended => cpc[c] \in {"finish", "cancel", "release", "leave", "after", "gone"}
        /\ c \in ended /\ c \notin tools /\ cpc[c] = "finish" => c \in deliveries

HookTrue ==
    \A h \in Conns :
        /\ after[h] \subseteq ended
        /\ cpc[h] = "await" =>
              \A c \in after[h] : c \notin tools /\ cpc[c] = "finish" => c \in before[h]

\* No response that had ended for a hook which took the records can leave one any more.
DrainTrue ==
    /\ \A c \in drained : c \in ended /\ (c \in tools \/ cpc[c] # "finish")
    /\ HookSeesTurn

GatewayInv == GatewayTypes /\ ConnTrue /\ StageTrue /\ DeliveryTrue /\ HookTrue /\ DrainTrue

----------------------------------------------------------------------------
(* The invariant of the launch.                                            *)

Owners == {"runtime", "runner", "models", "schema", "backend", "usage", "attached", "server",
           "profile", "client"}

\* The owners that exist in each phase of the startup and in the run.
Base == {"runtime", "runner", "models"}
Made == [settings |-> {}, runtime |-> {}, runner |-> {"runtime"},
         checks |-> {"runtime", "runner"}, cache |-> {"runtime", "runner"},
         catalog |-> Base, awaiting |-> Base, failed |-> Base, policy |-> Base, schema |-> Base,
         backend  |-> Base \cup {"schema"},
         usage    |-> Base \cup {"schema", "backend"},
         attached |-> Base \cup {"schema", "backend", "usage"},
         server   |-> Base \cup {"schema", "backend", "usage", "attached"},
         profile  |-> Base \cup {"schema", "backend", "usage", "attached", "server"},
         client   |-> Base \cup {"schema", "backend", "usage", "attached", "server", "profile"},
         running  |-> Owners]

\* Which owner uses which.
Uses == {<<"models", "runner">>, <<"backend", "schema">>, <<"client", "profile">>, <<"server", "models">>}
          \cup (Owners \ {"runtime"}) \X {"runtime"}

LaunchTypes ==
    /\ phase \in DOMAIN Made \cup {"release", "done"}
    /\ left \in Seq(SUBSET Owners)
    /\ usage \in {"idle", "refreshing"}

StartTrue == phase \in DOMAIN Made => open = Made[phase]

UseTrue == \A u \in Uses : u[1] \in open => u[2] \in open

\* What is open is left to release, a user before what it uses.
ReleaseTrue ==
    /\ phase = "release" =>
          /\ open \subseteq UNION {left[i] : i \in 1..Len(left)}
          /\ \A u \in Uses : \A i \in 1..Len(left) : u[2] \in left[i] =>
                \A j \in i..Len(left) : u[1] \notin left[j]
    /\ phase = "done" => open = {}

\* The work in the background belongs to an owner that exists, and the catalog stays open for
\* the server.
WorkTrue ==
    /\ phase \in DOMAIN Made => (cclosed <=> "models" \notin open)
    /\ ~cclosed \/ flight # "none" => "models" \in open
    /\ usage = "refreshing" => "usage" \in open
    /\ waiting \subseteq {"launch"} /\ (waiting # {} => phase = "awaiting")
    /\ cclosed \/ "server" \notin open => stage \in {"off", "done"}

LaunchInv == LaunchTypes /\ StartTrue /\ UseTrue /\ ReleaseTrue /\ WorkTrue

----------------------------------------------------------------------------
(* Each step of the gateway keeps its invariant.                           *)

\* What most steps of a handler do: they go on, inside it.  A login message ends the response of a
\* turn that is refused or fails.
Moved(c) ==
    /\ \/ At(c, "route") /\ (\E to \in {"leave", "models", "start"} : Goto(c, to)) /\ ended' = ended
       \/ (At(c, "start") \/ At(c, "models")) /\ Goto(c, "release") /\ ended' \in {ended, ended \cup {c}}
       \/ At(c, "next") /\ Goto(c, "cancel") /\ ended' \in {ended, ended \cup {c}}
       \/ At(c, "await") /\ Goto(c, "leave") /\ ended' = ended
    /\ UNCHANGED <<stage, closeErr, tasks, handlers, turn, tools, deliveries, before, after, drained, records>>

\* Such a step.
LEMMA MovedKeeps ==
    ASSUME GatewayInv, NEW c \in Conns, Moved(c)
    PROVE  GatewayInv'
<1>0. GatewayTypes /\ ConnTrue /\ StageTrue /\ DeliveryTrue /\ HookTrue /\ DrainTrue
  BY DEF GatewayInv
<1>1. PICK to \in Places :
         /\ cpc' = [cpc EXCEPT ![c] = to]
         /\ to \in {"leave", "models", "start", "release", "cancel"}
         /\ cpc[c] \in {"route", "start", "models", "next", "await"}
         /\ to # "cancel" => cpc[c] # "next"
         /\ ended' = ended \/ (ended' = ended \cup {c} /\ to \in {"release", "cancel"})
         /\ UNCHANGED <<stage, closeErr, tasks, handlers, turn, tools, deliveries, before, after, drained, records>>
  BY DEF Moved, At, Goto, Places
<1>2. GatewayTypes'
  BY <1>0, <1>1 DEF GatewayTypes, Places, Settled
<1>3. ConnTrue'
  BY <1>0, <1>1 DEF GatewayTypes, ConnTrue, Settled
<1>4. StageTrue'
  BY <1>0, <1>1 DEF GatewayTypes, ConnTrue, StageTrue
<1>5. DeliveryTrue'
  BY <1>0, <1>1 DEF GatewayTypes, ConnTrue, DeliveryTrue
<1>6. HookTrue'
  BY <1>0, <1>1 DEF GatewayTypes, DeliveryTrue, HookTrue
<1>7. DrainTrue'
  BY <1>0, <1>1 DEF GatewayTypes, DeliveryTrue, DrainTrue, HookSeesTurn
<1> QED BY <1>2, <1>3, <1>4, <1>5, <1>6, <1>7 DEF GatewayInv

\* A connection comes in.
LEMMA AcceptKeeps ==
    ASSUME GatewayInv, NEW c \in Conns, Accept(c)
    PROVE  GatewayInv'
<1>0. GatewayTypes /\ ConnTrue /\ StageTrue /\ DeliveryTrue /\ HookTrue /\ DrainTrue
  BY DEF GatewayInv
<1>1. /\ cpc[c] = "none" /\ stage \in {"serve", "closing"}
      /\ cpc' = [cpc EXCEPT ![c] = "open"] /\ tasks' = tasks \cup {c}
      /\ UNCHANGED <<stage, closeErr, handlers, turn, tools, ended, deliveries, before, after, drained, records>>
  BY DEF Accept, At, Goto, turnVars, queueVars
<1>2. GatewayTypes'
  BY <1>0, <1>1 DEF GatewayTypes, Places, Settled
<1>3. ConnTrue'
  BY <1>0, <1>1 DEF GatewayTypes, ConnTrue, Settled
<1>4. StageTrue'
  BY <1>0, <1>1 DEF GatewayTypes, ConnTrue, StageTrue
<1>5. DeliveryTrue'
  BY <1>0, <1>1 DEF GatewayTypes, ConnTrue, DeliveryTrue
<1>6. HookTrue'
  BY <1>0, <1>1 DEF GatewayTypes, DeliveryTrue, HookTrue
<1>7. DrainTrue'
  BY <1>0, <1>1 DEF GatewayTypes, DeliveryTrue, DrainTrue, HookSeesTurn
<1> QED BY <1>2, <1>3, <1>4, <1>5, <1>6, <1>7 DEF GatewayInv

\* A request is read.
LEMMA RequestKeeps ==
    ASSUME GatewayInv, NEW c \in Conns, Request(c)
    PROVE  GatewayInv'
<1>0. GatewayTypes /\ ConnTrue /\ StageTrue /\ DeliveryTrue /\ HookTrue /\ DrainTrue
  BY DEF GatewayInv
<1>1. /\ cpc[c] = "open"
      /\ cpc' = [cpc EXCEPT ![c] = IF stage = "serve" THEN "route" ELSE "leave"]
      /\ handlers' = handlers \cup {c}
      /\ UNCHANGED <<stage, closeErr, tasks, turn, tools, ended, deliveries, before, after, drained, records>>
  BY DEF Request, At, Goto, turnVars, queueVars, serverVars
<1>2. GatewayTypes'
  BY <1>0, <1>1 DEF GatewayTypes, Places, Settled
<1>3. ConnTrue'
  BY <1>0, <1>1 DEF GatewayTypes, ConnTrue, Settled
<1>4. StageTrue'
  BY <1>0, <1>1 DEF GatewayTypes, ConnTrue, StageTrue
<1>5. DeliveryTrue'
  BY <1>0, <1>1 DEF GatewayTypes, ConnTrue, DeliveryTrue
<1>6. HookTrue'
  BY <1>0, <1>1 DEF GatewayTypes, DeliveryTrue, HookTrue
<1>7. DrainTrue'
  BY <1>0, <1>1 DEF GatewayTypes, DeliveryTrue, DrainTrue, HookSeesTurn
<1> QED BY <1>2, <1>3, <1>4, <1>5, <1>6, <1>7 DEF GatewayInv

\* A handler returns.
LEMMA LeaveKeeps ==
    ASSUME GatewayInv, NEW c \in Conns, Leave(c)
    PROVE  GatewayInv'
<1>0. GatewayTypes /\ ConnTrue /\ StageTrue /\ DeliveryTrue /\ HookTrue /\ DrainTrue
  BY DEF GatewayInv
<1>1. /\ cpc[c] = "leave" /\ cpc' = [cpc EXCEPT ![c] = "after"]
      /\ handlers' = handlers \ {c}
      /\ after' = [after EXCEPT ![c] = {}] /\ before' = [before EXCEPT ![c] = {}]
      /\ UNCHANGED <<stage, closeErr, tasks, turn, tools, ended, deliveries, drained, records>>
  BY DEF Leave, At, Goto, turnVars, serverVars
<1>2. GatewayTypes'
  BY <1>0, <1>1 DEF GatewayTypes, Places, Settled
<1>3. ConnTrue'
  BY <1>0, <1>1 DEF GatewayTypes, ConnTrue, Settled
<1>4. StageTrue'
  BY <1>0, <1>1 DEF GatewayTypes, ConnTrue, StageTrue
<1>5. DeliveryTrue'
  BY <1>0, <1>1 DEF GatewayTypes, ConnTrue, DeliveryTrue
<1>6. HookTrue'
  BY <1>0, <1>1 DEF GatewayTypes, DeliveryTrue, HookTrue
<1>7. DrainTrue'
  BY <1>0, <1>1 DEF GatewayTypes, DeliveryTrue, DrainTrue, HookSeesTurn
<1> QED BY <1>2, <1>3, <1>4, <1>5, <1>6, <1>7 DEF GatewayInv

\* A connection ends.
LEMMA ConnEndsKeeps ==
    ASSUME GatewayInv, NEW c \in Conns, ConnEnds(c)
    PROVE  GatewayInv'
<1>0. GatewayTypes /\ ConnTrue /\ StageTrue /\ DeliveryTrue /\ HookTrue /\ DrainTrue
  BY DEF GatewayInv
<1>1. /\ cpc[c] \in {"open", "after"} /\ cpc' = [cpc EXCEPT ![c] = "gone"]
      /\ tasks' = tasks \ {c}
      /\ UNCHANGED <<stage, closeErr, handlers, turn, tools, ended, deliveries, before, after, drained, records>>
  BY DEF ConnEnds, Goto, turnVars, queueVars
<1>2. GatewayTypes'
  BY <1>0, <1>1 DEF GatewayTypes, Places, Settled
<1>3. ConnTrue'
  BY <1>0, <1>1 DEF GatewayTypes, ConnTrue, Settled
<1>4. StageTrue'
  BY <1>0, <1>1 DEF GatewayTypes, ConnTrue, StageTrue
<1>5. DeliveryTrue'
  BY <1>0, <1>1 DEF GatewayTypes, ConnTrue, DeliveryTrue
<1>6. HookTrue'
  BY <1>0, <1>1 DEF GatewayTypes, DeliveryTrue, HookTrue
<1>7. DrainTrue'
  BY <1>0, <1>1 DEF GatewayTypes, DeliveryTrue, DrainTrue, HookSeesTurn
<1> QED BY <1>2, <1>3, <1>4, <1>5, <1>6, <1>7 DEF GatewayInv

\* A turn starts.
LEMMA StartKeeps ==
    ASSUME GatewayInv, NEW c \in Conns, StartSucceeds(c)
    PROVE  GatewayInv'
<1>0. GatewayTypes /\ ConnTrue /\ StageTrue /\ DeliveryTrue /\ HookTrue /\ DrainTrue
  BY DEF GatewayInv
<1>1. /\ cpc[c] = "start" /\ cpc' = [cpc EXCEPT ![c] = "next"]
      /\ turn' = [turn EXCEPT ![c] = "open"]
      /\ UNCHANGED <<stage, closeErr, tasks, handlers, tools, ended, deliveries, before, after, drained, records>>
  BY DEF StartSucceeds, Only, At, Goto, serverVars, queueVars
<1>2. GatewayTypes'
  BY <1>0, <1>1 DEF GatewayTypes, Places, Settled
<1>3. ConnTrue'
  BY <1>0, <1>1 DEF GatewayTypes, ConnTrue, Settled
<1>4. StageTrue'
  BY <1>0, <1>1 DEF GatewayTypes, ConnTrue, StageTrue
<1>5. DeliveryTrue'
  BY <1>0, <1>1 DEF GatewayTypes, ConnTrue, DeliveryTrue
<1>6. HookTrue'
  BY <1>0, <1>1 DEF GatewayTypes, DeliveryTrue, HookTrue
<1>7. DrainTrue'
  BY <1>0, <1>1 DEF GatewayTypes, DeliveryTrue, DrainTrue, HookSeesTurn
<1> QED BY <1>2, <1>3, <1>4, <1>5, <1>6, <1>7 DEF GatewayInv

\* A batch of tools is kept.
LEMMA ToolsKeep ==
    ASSUME GatewayInv, NEW c \in Conns, NextTools(c)
    PROVE  GatewayInv'
<1>0. GatewayTypes /\ ConnTrue /\ StageTrue /\ DeliveryTrue /\ HookTrue /\ DrainTrue
  BY DEF GatewayInv
<1>1. /\ cpc[c] = "next" /\ tools' = tools \cup {c}
      /\ UNCHANGED <<stage, closeErr, tasks, handlers, cpc, turn, ended, deliveries, before, after, drained, records>>
  BY DEF NextTools, At, serverVars, queueVars
<1>2. GatewayTypes'
  BY <1>0, <1>1 DEF GatewayTypes, Places, Settled
<1>3. ConnTrue'
  BY <1>0, <1>1 DEF GatewayTypes, ConnTrue, Settled
<1>4. StageTrue'
  BY <1>0, <1>1 DEF GatewayTypes, ConnTrue, StageTrue
<1>5. DeliveryTrue'
  BY <1>0, <1>1 DEF GatewayTypes, ConnTrue, DeliveryTrue
<1>6. HookTrue'
  BY <1>0, <1>1 DEF GatewayTypes, DeliveryTrue, HookTrue
<1>7. DrainTrue'
  BY <1>0, <1>1 DEF GatewayTypes, DeliveryTrue, DrainTrue, HookSeesTurn
<1> QED BY <1>2, <1>3, <1>4, <1>5, <1>6, <1>7 DEF GatewayInv

\* The backend ends a turn.
LEMMA NextEndsKeeps ==
    ASSUME GatewayInv, NEW c \in Conns, NEW toolUse \in BOOLEAN, NextEnds(c, toolUse)
    PROVE  GatewayInv'
<1>0. GatewayTypes /\ ConnTrue /\ StageTrue /\ DeliveryTrue /\ HookTrue /\ DrainTrue
  BY DEF GatewayInv
<1>1. /\ cpc[c] = "next" /\ deliveries' \in SUBSET (deliveries \cup {c}) /\ deliveries \subseteq deliveries'
      /\ \/ cpc' = [cpc EXCEPT ![c] = "cancel"]
         \/ cpc' = [cpc EXCEPT ![c] = "terminal"] /\ (c \notin tools => c \in deliveries')
      /\ UNCHANGED <<stage, closeErr, tasks, handlers, turn, tools, ended, before, after, drained, records>>
  BY DEF NextEnds, Only, At, Goto, serverVars, turnVars
<1>2. GatewayTypes'
  BY <1>0, <1>1 DEF GatewayTypes, Places, Settled
<1>3. ConnTrue'
  BY <1>0, <1>1 DEF GatewayTypes, ConnTrue, Settled
<1>4. StageTrue'
  BY <1>0, <1>1 DEF GatewayTypes, ConnTrue, StageTrue
<1>5. DeliveryTrue'
  BY <1>0, <1>1 DEF GatewayTypes, ConnTrue, DeliveryTrue
<1>6. HookTrue'
  BY <1>0, <1>1 DEF GatewayTypes, DeliveryTrue, HookTrue
<1>7. DrainTrue'
  BY <1>0, <1>1 DEF GatewayTypes, DeliveryTrue, DrainTrue, HookSeesTurn
<1> QED BY <1>2, <1>3, <1>4, <1>5, <1>6, <1>7 DEF GatewayInv

\* The end of a response is written, or not.
LEMMA TerminalKeeps ==
    ASSUME GatewayInv, NEW c \in Conns, NEW ok \in BOOLEAN, NEW wanted \in BOOLEAN, Terminal(c, ok, wanted)
    PROVE  GatewayInv'
<1>0. GatewayTypes /\ ConnTrue /\ StageTrue /\ DeliveryTrue /\ HookTrue /\ DrainTrue
  BY DEF GatewayInv
<1>1. /\ cpc[c] = "terminal" /\ ended \subseteq ended' /\ ended' \in SUBSET (ended \cup {c})
      /\ \/ cpc' = [cpc EXCEPT ![c] = "cancel"]
         \/ cpc' = [cpc EXCEPT ![c] = "finish"]
      /\ UNCHANGED <<stage, closeErr, tasks, handlers, turn, tools, deliveries, before, after, drained, records>>
  BY DEF Terminal, Only, At, Goto, serverVars, queueVars
<1>2. GatewayTypes'
  BY <1>0, <1>1 DEF GatewayTypes, Places, Settled
<1>3. ConnTrue'
  BY <1>0, <1>1 DEF GatewayTypes, ConnTrue, Settled
<1>4. StageTrue'
  BY <1>0, <1>1 DEF GatewayTypes, ConnTrue, StageTrue
<1>5. DeliveryTrue'
  BY <1>0, <1>1 DEF GatewayTypes, ConnTrue, DeliveryTrue
<1>6. HookTrue'
  <2>1. c \notin ended
    BY <1>0, <1>1 DEF DeliveryTrue
  <2>2. \A d \in ended : cpc'[d] = cpc[d] /\ d \in ended'
    BY <1>0, <1>1, <2>1 DEF GatewayTypes
  <2>3. \A h \in Conns : cpc'[h] = "await" => cpc[h] = "await"
    BY <1>0, <1>1 DEF GatewayTypes
  <2>4. ASSUME NEW h \in Conns
        PROVE  /\ after'[h] \subseteq ended'
               /\ cpc'[h] = "await" =>
                     \A d \in after'[h] : d \notin tools' /\ cpc'[d] = "finish" => d \in before'[h]
    BY <1>0, <1>1, <2>2, <2>3 DEF HookTrue
  <2> QED BY <2>4 DEF HookTrue
<1>7. DrainTrue'
  BY <1>0, <1>1 DEF GatewayTypes, DeliveryTrue, DrainTrue, HookSeesTurn
<1> QED BY <1>2, <1>3, <1>4, <1>5, <1>6, <1>7 DEF GatewayInv

\* What the queue holds after a push: the new record, and records it had.
LEMMA PushHolds ==
    ASSUME NEW c \in Conns, records \in Seq(Conns)
    PROVE  /\ Push(c) \in Seq(Conns)
           /\ \A i \in 1..Len(Push(c)) : Push(c)[i] = c \/ \E k \in 1..Len(records) : Push(c)[i] = records[k]
<1> DEFINE kept == IF Len(records) = MaxRecords THEN Tail(records) ELSE records
<1>1. kept \in Seq(Conns) /\ \A i \in 1..Len(kept) : \E k \in 1..Len(records) : kept[i] = records[k]
  <2>1. CASE Len(records) = MaxRecords
    <3>1. records # <<>> /\ Len(records) \in Nat
      BY <2>1, GatewayAssumption, EmptySeq
    <3>2. /\ Tail(records) \in Seq(Conns) /\ Len(Tail(records)) = Len(records) - 1
          /\ \A i \in 1..Len(Tail(records)) : Tail(records)[i] = records[i + 1]
      BY <3>1, HeadTailProperties
    <3>3. \A i \in 1..Len(Tail(records)) : i + 1 \in 1..Len(records)
      BY <3>1, <3>2
    <3> QED BY <2>1, <3>2, <3>3
  <2>2. CASE Len(records) # MaxRecords
    BY <2>2
  <2> QED BY <2>1, <2>2
<1>2. Push(c) = Append(kept, c)
  BY DEF Push
<1> HIDE DEF kept
<1>3. /\ Len(kept) \in Nat /\ Push(c) \in Seq(Conns) /\ Len(Push(c)) = Len(kept) + 1
      /\ Push(c)[Len(kept) + 1] = c /\ \A i \in 1..Len(kept) : Push(c)[i] = kept[i]
  BY <1>1, <1>2, AppendProperties, LenProperties
<1>4. \A i \in 1..Len(Push(c)) : i = Len(kept) + 1 \/ i \in 1..Len(kept)
  BY <1>3
<1> QED BY <1>1, <1>3, <1>4

\* A turn is settled.
LEMMA SettleKeeps ==
    ASSUME GatewayInv, NEW c \in Conns, NEW recorded \in BOOLEAN, Settle(c, recorded)
    PROVE  GatewayInv'
<1>0. GatewayTypes /\ ConnTrue /\ StageTrue /\ DeliveryTrue /\ HookTrue /\ DrainTrue
  BY DEF GatewayInv
<1>1. /\ cpc[c] \in {"finish", "cancel"} /\ cpc' = [cpc EXCEPT ![c] = "release"]
      /\ \/ turn' = [turn EXCEPT ![c] = "finished"]
         \/ turn' = [turn EXCEPT ![c] = "cancelled"]
      /\ UNCHANGED <<stage, closeErr, tasks, handlers, tools, ended, deliveries, before, after, drained>>
      /\ records' = records \/ (records' = Push(c) /\ cpc[c] = "finish" /\ c \notin tools)
  BY DEF Settle, At, Goto, serverVars
<1>8. /\ records' \in Seq(Conns)
      /\ \A i \in 1..Len(records') : (\E k \in 1..Len(records) : records'[i] = records[k])
                                     \/ (records'[i] = c /\ cpc[c] = "finish" /\ c \notin tools)
  <2>1. CASE records' = records
    BY <1>0, <2>1 DEF GatewayTypes
  <2>2. CASE records' = Push(c) /\ cpc[c] = "finish" /\ c \notin tools
    BY <1>0, <2>2, PushHolds DEF GatewayTypes
  <2> QED BY <1>1, <2>1, <2>2
<1>2. GatewayTypes'
  BY <1>0, <1>1, <1>8 DEF GatewayTypes, Places, Settled
<1>3. ConnTrue'
  BY <1>0, <1>1 DEF GatewayTypes, ConnTrue, Settled
<1>4. StageTrue'
  BY <1>0, <1>1 DEF GatewayTypes, ConnTrue, StageTrue
<1>5. DeliveryTrue'
  BY <1>0, <1>1 DEF GatewayTypes, ConnTrue, DeliveryTrue
<1>6. HookTrue'
  BY <1>0, <1>1 DEF GatewayTypes, DeliveryTrue, HookTrue
<1>7. DrainTrue'
  BY <1>0, <1>1, <1>8 DEF GatewayTypes, DeliveryTrue, DrainTrue, HookSeesTurn
<1> QED BY <1>2, <1>3, <1>4, <1>5, <1>6, <1>7 DEF GatewayInv

\* A response is no longer registered.
LEMMA ReleaseKeeps ==
    ASSUME GatewayInv, NEW c \in Conns, Release(c)
    PROVE  GatewayInv'
<1>0. GatewayTypes /\ ConnTrue /\ StageTrue /\ DeliveryTrue /\ HookTrue /\ DrainTrue
  BY DEF GatewayInv
<1>1. /\ cpc[c] = "release" /\ cpc' = [cpc EXCEPT ![c] = "leave"]
      /\ deliveries' = deliveries \ {c}
      /\ UNCHANGED <<stage, closeErr, tasks, handlers, turn, tools, ended, before, after, drained, records>>
  BY DEF Release, Only, At, Goto, serverVars, turnVars
<1>2. GatewayTypes'
  BY <1>0, <1>1 DEF GatewayTypes, Places, Settled
<1>3. ConnTrue'
  BY <1>0, <1>1 DEF GatewayTypes, ConnTrue, Settled
<1>4. StageTrue'
  BY <1>0, <1>1 DEF GatewayTypes, ConnTrue, StageTrue
<1>5. DeliveryTrue'
  BY <1>0, <1>1 DEF GatewayTypes, ConnTrue, DeliveryTrue
<1>6. HookTrue'
  BY <1>0, <1>1 DEF GatewayTypes, DeliveryTrue, HookTrue
<1>7. DrainTrue'
  BY <1>0, <1>1 DEF GatewayTypes, DeliveryTrue, DrainTrue, HookSeesTurn
<1> QED BY <1>2, <1>3, <1>4, <1>5, <1>6, <1>7 DEF GatewayInv

\* A hook is admitted.
LEMMA HookKeeps ==
    ASSUME GatewayInv, NEW c \in Conns, AdmitHook(c)
    PROVE  GatewayInv'
<1>0. GatewayTypes /\ ConnTrue /\ StageTrue /\ DeliveryTrue /\ HookTrue /\ DrainTrue
  BY DEF GatewayInv
<1>1. /\ cpc[c] = "route"
      /\ \/ cpc' = [cpc EXCEPT ![c] = "leave"] /\ UNCHANGED <<before, after>>
         \/ /\ cpc' = [cpc EXCEPT ![c] = "await"]
            /\ before' = [before EXCEPT ![c] = deliveries] /\ after' = [after EXCEPT ![c] = ended]
      /\ UNCHANGED <<stage, closeErr, tasks, handlers, turn, tools, ended, deliveries, drained, records>>
  BY DEF AdmitHook, Only, At, Goto, serverVars, turnVars
<1>2. GatewayTypes'
  BY <1>0, <1>1 DEF GatewayTypes, Places, Settled
<1>3. ConnTrue'
  BY <1>0, <1>1 DEF GatewayTypes, ConnTrue, Settled
<1>4. StageTrue'
  BY <1>0, <1>1 DEF GatewayTypes, ConnTrue, StageTrue
<1>5. DeliveryTrue'
  BY <1>0, <1>1 DEF GatewayTypes, ConnTrue, DeliveryTrue
<1>6. HookTrue'
  BY <1>0, <1>1 DEF GatewayTypes, DeliveryTrue, HookTrue
<1>7. DrainTrue'
  BY <1>0, <1>1 DEF GatewayTypes, DeliveryTrue, DrainTrue, HookSeesTurn
<1> QED BY <1>2, <1>3, <1>4, <1>5, <1>6, <1>7 DEF GatewayInv

\* A hook takes the records: what it waited for is released, so its turn is settled.
LEMMA DrainKeeps ==
    ASSUME GatewayInv, NEW h \in Conns, HookDrains(h)
    PROVE  GatewayInv'
<1>0. GatewayTypes /\ ConnTrue /\ StageTrue /\ DeliveryTrue /\ HookTrue /\ DrainTrue
  BY DEF GatewayInv
<1>1. /\ cpc[h] = "await" /\ cpc' = [cpc EXCEPT ![h] = "leave"]
      /\ before[h] \cap deliveries = {} /\ records' = <<>> /\ drained' = drained \cup after[h]
      /\ UNCHANGED <<stage, closeErr, tasks, handlers, turn, tools, ended, deliveries, before, after>>
  BY DEF HookDrains, Only, At, Goto, serverVars, turnVars
<1>8. records' \in Seq(Conns) /\ Len(records') = 0
  BY <1>1, EmptySeq
<1>2. GatewayTypes'
  BY <1>0, <1>1, <1>8 DEF GatewayTypes, Places, Settled
<1>3. ConnTrue'
  BY <1>0, <1>1 DEF GatewayTypes, ConnTrue, Settled
<1>4. StageTrue'
  BY <1>0, <1>1 DEF GatewayTypes, ConnTrue, StageTrue
<1>5. DeliveryTrue'
  BY <1>0, <1>1 DEF GatewayTypes, ConnTrue, DeliveryTrue
<1>6. HookTrue'
  BY <1>0, <1>1 DEF GatewayTypes, DeliveryTrue, HookTrue
<1>7. DrainTrue'
  <2>1. ASSUME NEW c \in after[h] PROVE c \in ended /\ (c \in tools \/ cpc[c] # "finish")
    BY <1>0, <1>1, <2>1 DEF GatewayTypes, DeliveryTrue, HookTrue
  <2>2. \A c \in drained' : c \in ended' /\ (c \in tools' \/ cpc'[c] # "finish")
    BY <1>0, <1>1, <2>1 DEF GatewayTypes, DrainTrue
  <2>3. HookSeesTurn'
    BY <1>8 DEF HookSeesTurn
  <2> QED BY <2>2, <2>3 DEF DrainTrue
<1> QED BY <1>2, <1>3, <1>4, <1>5, <1>6, <1>7 DEF GatewayInv

\* The server goes on.
LEMMA ServerKeeps ==
    ASSUME GatewayInv, 
           \/ StartServer \/ RunStops \/ RunDrains \/ RunForces
           \/ (\E b \in BOOLEAN : ServeEnds(b)) \/ (\E b, f \in BOOLEAN : RunJoins(b, f))
    PROVE  GatewayInv'
<1>0. GatewayTypes /\ ConnTrue /\ StageTrue /\ DeliveryTrue /\ HookTrue /\ DrainTrue
  BY DEF GatewayInv
<1>1. /\ stage' \in {"serve", "closing", "draining", "joining", "done", stage} /\ (stage' = "off" => stage = "off")
      /\ stage' = "done" /\ ~closeErr' => (stage = "done" /\ ~closeErr) \/ (handlers = {} /\ tasks = {})
      /\ UNCHANGED <<tasks, handlers, cpc, turn, tools, ended, deliveries, before, after, drained, records>>
  <2>1. CASE StartServer \/ RunStops \/ RunDrains \/ RunForces
    BY <2>1 DEF StartServer, RunStops, RunDrains, RunForces, turnVars, queueVars
  <2>2. CASE \E b \in BOOLEAN : ServeEnds(b)
    <3>1. UNCHANGED <<stage, closeErr, tasks, handlers, cpc, turn, tools, ended, deliveries, before, after, drained, records>>
      BY <2>2 DEF ServeEnds, turnVars, queueVars
    <3>2. ~closeErr' => ~closeErr
      BY <3>1, Zenon
    <3> QED BY <3>1, <3>2
  <2>3. CASE \E b, f \in BOOLEAN : RunJoins(b, f)
    BY <2>3 DEF RunJoins, quiescent, turnVars, queueVars
  <2> QED BY <2>1, <2>2, <2>3
<1>2. GatewayTypes'
  BY <1>0, <1>1 DEF GatewayTypes, Places, Settled
<1>3. ConnTrue'
  BY <1>0, <1>1 DEF GatewayTypes, ConnTrue, Settled
<1>4. StageTrue'
  BY <1>0, <1>1 DEF GatewayTypes, ConnTrue, StageTrue
<1>5. DeliveryTrue'
  BY <1>0, <1>1 DEF GatewayTypes, ConnTrue, DeliveryTrue
<1>6. HookTrue'
  BY <1>0, <1>1 DEF GatewayTypes, DeliveryTrue, HookTrue
<1>7. DrainTrue'
  BY <1>0, <1>1 DEF GatewayTypes, DeliveryTrue, DrainTrue, HookSeesTurn
<1> QED BY <1>2, <1>3, <1>4, <1>5, <1>6, <1>7 DEF GatewayInv

----------------------------------------------------------------------------
(* What the tables of the launch say.                                      *)

LEMMA MadeDomain ==
    DOMAIN Made = {"settings", "runtime", "runner", "checks", "cache", "catalog", "awaiting", "failed",
                   "policy", "schema", "backend", "usage", "attached", "server", "profile", "client", "running"}
BY DEF Made

LEMMA OwnerDomain ==
    DOMAIN Owner = {"runtime", "runner", "policy", "schema", "backend", "usage", "attached", "profile", "client"}
BY DEF Owner

\* A phase that succeeds leads to one with its owner.
LEMMA Phases ==
    ASSUME NEW p \in DOMAIN Owner
    PROVE  p \in DOMAIN Made /\ After[p] \in DOMAIN Made /\ Made[After[p]] = Made[p] \cup Owner[p]
<1>1. CASE p \in {"runtime", "runner", "policy"}
  BY <1>1 DEF Owner, After, Made, Base
<1>2. CASE p \in {"schema", "backend", "usage"}
  BY <1>2 DEF Owner, After, Made, Base
<1>3. CASE p \in {"attached", "profile"}
  BY <1>3 DEF Owner, After, Made, Base
<1>4. CASE p = "client"
  BY <1>4 DEF Owner, After, Made, Base, Owners
<1> QED BY <1>1, <1>2, <1>3, <1>4, OwnerDomain

\* Only these phases have made the catalog, and the server.
LEMMA MadeHas ==
    ASSUME NEW p \in DOMAIN Made
    PROVE  /\ Made[p] \in SUBSET Owners
           /\ "models" \in Made[p] <=>
                 p \notin {"settings", "runtime", "runner", "checks", "cache"}
           /\ "server" \in Made[p] <=> p \in {"profile", "client", "running"}
BY MadeDomain DEF Made, Base, Owners

LEMMA MadeUses ==
    ASSUME NEW p \in DOMAIN Made, NEW u \in Uses, u[1] \in Made[p]
    PROVE  u[2] \in Made[p]
<1>1. CASE u \in (Owners \ {"runtime"}) \X {"runtime"}
  <2>1. u[1] \in Owners \ {"runtime"} /\ u[2] = "runtime"
    BY <1>1
  <2> QED BY <2>1, MadeDomain DEF Made, Base, Owners
<1>2. CASE u \in {<<"models", "runner">>, <<"backend", "schema">>, <<"client", "profile">>, <<"server", "models">>}
  BY <1>2, MadeDomain DEF Made, Base, Owners
<1> QED BY <1>1, <1>2 DEF Uses

\* The two orders.
Ordered(s) ==
    /\ s \in Seq(SUBSET Owners)
    /\ \A u \in Uses : \A i \in 1..Len(s) : u[2] \in s[i] => \A j \in i..Len(s) : u[1] \notin s[j]

LEMMA ReleaseOrdered ==
    ASSUME phase \in DOMAIN Made
    PROVE  Ordered(ReleaseOrder) /\ Made[phase] \subseteq UNION {ReleaseOrder[i] : i \in 1..Len(ReleaseOrder)}
<1>1. CASE Transferred
  <2> DEFINE s == <<{"server", "client", "backend", "usage"}, {"models"}, {"attached"}, {"schema"},
           {"profile"}, {"runner"}, {"runtime"}>>
  <2>1. ReleaseOrder = s
    BY <1>1 DEF ReleaseOrder
  <2>2. s \in Seq(SUBSET Owners) /\ Len(s) = 7
    BY DEF Owners
  <2>3. /\ s[1] = {"server", "client", "backend", "usage"} /\ s[2] = {"models"} /\ s[3] = {"attached"}
        /\ s[4] = {"schema"} /\ s[5] = {"profile"} /\ s[6] = {"runner"} /\ s[7] = {"runtime"}
    OBVIOUS
  <2> HIDE DEF s
  <2>4. ASSUME NEW u \in Uses, NEW i \in 1..7, u[2] \in s[i], NEW j \in i..7 PROVE u[1] \notin s[j]
    <3>1. i \in {1, 2, 3, 4, 5, 6, 7} /\ j \in {1, 2, 3, 4, 5, 6, 7} /\ j >= i
      OBVIOUS
    <3>2. CASE u[1] \in Owners \ {"runtime"} /\ u[2] = "runtime"
      BY <2>3, <2>4, <3>1, <3>2
    <3>3. CASE u = <<"models", "runner">> \/ u = <<"backend", "schema">>
      BY <2>3, <2>4, <3>1, <3>3
    <3>4. CASE u = <<"client", "profile">> \/ u = <<"server", "models">>
      BY <2>3, <2>4, <3>1, <3>4
    <3> QED BY <3>2, <3>3, <3>4 DEF Uses
  <2>5. Owners \subseteq UNION {s[i] : i \in 1..7}
    BY <2>3 DEF Owners
  <2> QED BY <2>1, <2>2, <2>4, <2>5, MadeHas DEF Ordered
<1>2. CASE ~Transferred
  <2> DEFINE s == <<{"usage"}, {"backend"}, {"schema"}, {"models"}, {"runner"}, {"runtime"}>>
  <2>1. ReleaseOrder = s
    BY <1>2 DEF ReleaseOrder
  <2>2. s \in Seq(SUBSET Owners) /\ Len(s) = 6
    BY DEF Owners
  <2>3. /\ s[1] = {"usage"} /\ s[2] = {"backend"} /\ s[3] = {"schema"}
        /\ s[4] = {"models"} /\ s[5] = {"runner"} /\ s[6] = {"runtime"}
    OBVIOUS
  <2> HIDE DEF s
  <2>4. ASSUME NEW u \in Uses, NEW i \in 1..6, u[2] \in s[i], NEW j \in i..6 PROVE u[1] \notin s[j]
    <3>1. i \in {1, 2, 3, 4, 5, 6} /\ j \in {1, 2, 3, 4, 5, 6} /\ j >= i
      OBVIOUS
    <3>2. CASE u[1] \in Owners \ {"runtime"} /\ u[2] = "runtime"
      BY <2>3, <2>4, <3>1, <3>2
    <3>3. CASE u = <<"models", "runner">> \/ u = <<"backend", "schema">>
      BY <2>3, <2>4, <3>1, <3>3
    <3>4. CASE u = <<"client", "profile">> \/ u = <<"server", "models">>
      BY <2>3, <2>4, <3>1, <3>4
    <3> QED BY <3>2, <3>3, <3>4 DEF Uses
  <2>5. Made[phase] \subseteq {"usage", "backend", "schema", "models", "runner", "runtime"}
    BY <1>2, MadeDomain DEF Made, Base, Transferred
  <2>6. {"usage", "backend", "schema", "models", "runner", "runtime"} \subseteq UNION {s[i] : i \in 1..6}
    BY <2>3
  <2> QED BY <2>1, <2>2, <2>4, <2>5, <2>6 DEF Ordered
<1> QED BY <1>1, <1>2

----------------------------------------------------------------------------
(* Each step keeps the invariant of the launch.                            *)

LEMMA InvInit == Init => GatewayInv /\ LaunchInv
<1> SUFFICES ASSUME Init PROVE GatewayInv /\ LaunchInv
  OBVIOUS
<1>1. GatewayInv
  <2>1. records \in Seq(Conns) /\ Len(records) = 0
    BY EmptySeq DEF Init, GatewayInit
  <2>2. DrainTrue
    BY <2>1 DEF Init, GatewayInit, DrainTrue, HookSeesTurn
  <2> QED BY <2>1, <2>2 DEF Init, GatewayInit, GatewayInv, GatewayTypes, ConnTrue, StageTrue, DeliveryTrue, HookTrue,
                            Places, Settled
<1>2. LaunchInv
  BY MadeDomain, MadeHas, MadeUses DEF Init, GatewayInit, CatalogInit, LaunchInv, LaunchTypes, StartTrue, UseTrue,
     ReleaseTrue, WorkTrue, Made
<1> QED BY <1>1, <1>2

\* The launch does not notice what its connections do, nor the server once it runs.
LEMMA OthersKeep ==
    ASSUME LaunchInv, UNCHANGED <<phase, open, left, cclosed>>, waiting' \subseteq waiting,
           stage' = stage \/ stage \notin {"off", "done"},
           flight' = flight \/ flight' = "none" \/ ~cclosed,
           usage' \in {usage, "idle"} \/ (usage' = "refreshing" /\ "usage" \in open)
    PROVE  LaunchInv'
<1>1. LaunchTypes' /\ StartTrue' /\ UseTrue' /\ ReleaseTrue'
  BY DEF LaunchInv, LaunchTypes, StartTrue, UseTrue, ReleaseTrue
<1>2. WorkTrue'
  BY DEF LaunchInv, LaunchTypes, WorkTrue
<1> QED BY <1>1, <1>2 DEF LaunchInv

\* A phase leads to the next.
LEMMA PhaseKeeps ==
    ASSUME LaunchInv, phase \in DOMAIN Made, phase' \in DOMAIN Made, open' = Made[phase'],
           UNCHANGED <<left, usage>>,
           cclosed' <=> "models" \notin open', open \subseteq open',
           flight' = flight \/ ~cclosed',
           waiting' \subseteq {"launch"}, waiting' # {} => phase' = "awaiting",
           stage' = stage \/ ("server" \in open' /\ ~cclosed')
    PROVE  LaunchInv'
<1>1. LaunchTypes' /\ StartTrue' /\ ReleaseTrue'
  BY MadeDomain DEF LaunchInv, LaunchTypes, StartTrue, ReleaseTrue
<1>2. UseTrue'
  BY MadeUses DEF UseTrue
<1>3. WorkTrue'
  BY DEF LaunchInv, LaunchTypes, WorkTrue
<1> QED BY <1>1, <1>2, <1>3 DEF LaunchInv

LEMMA StartupKeeps ==
    ASSUME LaunchInv,
           \/ SettingsPass \/ Advance \/ ChecksPass \/ PrepareGets \/ PrepareWaits \/ PrepareWakes
           \/ ServerStarts \/ (\E found \in {"none", "fresh", "stale"} : PrepareCache(found))
    PROVE  LaunchInv'
<1>0. /\ StartTrue /\ WorkTrue /\ LaunchTypes
      /\ phase \in DOMAIN Made => (cclosed <=> "models" \notin Made[phase])
  BY DEF LaunchInv, StartTrue, WorkTrue
<1>1. CASE SettingsPass \/ ChecksPass
  <2>1. /\ phase \in DOMAIN Made /\ phase' \in DOMAIN Made /\ Made[phase'] = Made[phase]
        /\ phase # "awaiting"
        /\ UNCHANGED <<open, left, usage, cclosed, flight, waiting, stage>>
    BY <1>1, MadeDomain DEF SettingsPass, ChecksPass, Made, gatewayVars, serverVars, catalogVars
  <2> QED BY <1>0, <2>1, PhaseKeeps DEF StartTrue, WorkTrue
<1>2. CASE Advance
  <2>1. /\ phase \in DOMAIN Owner /\ phase' = After[phase] /\ open' = open \cup Owner[phase]
        /\ UNCHANGED <<left, usage, cclosed, flight, waiting, stage>>
    BY <1>2 DEF Advance, gatewayVars, serverVars, catalogVars
  <2>2. "models" \notin Owner[phase] /\ phase # "awaiting"
    BY <2>1, OwnerDomain DEF Owner
  <2> QED BY <1>0, <2>1, <2>2, Phases, PhaseKeeps DEF StartTrue, WorkTrue
<1>3. CASE PrepareGets \/ PrepareWaits \/ PrepareWakes
  <2>1. /\ phase \in {"catalog", "awaiting"} /\ phase' \in {"policy", "awaiting", "failed"}
        /\ UNCHANGED <<open, left, usage, cclosed, stage>>
        /\ flight' = flight \/ ~cclosed
        /\ \/ phase' = "awaiting" /\ waiting' = waiting \cup {"launch"}
           \/ phase = "catalog" /\ waiting' = waiting
           \/ "launch" \notin waiting /\ waiting' = waiting
    BY <1>3 DEF PrepareGets, PrepareWaits, PrepareWakes, GetReturns, GetWaits, gatewayVars, serverVars, catalogVars
  <2>2. phase \in DOMAIN Made /\ phase' \in DOMAIN Made /\ Made[phase] = Base /\ Made[phase'] = Base
    BY <2>1, MadeDomain DEF Made
  <2>3. waiting' \subseteq {"launch"} /\ (waiting' # {} => phase' = "awaiting")
    BY <1>0, <2>1 DEF WorkTrue
  <2> QED BY <1>0, <2>1, <2>2, <2>3, PhaseKeeps DEF StartTrue, WorkTrue
<1>4. CASE ServerStarts
  <2>1. /\ phase = "server" /\ phase' = "profile" /\ open' = open \cup {"server"}
        /\ UNCHANGED <<left, usage, cclosed, flight, waiting>>
    BY <1>4 DEF ServerStarts, catalogVars
  <2>2. /\ phase \in DOMAIN Made /\ phase' \in DOMAIN Made /\ Made[phase'] = Made[phase] \cup {"server"}
    BY <2>1, MadeDomain DEF Made, Base
  <2> QED BY <1>0, <2>1, <2>2, PhaseKeeps, MadeHas DEF StartTrue, WorkTrue
<1>5. CASE \E found \in {"none", "fresh", "stale"} : PrepareCache(found)
  <2>1. /\ phase = "cache" /\ phase' = "catalog" /\ open' = open \cup {"models"} /\ ~cclosed'
        /\ UNCHANGED <<left, usage, flight, waiting, stage>>
    BY <1>5 DEF PrepareCache, NewCache, gatewayVars, serverVars
  <2>2. /\ phase \in DOMAIN Made /\ phase' \in DOMAIN Made /\ Made[phase'] = Made[phase] \cup {"models"}
    BY <2>1, MadeDomain DEF Made, Base
  <2> QED BY <1>0, <2>1, <2>2, PhaseKeeps, MadeHas DEF StartTrue, WorkTrue
<1> QED BY <1>1, <1>2, <1>3, <1>4, <1>5

\* The release begins, from whatever phase.
LEMMA FailKeeps ==
    ASSUME LaunchInv, StartFails \/ (\E exited \in BOOLEAN : RunEnds(exited))
    PROVE  LaunchInv'
<1>0. LaunchTypes /\ StartTrue /\ UseTrue /\ WorkTrue
  BY DEF LaunchInv
<1>1. /\ phase \in DOMAIN Made /\ phase' = "release" /\ left' = ReleaseOrder
      /\ UNCHANGED <<open, usage, cclosed, flight, stage>>
      /\ waiting' = waiting \ {"launch"} \/ (phase = "running" /\ waiting' = waiting)
  BY MadeDomain, OwnerDomain DEF StartFails, RunEnds, GetCancelled, gatewayVars, serverVars, catalogVars
<1>2. phase' \notin DOMAIN Made /\ phase' # "awaiting"
  BY <1>1, MadeDomain
<1>3. LaunchTypes' /\ StartTrue' /\ UseTrue'
  BY <1>0, <1>1, <1>2, ReleaseOrdered DEF LaunchTypes, StartTrue, UseTrue, Ordered
<1>4. ReleaseTrue'
  BY <1>0, <1>1, ReleaseOrdered DEF StartTrue, ReleaseTrue, Ordered
<1>5. WorkTrue'
  BY <1>0, <1>1, <1>2 DEF WorkTrue
<1> QED BY <1>3, <1>4, <1>5 DEF LaunchInv

\* An owner is closed after those that use it.
LEMMA ClosingLast ==
    ASSUME LaunchInv, NEW u \in Uses, Closing(u[2])
    PROVE  u[1] \notin open
<1>1. /\ left \in Seq(SUBSET Owners) /\ left # <<>> /\ u[2] \in Head(left)
      /\ open \subseteq UNION {left[i] : i \in 1..Len(left)}
      /\ \A i \in 1..Len(left) : u[2] \in left[i] => \A j \in i..Len(left) : u[1] \notin left[j]
  BY DEF LaunchInv, LaunchTypes, ReleaseTrue, Closing
<1>2. 1 \in 1..Len(left) /\ Head(left) = left[1] /\ \A j \in 1..Len(left) : u[1] \notin left[j]
  BY <1>1, EmptySeq, LenProperties
<1> QED BY <1>1, <1>2

LEMMA ClosedKeeps ==
    ASSUME LaunchInv, NEW o \in open, Closed(o)
    PROVE  LaunchInv'
<1>0. LaunchTypes /\ StartTrue /\ UseTrue /\ ReleaseTrue /\ WorkTrue
  BY DEF LaunchInv
<1>1. /\ Closing(o) /\ Joined(o) /\ open' = open \ {o} /\ phase = "release"
      /\ UNCHANGED <<phase, left, usage, cclosed, flight, waiting, stage>>
  BY DEF Closed, Closing, gatewayVars, serverVars, catalogVars
<1>2. phase \notin DOMAIN Made
  BY <1>1, MadeDomain
<1>3. LaunchTypes' /\ StartTrue' /\ ReleaseTrue'
  BY <1>0, <1>1, <1>2 DEF LaunchTypes, StartTrue, ReleaseTrue
<1>4. UseTrue'
  BY <1>0, <1>1, ClosingLast DEF UseTrue
<1>5. WorkTrue'
  BY <1>0, <1>1, <1>2 DEF WorkTrue, Joined, LaunchTypes
<1> QED BY <1>3, <1>4, <1>5 DEF LaunchInv

LEMMA CloseModelsKeeps ==
    ASSUME LaunchInv, CloseModels
    PROVE  LaunchInv'
<1>0. LaunchTypes /\ StartTrue /\ UseTrue /\ ReleaseTrue /\ WorkTrue
  BY DEF LaunchInv
<1>1. /\ Closing("models") /\ ~cclosed /\ cclosed' /\ phase = "release"
      /\ UNCHANGED <<phase, open, left, usage, flight, waiting, stage>>
  BY DEF CloseModels, ModelsClose, Closing, launchVars, gatewayVars, serverVars
<1>2. phase \notin DOMAIN Made
  BY <1>1, MadeDomain
<1>3. "server" \notin open
  <2>1. <<"server", "models">> \in Uses
    BY DEF Uses
  <2> QED BY <1>1, <2>1, ClosingLast
<1>4. LaunchTypes' /\ StartTrue' /\ UseTrue' /\ ReleaseTrue'
  BY <1>0, <1>1 DEF LaunchTypes, StartTrue, UseTrue, ReleaseTrue
<1>5. WorkTrue'
  BY <1>0, <1>1, <1>2, <1>3 DEF WorkTrue
<1> QED BY <1>4, <1>5 DEF LaunchInv

LEMMA ReleaseNextKeeps ==
    ASSUME LaunchInv, ReleaseNext \/ StartReturns
    PROVE  LaunchInv'
<1>0. LaunchTypes /\ StartTrue /\ UseTrue /\ ReleaseTrue /\ WorkTrue
  BY DEF LaunchInv
<1>1. /\ phase = "release" /\ left \in Seq(SUBSET Owners)
      /\ UNCHANGED <<open, usage, cclosed, flight, waiting, stage>>
  BY <1>0 DEF ReleaseNext, StartReturns, gatewayVars, serverVars, catalogVars, LaunchTypes
<1>2. phase \notin DOMAIN Made /\ "done" \notin DOMAIN Made
  BY <1>1, MadeDomain
<1>3. CASE ReleaseNext
  <2>1. left # <<>> /\ Head(left) \cap open = {} /\ left' = Tail(left) /\ phase' = phase
    BY <1>3 DEF ReleaseNext
  <2>2. /\ left' \in Seq(SUBSET Owners) /\ Len(left') = Len(left) - 1 /\ Len(left) \in Nat \ {0}
        /\ Head(left) = left[1] /\ \A i \in 1..Len(left') : left'[i] = left[i + 1]
    BY <1>1, <2>1, HeadTailProperties, EmptySeq, LenProperties
  <2>3. open \subseteq UNION {left'[i] : i \in 1..Len(left')}
    <3> SUFFICES ASSUME NEW o \in open PROVE \E i \in 1..Len(left') : o \in left'[i]
      OBVIOUS
    <3>1. PICK i \in 1..Len(left) : o \in left[i]
      BY <1>0, <1>1 DEF ReleaseTrue
    <3>2. i # 1
      BY <2>1, <2>2, <3>1
    <3>3. i - 1 \in 1..Len(left') /\ o \in left'[i - 1]
      BY <2>2, <3>1, <3>2
    <3> QED BY <3>3
  <2>4. ASSUME NEW u \in Uses, NEW i \in 1..Len(left'), u[2] \in left'[i], NEW j \in i..Len(left')
        PROVE  u[1] \notin left'[j]
    <3>1. /\ i + 1 \in 1..Len(left) /\ u[2] \in left[i + 1] /\ j + 1 \in (i + 1)..Len(left)
          /\ left'[j] = left[j + 1]
      BY <2>2, <2>4
    <3> QED BY <1>0, <1>1, <3>1 DEF ReleaseTrue
  <2>5. ReleaseTrue'
    BY <1>1, <2>1, <2>3, <2>4 DEF ReleaseTrue
  <2>6. LaunchTypes' /\ StartTrue' /\ UseTrue' /\ WorkTrue'
    BY <1>0, <1>1, <2>1, <2>2 DEF LaunchTypes, StartTrue, UseTrue, WorkTrue
  <2> QED BY <2>5, <2>6 DEF LaunchInv
<1>4. CASE StartReturns
  <2>1. phase' = "done" /\ left' = left /\ Len(left) = 0
    BY <1>4, EmptySeq DEF StartReturns
  <2>2. open = {}
    BY <1>0, <1>1, <2>1 DEF ReleaseTrue
  <2> QED BY <1>0, <1>1, <1>2, <2>1, <2>2 DEF LaunchInv, LaunchTypes, StartTrue, UseTrue, ReleaseTrue, WorkTrue
<1> QED BY <1>3, <1>4


----------------------------------------------------------------------------
(* Every step keeps both invariants.                                       *)

\* A request is handled, on its own connection.
LEMMA HandlersKeep ==
    ASSUME GatewayInv, LaunchInv, NEW c \in Conns, Handlers(c)
    PROVE  GatewayInv' /\ LaunchInv'
<1> USE DEF gatewayVars, serverVars, turnVars, queueVars, catalogVars, launchVars
<1>0. StartTrue /\ WorkTrue /\ LaunchTypes
  BY DEF LaunchInv
<1>1. CASE TurnStarts(c)
  <2>1. StartSucceeds(c) /\ UNCHANGED <<catalogVars, launchVars, stage>>
    BY <1>1 DEF TurnStarts, StartSucceeds, Only
  <2> QED BY <2>1, StartKeeps, OthersKeep
<1>2. CASE \E b \in BOOLEAN : ModelsGet(c, b) \/ StatusReads(c, b)
  <2>1. Moved(c)
    BY <1>2 DEF ModelsGet, StatusReads, Only, Moved, At, Goto
  <2>2. /\ UNCHANGED <<phase, open, left, cclosed, waiting, stage>>
        /\ flight' = flight \/ ~cclosed
        /\ usage' = usage \/ (usage' = "refreshing" /\ "usage" \in open)
    BY <1>2 DEF ModelsGet, StatusReads, Only, GetReturns, GetRefuses
  <2> QED BY <2>1, <2>2, MovedKeeps, OthersKeep
<1>3. CASE \E b, f \in BOOLEAN : TurnSettles(c, b, f)
  <2>1. PICK b \in BOOLEAN, f \in BOOLEAN : TurnSettles(c, b, f)
    BY <1>3
  <2>2. Settle(c, b) /\ UNCHANGED <<flight, waiting, cclosed, launchVars, stage>>
    BY <2>1 DEF TurnSettles, Settle, recordUsed
  <2> QED BY <2>2, SettleKeeps, OthersKeep
<1>4. CASE Handle(c) /\ UNCHANGED <<catalogVars, launchVars>>
  <2>1. stage' = stage
    BY <1>4 DEF Handle, Leave, ConnEnds, Refuse, NextFails, NextTools, Release, HookDrains, RouteElsewhere,
                AdmitHook, AdmitModel, NextEnds, Terminal, Only
  <2>2. LaunchInv'
    BY <1>4, <2>1, OthersKeep
  <2>3. CASE \/ (\E told \in BOOLEAN : Refuse(c, told) \/ NextFails(c, told)) \/ RouteElsewhere(c)
             \/ (\E to \in {"models", "start"} : AdmitModel(c, to))
    <3>1. Moved(c)
      BY <2>3 DEF Refuse, NextFails, fallback, RouteElsewhere, AdmitModel, Only, Moved, At, Goto
    <3> QED BY <2>2, <3>1, MovedKeeps
  <2>4. CASE \/ Leave(c) \/ ConnEnds(c) \/ NextTools(c) \/ Release(c) \/ AdmitHook(c) \/ HookDrains(c)
             \/ (\E toolUse \in BOOLEAN : NextEnds(c, toolUse))
             \/ (\E ok, wanted \in BOOLEAN : Terminal(c, ok, wanted))
    BY <2>2, <2>4, LeaveKeeps, ConnEndsKeeps, ToolsKeep, ReleaseKeeps, HookKeeps, DrainKeeps,
       NextEndsKeeps, TerminalKeeps
  <2> QED BY <1>4, <2>3, <2>4 DEF Handle
<1> QED BY <1>1, <1>2, <1>3, <1>4 DEF Handlers

\* The gateway's invariant is about the gateway's variables.
LEMMA GatewayStutters ==
    ASSUME GatewayInv, UNCHANGED gatewayVars PROVE GatewayInv'
BY DEF GatewayInv, GatewayTypes, ConnTrue, StageTrue, DeliveryTrue, HookTrue, DrainTrue, HookSeesTurn,
       gatewayVars, serverVars, turnVars, queueVars

LEMMA StepKeeps ==
    ASSUME GatewayInv, LaunchInv, Next
    PROVE  GatewayInv' /\ LaunchInv'
<1>1. CASE Startup \/ StartFails
  <2>1. CASE ServerStarts
    BY <2>1, StartupKeeps, ServerKeeps DEF ServerStarts
  <2>2. CASE StartFails
    BY <2>2, FailKeeps, GatewayStutters DEF StartFails
  <2>3. CASE \/ SettingsPass \/ Advance \/ ChecksPass \/ PrepareGets \/ PrepareWaits \/ PrepareWakes
             \/ (\E found \in {"none", "fresh", "stale"} : PrepareCache(found))
    <3>1. UNCHANGED gatewayVars
      BY <2>3 DEF SettingsPass, Advance, ChecksPass, PrepareGets, PrepareWaits, PrepareWakes, PrepareCache
    <3> QED BY <2>3, <3>1, StartupKeeps, GatewayStutters
  <2> QED BY <1>1, <2>1, <2>2, <2>3 DEF Startup
<1>2. CASE Releasing \/ RunEnds(TRUE)
  <2>1. UNCHANGED gatewayVars
    BY <1>2 DEF Releasing, RunEnds, CloseModels, ReleaseNext, StartReturns, Closed
  <2> QED BY <1>2, <2>1, GatewayStutters, FailKeeps, CloseModelsKeeps, ReleaseNextKeeps, ClosedKeeps DEF Releasing
<1>3. CASE \/ Background \/ Cancel
           \/ (phase = "running" /\ DataAges /\ UNCHANGED <<gatewayVars, launchVars>>)
  <2>1. /\ UNCHANGED <<gatewayVars, phase, open, left, cclosed>>
        /\ waiting' \in {waiting, {}} /\ usage' \in {usage, "idle"}
        /\ flight' = flight \/ flight' = "none" \/ ~cclosed
    BY <1>3 DEF Background, DiscoverSucceeds, DiscoverFails, FlightStores, FlightDiscovers, FlightEnds, UsageEnds,
                Cancel, DataAges, catalogVars, launchVars
  <2>2. stage' = stage
    BY <2>1 DEF gatewayVars, serverVars
  <2> QED BY <2>1, <2>2, OthersKeep, GatewayStutters
<1>4. CASE \/ Server
           \/ (ServeEnds(TRUE) \/ RunJoins(FALSE, TRUE) \/ RunJoins(TRUE, FALSE)) /\ UNCHANGED <<catalogVars, launchVars>>
  <2>1. /\ UNCHANGED <<catalogVars, launchVars>>
        /\ \/ StartServer \/ RunStops \/ RunDrains \/ RunForces
           \/ (\E b \in BOOLEAN : ServeEnds(b)) \/ (\E b, f \in BOOLEAN : RunJoins(b, f))
        /\ stage' = stage \/ stage \notin {"off", "done"}
    BY <1>4 DEF Server, ServerStops, RunStops, RunDrains, RunForces, ServeEnds, RunJoins
  <2> QED BY <2>1, ServerKeeps, OthersKeep DEF catalogVars, launchVars
<1>5. CASE /\ \E c \in Conns : Accept(c) \/ Request(c) \/ HookFails(c)
           /\ UNCHANGED <<catalogVars, launchVars>>
  <2>1. PICK c \in Conns : Accept(c) \/ Request(c) \/ HookFails(c)
    BY <1>5
  <2>2. HookFails(c) => Moved(c)
    BY DEF HookFails, Only, Moved, At, Goto, serverVars, turnVars, queueVars
  <2>3. stage' = stage
    BY <2>1 DEF Accept, Request, HookFails, Only, serverVars
  <2> QED BY <1>5, <2>1, <2>2, <2>3, AcceptKeeps, RequestKeeps, MovedKeeps, OthersKeep DEF catalogVars, launchVars
<1>6. CASE \E c \in Conns : Handlers(c)
  BY <1>6, HandlersKeep
<1> QED BY <1>1, <1>2, <1>3, <1>4, <1>5, <1>6 DEF Next, OwnStep, Outside

LEMMA InvHolds == Spec => [](GatewayInv /\ LaunchInv)
<1>1. ASSUME GatewayInv, LaunchInv, [Next]_vars PROVE GatewayInv' /\ LaunchInv'
  <2>1. CASE UNCHANGED vars
    <3>1. UNCHANGED gatewayVars /\ UNCHANGED catalogVars /\ UNCHANGED launchVars
      BY <2>1 DEF vars
    <3>2. stage' = stage
      BY <3>1 DEF gatewayVars, serverVars
    <3> QED BY <1>1, <3>1, <3>2, GatewayStutters, OthersKeep DEF catalogVars, launchVars
  <2> QED BY <1>1, <2>1, StepKeeps
<1> QED BY <1>1, InvInit, PTL DEF Spec

----------------------------------------------------------------------------
(* The theorems.                                                           *)

\* In every launch, everything an owner uses outlives it, whichever phase of start failed and
\* however RunClient ended, and no handler of a joined gateway finds the catalog closed.
THEOREM OutliveHolds == Spec => []OutliveUsers
<1>1. ASSUME GatewayInv, LaunchInv PROVE OutliveUsers
  <2>0. GatewayTypes /\ ConnTrue /\ StageTrue /\ LaunchTypes /\ StartTrue /\ UseTrue /\ ReleaseTrue /\ WorkTrue
    BY <1>1 DEF GatewayInv, LaunchInv
  <2>1. open \subseteq Owners
    <3>1. CASE phase \in DOMAIN Made
      BY <2>0, <3>1, MadeHas DEF StartTrue
    <3>2. CASE phase = "release"
      BY <2>0, <3>2 DEF ReleaseTrue, LaunchTypes
    <3>3. CASE phase = "done"
      BY <2>0, <3>3 DEF ReleaseTrue
    <3> QED BY <2>0, <3>1, <3>2, <3>3 DEF LaunchTypes
  <2>2. /\ <<"models", "runner">> \in Uses /\ <<"backend", "schema">> \in Uses
        /\ <<"client", "profile">> \in Uses /\ \A o \in Owners \ {"runtime"} : <<o, "runtime">> \in Uses
    BY DEF Uses
  <2>3. \A a, b : <<a, b>> \in Uses /\ a \in open => b \in open
    BY <2>0 DEF UseTrue
  <2>4. handlers # {} => ~cclosed \/ closeErr
    BY <2>0 DEF StageTrue, WorkTrue, ConnTrue, GatewayTypes
  <2>5. flight # "none" => "models" \in open
    BY <2>0 DEF WorkTrue
  <2>6. open # {} => "runtime" \in open
    BY <2>1, <2>2, <2>3
  <2> QED BY <2>2, <2>3, <2>4, <2>5, <2>6 DEF OutliveUsers
<1> QED BY <1>1, InvHolds, PTL

\* A launch that has returned from start has released every owner, and joined what it started
\* unless the gateway reported that it could not.
THEOREM EndsHolds == Spec => []EndsClean
<1>1. ASSUME GatewayInv, LaunchInv PROVE EndsClean
  <2> SUFFICES ASSUME phase = "done"
               PROVE  /\ open = {} /\ flight = "none" /\ usage = "idle" /\ waiting = {}
                      /\ closeErr \/ \A c \in Conns : cpc[c] \in {"none", "gone"} /\ turn[c] # "open"
    BY DEF EndsClean
  <2>0. ConnTrue /\ StageTrue /\ LaunchTypes /\ ReleaseTrue /\ WorkTrue
    BY <1>1 DEF GatewayInv, LaunchInv
  <2>1. open = {} /\ stage \in {"off", "done"}
    BY <2>0 DEF ReleaseTrue, WorkTrue
  <2>2. flight = "none" /\ usage = "idle" /\ waiting = {}
    BY <2>0, <2>1 DEF WorkTrue, LaunchTypes
  <2>3. closeErr \/ \A c \in Conns : cpc[c] \in {"none", "gone"} /\ turn[c] # "open"
    BY <2>0, <2>1 DEF StageTrue, ConnTrue
  <2> QED BY <2>1, <2>2, <2>3
<1> QED BY <1>1, InvHolds, PTL

\* Once a turn-metrics hook has taken the records, none comes in of a response that had ended when the
\* hook was admitted: a response whose turn will be finished is registered before its last bytes and
\* until its turn is settled, and any other leaves no record, a login message included.
THEOREM HookHolds == Spec => []HookSeesTurn
<1>1. GatewayInv => HookSeesTurn
  BY DEF GatewayInv, DrainTrue
<1> QED BY <1>1, InvHolds, PTL

----------------------------------------------------------------------------
(* Nothing hangs.                                                          *)

Early == {"settings", "runtime", "runner", "checks", "cache", "catalog", "awaiting", "failed",
          "policy", "schema", "backend", "usage", "attached", "server"}
Supplied == {"policy", "schema", "backend", "usage", "attached", "server"}

\* The server runs from its phase on, and with data in the catalog; the owners are released under an
\* ended context; who waits for the catalog waits for a flight; what is joined owns no connection.
RestTrue ==
    /\ phase \in Early => stage = "off"
    /\ "server" \in open => stage # "off"
    /\ stage # "off" \/ phase \in Supplied => cdata # "none"
    /\ phase = "release" => cancelled
    /\ waiting # {} => flight # "none"
    /\ stage = "joining" => owned = {}

\* A registered response is on the way to its release.
Registered == \A c \in deliveries : cpc[c] \in {"terminal", "finish", "cancel", "release"}

LEMMA RestInit == Init => RestTrue /\ Registered
BY DEF Init, GatewayInit, CatalogInit, RestTrue, Registered, Supplied

\* What neither changes the phase nor takes anything away.
LEMMA RestStays ==
    ASSUME RestTrue, UNCHANGED <<phase, open>>, cancelled => cancelled',
           cdata # "none" => cdata' # "none", stage' = "off" <=> stage = "off",
           waiting' \subseteq waiting, waiting' = {} \/ flight' # "none" \/ flight' = flight,
           stage' = "joining" => owned' = {}
    PROVE  RestTrue'
BY DEF RestTrue

LEMMA RestStarts ==
    ASSUME LaunchInv, RestTrue,
           \/ SettingsPass \/ Advance \/ ChecksPass \/ PrepareGets \/ PrepareWaits \/ PrepareWakes
           \/ ServerStarts \/ (\E found \in {"none", "fresh", "stale"} : PrepareCache(found))
    PROVE  RestTrue'
<1>0. (waiting # {} => phase = "awaiting") /\ StartTrue /\ (stage = "off" => stage # "joining")
  BY DEF LaunchInv, WorkTrue
<1>1. CASE SettingsPass \/ ChecksPass
  BY <1>1 DEF SettingsPass, ChecksPass, RestTrue, Early, Supplied, gatewayVars, serverVars, catalogVars
<1>2. CASE Advance
  <2>1. /\ phase \in DOMAIN Owner /\ phase' = After[phase] /\ open' = open \cup Owner[phase]
        /\ UNCHANGED <<cancelled, stage, owned, cdata, waiting, flight>>
    BY <1>2 DEF Advance, gatewayVars, serverVars, catalogVars
  <2>2. /\ phase' \in Early => phase \in Early
        /\ phase' \in Supplied => phase \in Supplied
        /\ phase' # "release" /\ "server" \notin Owner[phase]
    BY <2>1, OwnerDomain DEF Owner, After, Early, Supplied
  <2> QED BY <2>1, <2>2 DEF RestTrue
<1>3. CASE PrepareGets \/ PrepareWaits \/ PrepareWakes
  <2>1. /\ UNCHANGED <<open, cancelled, stage, owned, cdata>> /\ phase \in {"catalog", "awaiting"}
        /\ phase' \in {"policy", "awaiting", "failed"}
        /\ phase' = "policy" => cdata # "none"
        /\ waiting' # {} => flight' # "none"
    BY <1>0, <1>3 DEF PrepareGets, PrepareWaits, PrepareWakes, GetReturns, GetWaits, RestTrue,
                      gatewayVars, serverVars, catalogVars
  <2> QED BY <2>1 DEF RestTrue, Early, Supplied
<1>4. CASE ServerStarts
  <2>1. /\ phase = "server" /\ phase' = "profile" /\ stage' = "serve"
        /\ UNCHANGED <<cancelled, cdata, waiting, flight>>
    BY <1>4 DEF ServerStarts, StartServer, catalogVars
  <2> QED BY <2>1 DEF RestTrue, Early, Supplied
<1>5. ASSUME NEW found \in {"none", "fresh", "stale"}, PrepareCache(found) PROVE RestTrue'
  <2>1. /\ phase = "cache" /\ phase' = "catalog" /\ open' = open \cup {"models"}
        /\ UNCHANGED <<stage, owned, cancelled, flight, waiting>>
    BY <1>5 DEF PrepareCache, NewCache, gatewayVars, serverVars
  <2> QED BY <2>1 DEF RestTrue, Early, Supplied
<1> QED BY <1>1, <1>2, <1>3, <1>4, <1>5

LEMMA RestReleases ==
    ASSUME LaunchInv, RestTrue, Releasing \/ (\E b \in BOOLEAN : RunEnds(b)) \/ StartFails
    PROVE  RestTrue'
<1>1. CASE StartFails \/ (\E b \in BOOLEAN : RunEnds(b))
  <2>1. /\ phase' = "release" /\ cancelled' = TRUE /\ waiting' \subseteq waiting
        /\ UNCHANGED <<open, stage, owned, cdata, flight>>
    BY <1>1 DEF StartFails, RunEnds, GetCancelled, gatewayVars, serverVars, catalogVars
  <2> QED BY <2>1 DEF RestTrue, Early, Supplied
<1>2. CASE CloseModels
  BY <1>2 DEF CloseModels, ModelsClose, RestTrue, launchVars, gatewayVars, serverVars
<1>3. CASE ReleaseNext \/ StartReturns \/ (\E o \in open : Closed(o))
  <2>1. /\ phase' \in {phase, "done"} /\ open' \subseteq open
        /\ UNCHANGED <<cancelled, stage, owned, cdata, flight, waiting>>
    BY <1>3 DEF ReleaseNext, StartReturns, Closed, gatewayVars, serverVars, catalogVars
  <2> QED BY <2>1 DEF RestTrue, Early, Supplied
<1> QED BY <1>1, <1>2, <1>3 DEF Releasing

LEMMA RestWorks ==
    ASSUME RestTrue, \/ Background \/ Cancel
                     \/ (phase = "running" /\ DataAges /\ UNCHANGED <<gatewayVars, launchVars>>)
    PROVE  RestTrue'
<1>1. /\ UNCHANGED <<phase, open, stage, owned>> /\ (cancelled => cancelled')
      /\ cdata # "none" => cdata' # "none"
      /\ waiting' \subseteq waiting /\ (waiting' = {} \/ flight' # "none" \/ flight' = flight)
  BY DEF Background, DiscoverSucceeds, DiscoverFails, FlightStores, FlightDiscovers, FlightEnds, UsageEnds, Cancel,
         DataAges, gatewayVars, serverVars, catalogVars, launchVars
<1>2. stage = "joining" => owned = {}
  BY DEF RestTrue
<1> QED BY <1>1, <1>2, RestStays

LEMMA RestServes ==
    ASSUME RestTrue, UNCHANGED <<catalogVars, launchVars>>,
           \/ RunStops \/ RunDrains \/ RunForces
           \/ (\E b \in BOOLEAN : ServeEnds(b)) \/ (\E b, f \in BOOLEAN : RunJoins(b, f))
    PROVE  RestTrue'
<1>1. UNCHANGED <<phase, open, cancelled, cdata, waiting, flight>>
  BY DEF catalogVars, launchVars
<1>2. (stage' = "off" <=> stage = "off") /\ (stage' = "joining" => owned' = {})
  BY DEF RunStops, RunDrains, RunForces, ServeEnds, RunJoins, RestTrue
<1> QED BY <1>1, <1>2, RestStays

LEMMA RestHandles ==
    ASSUME RestTrue, NEW c \in Conns,
           \/ Handlers(c)
           \/ (Accept(c) \/ Request(c) \/ HookFails(c)) /\ UNCHANGED <<catalogVars, launchVars>>
    PROVE  RestTrue'
<1> USE DEF catalogVars, launchVars
<1>1. stage' = stage /\ (stage = "joining" => owned' \subseteq owned)
  <2>1. CASE ConnEnds(c) \/ Accept(c)
    BY <2>1 DEF ConnEnds, Accept
  <2>2. CASE ~(ConnEnds(c) \/ Accept(c))
    BY <2>2 DEF Handlers, TurnStarts, StartSucceeds, ModelsGet, StatusReads, TurnSettles, Settle, Handle, Leave, Refuse,
                NextFails, NextTools, Release, HookDrains, RouteElsewhere, AdmitHook, AdmitModel, NextEnds, Terminal,
                Request, HookFails, Only, serverVars
  <2> QED BY <2>1, <2>2
<1>2. /\ UNCHANGED <<phase, open, cancelled, cdata, waiting>> /\ (flight' # "none" \/ flight' = flight)
  BY DEF Handlers, TurnStarts, ModelsGet, GetReturns, GetRefuses, StatusReads, TurnSettles, recordUsed
<1>3. stage' = "joining" => owned' = {}
  BY <1>1 DEF RestTrue
<1> QED BY <1>1, <1>2, <1>3, RestStays

\* A connection goes on outside the registry, or on the way to its release.
LEMMA RegisteredStays ==
    ASSUME GatewayInv, Registered, NEW c \in Conns, UNCHANGED deliveries,
           \/ UNCHANGED cpc
           \/ \E to : /\ cpc' = [cpc EXCEPT ![c] = to]
                      /\ \/ cpc[c] \notin {"terminal", "finish", "cancel", "release"}
                         \/ to \in {"finish", "cancel", "release"}
    PROVE  Registered'
BY DEF GatewayInv, GatewayTypes, Registered

LEMMA RegisteredHandles ==
    ASSUME GatewayInv, Registered, NEW c \in Conns,
           \/ Handlers(c)
           \/ (Accept(c) \/ Request(c) \/ HookFails(c)) /\ UNCHANGED <<catalogVars, launchVars>>
    PROVE  Registered'
<1> USE DEF At, Goto, Only, queueVars
<1>1. CASE Release(c)
  <2>1. cpc' = [cpc EXCEPT ![c] = "leave"] /\ deliveries' = deliveries \ {c} /\ cpc \in [Conns -> Places]
    BY <1>1 DEF Release, GatewayInv, GatewayTypes
  <2>2. \A d \in deliveries' : d \in deliveries /\ d # c /\ d \in Conns
    BY <2>1 DEF GatewayInv, GatewayTypes
  <2> QED BY <2>1, <2>2 DEF Registered
<1>2. ASSUME NEW toolUse \in BOOLEAN, NextEnds(c, toolUse) PROVE Registered'
  <2>1. /\ cpc \in [Conns -> Places] /\ deliveries \subseteq Conns /\ deliveries' \subseteq deliveries \cup {c}
        /\ \E to \in {"terminal", "cancel"} : cpc' = [cpc EXCEPT ![c] = to]
    BY <1>2 DEF NextEnds, GatewayInv, GatewayTypes
  <2> QED BY <2>1 DEF Registered
<1>3. CASE Terminal(c, TRUE, TRUE) \/ Terminal(c, TRUE, FALSE) \/ Terminal(c, FALSE, TRUE) \/ Terminal(c, FALSE, FALSE)
  <2>1. UNCHANGED deliveries /\ \E to \in {"finish", "cancel"} : cpc' = [cpc EXCEPT ![c] = to]
    BY <1>3 DEF Terminal
  <2> QED BY <2>1, RegisteredStays
<1>4. CASE \E b, f \in BOOLEAN : TurnSettles(c, b, f)
  <2>1. UNCHANGED deliveries /\ cpc' = [cpc EXCEPT ![c] = "release"]
    BY <1>4 DEF TurnSettles, Settle
  <2> QED BY <2>1, RegisteredStays
<1>5. CASE NextTools(c)
  BY <1>5, RegisteredStays DEF NextTools
<1>6. CASE \/ TurnStarts(c) \/ (\E b \in BOOLEAN : ModelsGet(c, b) \/ StatusReads(c, b))
           \/ Leave(c) \/ ConnEnds(c) \/ (\E told \in BOOLEAN : Refuse(c, told) \/ NextFails(c, told))
           \/ HookDrains(c) \/ RouteElsewhere(c) \/ AdmitHook(c) \/ Accept(c) \/ Request(c) \/ HookFails(c)
           \/ (\E to \in {"models", "start"} : AdmitModel(c, to))
  <2>1. /\ UNCHANGED deliveries /\ cpc[c] \notin {"terminal", "finish", "cancel", "release"}
        /\ \E to : cpc' = [cpc EXCEPT ![c] = to]
    BY <1>6 DEF TurnStarts, StartSucceeds, ModelsGet, StatusReads, Leave, ConnEnds, Refuse, NextFails,
                HookDrains, RouteElsewhere, AdmitHook, Accept, Request, HookFails, AdmitModel
  <2> QED BY <2>1, RegisteredStays
<1> QED BY <1>1, <1>2, <1>3, <1>4, <1>5, <1>6 DEF Handlers, Handle

LEMMA RestStep ==
    ASSUME GatewayInv, LaunchInv, RestTrue, Registered, [Next]_vars
    PROVE  RestTrue' /\ Registered'
<1>0. ASSUME UNCHANGED <<cpc, deliveries>> PROVE Registered'
  BY <1>0 DEF Registered
<1>1. CASE Startup \/ StartFails
  <2>1. UNCHANGED <<cpc, deliveries>>
    BY <1>1 DEF Startup, StartFails, SettingsPass, Advance, ChecksPass, PrepareGets, PrepareWaits, PrepareWakes,
                PrepareCache, ServerStarts, StartServer, gatewayVars, queueVars
  <2>2. RestTrue'
    <3>1. CASE StartFails
      BY <3>1, RestReleases
    <3>2. CASE ~StartFails
      BY <1>1, <3>2, RestStarts DEF Startup
    <3> QED BY <3>1, <3>2
  <2> QED BY <1>0, <2>1, <2>2
<1>2. CASE Releasing \/ RunEnds(TRUE)
  <2>1. UNCHANGED <<cpc, deliveries>>
    BY <1>2 DEF Releasing, RunEnds, CloseModels, ReleaseNext, StartReturns, Closed, gatewayVars, queueVars
  <2>2. RestTrue'
    <3>1. Releasing \/ (\E b \in BOOLEAN : RunEnds(b))
      BY <1>2
    <3> QED BY <3>1, RestReleases
  <2> QED BY <1>0, <2>1, <2>2
<1>3. CASE \/ Background \/ Cancel
           \/ (phase = "running" /\ DataAges /\ UNCHANGED <<gatewayVars, launchVars>>)
  <2>1. UNCHANGED <<cpc, deliveries>>
    BY <1>3 DEF Background, DiscoverSucceeds, DiscoverFails, FlightStores, UsageEnds, Cancel, gatewayVars, queueVars
  <2>2. RestTrue'
    BY <1>3, RestWorks
  <2> QED BY <1>0, <2>1, <2>2
<1>4. CASE \/ Server
           \/ (ServeEnds(TRUE) \/ RunJoins(FALSE, TRUE) \/ RunJoins(TRUE, FALSE)) /\ UNCHANGED <<catalogVars, launchVars>>
  <2>1. UNCHANGED <<cpc, deliveries>>
    BY <1>4 DEF Server, ServerStops, RunStops, RunDrains, RunForces, ServeEnds, RunJoins, queueVars
  <2>2. RestTrue'
    <3>1. /\ UNCHANGED <<catalogVars, launchVars>>
          /\ \/ RunStops \/ RunDrains \/ RunForces
             \/ (\E b \in BOOLEAN : ServeEnds(b)) \/ (\E b, f \in BOOLEAN : RunJoins(b, f))
      BY <1>4 DEF Server, ServerStops, ServeEnds, RunJoins
    <3> QED BY <3>1, RestServes
  <2> QED BY <1>0, <2>1, <2>2
<1>5. ASSUME NEW c \in Conns,
             \/ Handlers(c)
             \/ (Accept(c) \/ Request(c) \/ HookFails(c)) /\ UNCHANGED <<catalogVars, launchVars>>
      PROVE  RestTrue' /\ Registered'
  BY <1>5, RestHandles, RegisteredHandles
<1>6. CASE UNCHANGED vars
  <2>1. UNCHANGED <<cpc, deliveries, stage, owned, cdata, flight, waiting, phase, open, cancelled>>
    BY <1>6 DEF vars, gatewayVars, serverVars, queueVars, catalogVars, launchVars
  <2> QED BY <1>0, <2>1 DEF RestTrue
<1> QED BY <1>1, <1>2, <1>3, <1>4, <1>5, <1>6 DEF Next, OwnStep, Outside

LEMMA RestAlways == Spec => [](RestTrue /\ Registered)
<1>1. GatewayInv /\ LaunchInv /\ RestTrue /\ Registered /\ [Next]_vars => RestTrue' /\ Registered'
  BY RestStep
<1> QED BY <1>1, RestInit, InvHolds, PTL DEF Spec

\* A connection whose goroutine has not ended can go on, or one that it waits for can.
LEMMA ConnWorks ==
    ASSUME GatewayInv, LaunchInv, RestTrue, Registered, NEW c \in Conns, cpc[c] \notin {"none", "gone"}
    PROVE  AtWork
<1>1. CASE At(c, "models")
  <2>1. cdata # "none"
    BY <1>1 DEF At, GatewayInv, StageTrue, RestTrue
  <2> QED BY <1>1, <2>1 DEF AtWork
<1>2. CASE At(c, "await") /\ before[c] \cap deliveries # {}
  <2>1. PICK d \in deliveries : d \in Conns
    BY <1>2 DEF GatewayInv, GatewayTypes
  <2>2. cpc[d] \notin {"none", "gone", "models", "await"}
    BY <2>1 DEF Registered
  <2> QED BY <2>1, <2>2 DEF AtWork
<1> QED BY <1>1, <1>2 DEF AtWork, At

\* The startup goes on in every phase.
LEMMA StartWorks ==
    ASSUME LaunchInv, RestTrue, phase \in Early \cup {"profile", "client"}
    PROVE  AtWork
<1>1. CASE phase = "catalog"
  <2>1. ~cclosed
    BY <1>1, MadeDomain, MadeHas DEF LaunchInv, StartTrue, WorkTrue
  <2> QED BY <1>1, <2>1 DEF AtWork
<1>2. CASE phase = "awaiting"
  BY <1>2 DEF AtWork, RestTrue
<1>3. CASE phase = "server"
  BY <1>3 DEF AtWork, RestTrue, Early
<1>4. CASE phase \notin {"catalog", "awaiting", "server"}
  BY <1>4, OwnerDomain DEF AtWork, Early
<1> QED BY <1>1, <1>2, <1>3, <1>4

\* The server that is being closed goes on.
LEMMA ServerWorks ==
    ASSUME GatewayInv, LaunchInv, RestTrue, Registered, phase = "release", "server" \in open, stage # "done"
    PROVE  AtWork
<1>1. stage \in {"serve", "closing", "draining", "joining"} /\ cancelled
  BY DEF GatewayInv, GatewayTypes, RestTrue
<1>2. CASE stage = "joining"
  <2>1. CASE quiescent
    BY <1>2, <2>1 DEF AtWork
  <2>2. CASE ~served
    BY <1>2, <2>2 DEF AtWork
  <2>3. CASE served /\ ~quiescent
    <3>1. handlers # {} \/ tasks # {}
      BY <1>2, <2>3 DEF quiescent, RestTrue
    <3>2. PICK c \in Conns : c \in handlers \/ c \in tasks
      BY <3>1 DEF GatewayInv, GatewayTypes
    <3>3. cpc[c] \notin {"none", "gone"}
      BY <3>2 DEF GatewayInv, ConnTrue
    <3> QED BY <3>3, ConnWorks
  <2> QED BY <2>1, <2>2, <2>3
<1> QED BY <1>1, <1>2 DEF AtWork

\* The release of the owners goes on.
LEMMA ReleaseWorks ==
    ASSUME GatewayInv, LaunchInv, RestTrue, Registered, phase = "release"
    PROVE  AtWork
<1>1. CASE left = <<>> \/ Head(left) \cap open = {}
  BY <1>1 DEF AtWork
<1>2. CASE left # <<>> /\ Head(left) \cap open # {}
  <2>1. PICK o \in open : o \in Head(left)
    BY <1>2
  <2>2. Closing(o)
    BY <1>2, <2>1 DEF Closing
  <2>3. CASE flight # "none" \/ usage = "refreshing"
    BY <2>3 DEF AtWork
  <2>4. CASE flight = "none" /\ usage # "refreshing"
    <3>1. usage = "idle"
      BY <2>4 DEF LaunchInv, LaunchTypes
    <3>2. CASE o = "server" /\ stage # "done"
      BY <3>2, ServerWorks
    <3>3. CASE o = "models" /\ ~cclosed
      BY <2>2, <3>3 DEF AtWork
    <3>4. CASE ~(o = "server" /\ stage # "done") /\ ~(o = "models" /\ ~cclosed)
      <4>1. Joined(o)
        BY <2>4, <3>1, <3>4 DEF Joined
      <4> QED BY <2>2, <4>1 DEF AtWork
    <3> QED BY <3>2, <3>3, <3>4
  <2> QED BY <2>3, <2>4
<1> QED BY <1>1, <1>2

\* A launch is never stuck: until its client runs or it has returned, and while any connection is
\* open, a phase, the release, the server, a handler or a refresh can go on, without a timer and
\* whatever has failed before.
THEOREM LaunchGoesOn == Spec => [](AtWork \/ AtRest)
<1>1. ASSUME GatewayInv, LaunchInv, RestTrue, Registered PROVE AtWork \/ AtRest
  <2>1. phase \in Early \cup {"profile", "client", "running", "release", "done"}
    BY <1>1, MadeDomain DEF LaunchInv, LaunchTypes, Early
  <2>2. ASSUME NEW c \in Conns, cpc[c] \notin {"none", "gone"} PROVE AtWork
    BY <1>1, <2>2, ConnWorks
  <2>3. CASE phase \in Early \cup {"profile", "client"}
    BY <1>1, <2>3, StartWorks
  <2>4. CASE phase = "release"
    BY <1>1, <2>4, ReleaseWorks
  <2> QED BY <2>1, <2>2, <2>3, <2>4 DEF AtRest
<1>2. GatewayInv /\ LaunchInv /\ RestTrue /\ Registered => AtWork \/ AtRest
  BY <1>1
<1> QED BY <1>2, InvHolds, RestAlways, PTL
=============================================================================
