--------------------------- MODULE ManagerProofs ---------------------------
(***************************************************************************)
(* Proofs about Manager, for any calls, keys and limits.                   *)
(***************************************************************************)
EXTENDS Manager, FiniteSetTheorems, TLAPS

----------------------------------------------------------------------------
(* The inductive invariant.                                                *)

Evictors == Starts \cup Prunes
Using == {"closing", "gate", "holding", "creating", "calling", "starting", "touching", "release", "unuse"}
Gated == {"holding", "creating", "calling", "starting", "touching", "release"}
StartLabels == Using \cup {"outside", "out", "done"}
PruneLabels == {"outside", "closing", "pooling", "out", "done"}
ListLabels == {"outside", "discovering", "out", "done"}
States == {"none", "unstarted", "idle", "busy", "closed"}
After == {"drivers", "pool", "done"}

ManagerTypes ==
    /\ DOMAIN pc = Calls
    /\ \A s \in Starts : pc[s] \in StartLabels
    /\ \A c \in Prunes : pc[c] \in PruneLabels
    /\ \A c \in Lists : pc[c] \in ListLabels
    /\ bound \in [Starts -> Starts \cup {None}] /\ driver \in [Starts -> Starts \cup {None}]
    /\ expired \in [Evictors -> SUBSET Starts] /\ failed \subseteq Evictors
    /\ entries \in [Keys -> Starts \cup {None}]
    /\ users \in [Starts -> Int] /\ gate \in [Starts -> BOOLEAN]
    /\ turn \in [Starts -> {"none", "live", "touch", "over"}]
    /\ dstate \in [Drivers -> States]
    /\ closed \in BOOLEAN /\ cleanupErr \in BOOLEAN /\ closeErr \in BOOLEAN
    /\ closing \in {"no", "waiting"} \cup After /\ closeSet \subseteq Starts
    /\ pool \in {"open", "closed"}

\* A binding, and a driver, is that of a Start that has begun; a driver is in the binding that its
\* Start has found.
BindingTrue ==
    /\ \A k \in Keys : entries[k] # None => Key[entries[k]] = k /\ pc[entries[k]] # "outside"
    /\ \A s \in Starts :
          /\ bound[s] # None => pc[s] # "outside" /\ pc[bound[s]] # "outside"
          /\ driver[s] # None => bound[driver[s]] = s /\ dstate[driver[s]] # "none"
          /\ dstate[s] # "none" => bound[s] # None /\ driver[bound[s]] = s

\* One Start of a binding is behind its gate, and only there a driver is created or called.
GateTrue ==
    \A s \in Starts :
        /\ pc[s] \in Using \ {"closing"} => bound[s] # None
        /\ pc[s] \in Gated => gate[bound[s]]
        /\ pc[s] = "creating" => driver[bound[s]] = None
        /\ pc[s] \in {"calling", "starting"} => driver[bound[s]] # None
        /\ turn[s] = "live" => bound[s] # None /\ driver[bound[s]] # None
        /\ \A t \in Starts : pc[s] \in Gated /\ pc[t] \in Gated /\ bound[s] = bound[t] => s = t

\* The users of a binding are the Starts between finding it and giving it up; it stays in the map
\* for them.
InMap(b) == b \in Starts /\ entries[Key[b]] = b
Users(b) == {s \in Starts : bound[s] = b /\ pc[s] \in Using}
UseTrue ==
    /\ \A b \in Starts : users[b] = Cardinality(Users(b))
    /\ \A s \in Starts : pc[s] \in Using /\ bound[s] # None => InMap(bound[s])

\* An evicted driver is at rest and out of the map, and is closed by the one call that has evicted it.
EvictTrue ==
    /\ \A c \in Evictors : pc[c] # "closing" => expired[c] = {}
    /\ \A c \in Evictors : \A d \in expired[c] :
          /\ dstate[d] \in Rest
          /\ ~InMap(bound[d])
          /\ \A o \in Evictors : d \in expired[o] => o = c

\* An open driver is in the map, evicted, or for Close to close.
OpenTrue ==
    \A d \in Starts : dstate[d] \in {"unstarted", "idle", "busy"} =>
        InMap(bound[d]) \/ (\E c \in Evictors : d \in expired[c]) \/ d \in closeSet

SizeTrue == Cardinality(Bindings) <= MaxSessions

\* Once Close has waited no call is under way and the map is empty.
CloseTrue ==
    /\ closing # "no" => closed
    /\ closing \in After => StartsOut = {} /\ \A k \in Keys : entries[k] = None
    /\ closing # "drivers" => closeSet = {}
    /\ \A d \in closeSet : dstate[d] # "none"
    /\ closing \in {"no", "waiting", "drivers"} => pool = "open" /\ dstate[Discovery] # "closed"
    /\ closing \in {"pool", "done"} => dstate[Discovery] = "closed"

\* A cleanup that fails is remembered by the call that met it, then by the manager, then by Close.
ErrTrue ==
    /\ \A c \in failed : pc[c] # "outside" /\ (pc[c] # "closing" => cleanupErr)
    /\ cleanupErr => failed # {}
    /\ failed # {} => broken # {}
    /\ closing \in {"no", "waiting"} /\ broken # {} => failed # {}
    /\ closing \in After => (closeErr <=> broken # {})

ManagerInv ==
    /\ ManagerTypes /\ BindingTrue /\ GateTrue /\ UseTrue /\ EvictTrue /\ OpenTrue /\ SizeTrue
    /\ CloseTrue /\ ErrTrue

----------------------------------------------------------------------------
(* Facts.                                                                  *)

\* A key of the map is that of its binding.
LEMMA KeyOf == \A s \in Starts : Key[s] \in Keys
BY DEF Keys

LEMMA BindingsAre ==
    ASSUME ManagerTypes, BindingTrue
    PROVE  Bindings = {b \in Starts : InMap(b)}
<1>1. \A b \in Bindings : b \in Starts /\ InMap(b)
  BY DEF Bindings, InMap, ManagerTypes, BindingTrue
<1>2. \A b \in Starts : InMap(b) => b \in Bindings
  BY KeyOf, CallsAssumption DEF Bindings, InMap
<1> QED BY <1>1, <1>2 DEF InMap

\* A driver at work is that of a binding in the map.
LEMMA HeldInMap ==
    ASSUME ManagerInv, NEW s \in Starts, pc[s] \in {"calling", "starting"}
    PROVE  Held(s) \in Starts /\ bound[Held(s)] = bound[s] /\ InMap(bound[Held(s)]) /\ dstate[Held(s)] # "none"
<1>1. bound[s] \in Starts /\ driver[bound[s]] \in Starts
  BY DEF ManagerInv, ManagerTypes, GateTrue, Using
<1>2. InMap(bound[s])
  BY <1>1, CallsAssumption DEF ManagerInv, UseTrue, Using
<1> QED BY <1>1, <1>2, CallsAssumption DEF Held, ManagerInv, BindingTrue

----------------------------------------------------------------------------
(* Steps of a call outside the map.                                        *)

Quiet == UNCHANGED <<bound, expired, failed, entries, closed, cleanupErr, closing, closeSet, closeErr, pool, broken>>

\* The call goes on, and does not begin to use a binding.
Goes(c, to) ==
    /\ pc[c] # "closing" /\ to \notin {"outside", "closing"} /\ pc' = [pc EXCEPT ![c] = to]
    /\ c \in Starts => to \in StartLabels /\ (to \in Using => pc[c] \in Using)
    /\ c \in Prunes => to \in PruneLabels
    /\ c \in Lists => to \in ListLabels
    /\ pc[c] \in {"outside", "done"} => to = "done" \/ ~closed

\* A driver in the map may do anything, another only come to rest.
DriversGo ==
    /\ dstate' \in [Drivers -> States] /\ dstate'[Discovery] = dstate[Discovery]
    /\ \A d \in Starts : \/ dstate'[d] = dstate[d]
                         \/ InMap(bound[d])
                         \/ dstate[d] \in {"idle", "unstarted", "busy"} /\ dstate'[d] \in {"idle", "unstarted"}

LEMMA CallKeeps ==
    ASSUME ManagerInv, Quiet, DriversGo, NEW c \in Calls, NEW to, Goes(c, to) \/ UNCHANGED pc,
           users' \in [Starts -> Int], driver' \in [Starts -> Starts \cup {None}], gate' \in [Starts -> BOOLEAN],
           turn' \in [Starts -> {"none", "live", "touch", "over"}]
    PROVE  ManagerTypes' /\ EvictTrue' /\ OpenTrue' /\ SizeTrue' /\ CloseTrue' /\ ErrTrue'
<1>0. /\ DOMAIN pc' = Calls /\ \A o \in Calls \ {c} : pc'[o] = pc[o]
      /\ pc'[c] = pc[c] \/ (Goes(c, to) /\ pc'[c] = to)
  BY DEF Goes, ManagerInv, ManagerTypes
<1>1. ManagerTypes'
  <2>1. \A s \in Starts : pc'[s] \in StartLabels
    BY <1>0 DEF Goes, ManagerInv, ManagerTypes, Calls
  <2>2. \A s \in Prunes : pc'[s] \in PruneLabels
    BY <1>0 DEF Goes, ManagerInv, ManagerTypes, Calls
  <2>3. \A s \in Lists : pc'[s] \in ListLabels
    BY <1>0 DEF Goes, ManagerInv, ManagerTypes, Calls
  <2> QED BY <1>0, <2>1, <2>2, <2>3 DEF Quiet, DriversGo, ManagerInv, ManagerTypes
<1>4. EvictTrue'
  <2>1. \A o \in Evictors : pc'[o] # "closing" => pc[o] # "closing"
    BY <1>0 DEF Evictors, Goes, Calls
  <2>2. \A o \in Evictors : \A d \in expired[o] : dstate'[d] \in Rest
    BY DEF DriversGo, EvictTrue, ManagerInv, ManagerTypes, Rest
  <2>3. \A d \in Starts : InMap(bound[d])' <=> InMap(bound[d])
    BY DEF Quiet, InMap
  <2>4. \A o \in Evictors : expired[o] \subseteq Starts
    BY DEF ManagerInv, ManagerTypes
  <2> QED BY <2>1, <2>2, <2>3, <2>4 DEF EvictTrue, ManagerInv, Quiet
<1>5. OpenTrue'
  <2>1. \A d \in Starts : InMap(bound[d])' <=> InMap(bound[d])
    BY DEF Quiet, InMap
  <2>2. \A d \in Starts : dstate'[d] \in {"unstarted", "idle", "busy"} => dstate[d] \in {"unstarted", "idle", "busy"} \/ InMap(bound[d])
    BY DEF DriversGo
  <2> QED BY <2>1, <2>2 DEF OpenTrue, ManagerInv, Quiet
<1>6. SizeTrue'
  BY DEF SizeTrue, Quiet, ManagerInv, Bindings
<1>7. CloseTrue'
  <2>1. closing \in After => StartsOut' = {}
    <3> SUFFICES ASSUME closing \in After PROVE StartsOut' = {}
      OBVIOUS
    <3>1. closed /\ StartsOut = {}
      BY DEF ManagerInv, CloseTrue, After
    <3>2. \A o \in Calls : pc[o] \in {"outside", "done"}
      BY <3>1 DEF StartsOut
    <3>3. \A o \in Calls : pc'[o] \in {"outside", "done"}
      BY <1>0, <3>1, <3>2 DEF Goes
    <3> QED BY <3>3 DEF StartsOut
  <2>2. \A d \in closeSet : dstate'[d] # "none"
    <3> SUFFICES ASSUME NEW d \in closeSet PROVE dstate'[d] # "none"
      OBVIOUS
    <3>1. d \in Starts /\ dstate[d] # "none" /\ \A k \in Keys : entries[k] = None
      BY DEF ManagerInv, ManagerTypes, CloseTrue, After
    <3>2. ~InMap(bound[d])
      BY <3>1, KeyOf, CallsAssumption DEF InMap
    <3> QED BY <3>1, <3>2 DEF DriversGo
  <2> QED BY <2>1, <2>2 DEF CloseTrue, ManagerInv, Quiet, DriversGo
<1>8. ErrTrue'
  <2>1. failed \subseteq Calls
    BY DEF ManagerInv, ManagerTypes, Evictors, Calls
  <2> QED BY <1>0, <2>1 DEF ErrTrue, ManagerInv, Quiet, Goes
<1> QED BY <1>1, <1>4, <1>5, <1>6, <1>7, <1>8

\* The users stay when the call neither begins nor ends its use.
LEMMA UseKeeps ==
    ASSUME ManagerInv, Quiet, UNCHANGED users, NEW c \in Calls, NEW to, Goes(c, to) \/ UNCHANGED pc,
           c \in Starts /\ pc[c] \in Using => UNCHANGED pc \/ to \in Using
    PROVE  UseTrue'
<1>1. \A s \in Starts : pc'[s] \in Using <=> pc[s] \in Using
  BY DEF Goes, Calls, ManagerInv, ManagerTypes
<1>2. \A b \in Starts : Users(b)' = Users(b)
  BY <1>1 DEF Users, Quiet
<1>3. \A s \in Starts : InMap(bound[s])' <=> InMap(bound[s])
  BY DEF Quiet, InMap
<1> QED BY <1>1, <1>2, <1>3 DEF UseTrue, ManagerInv, Quiet

\* The bindings stay as they are when no driver comes or goes.
LEMMA BindingKeeps ==
    ASSUME ManagerInv, Quiet, DriversGo, NEW c \in Calls, NEW to, Goes(c, to) \/ UNCHANGED pc,
           UNCHANGED driver, \A d \in Starts : dstate'[d] = "none" <=> dstate[d] = "none"
    PROVE  BindingTrue'
<1>1. \A s \in Starts : pc[s] # "outside" => pc'[s] # "outside"
  BY DEF Goes, ManagerInv, ManagerTypes, Calls
<1>2. \A k \in Keys : entries[k] # None => entries[k] \in Starts
  BY DEF ManagerInv, ManagerTypes
<1>3. \A s \in Starts : (bound[s] # None => bound[s] \in Starts) /\ (driver[s] # None => driver[s] \in Starts)
  BY DEF ManagerInv, ManagerTypes
<1>4. \A k \in Keys : entries'[k] # None => Key[entries'[k]] = k /\ pc'[entries'[k]] # "outside"
  BY <1>1, <1>2 DEF ManagerInv, BindingTrue, Quiet
<1>5. \A s \in Starts : bound'[s] # None => pc'[s] # "outside" /\ pc'[bound'[s]] # "outside"
  BY <1>1, <1>3 DEF ManagerInv, BindingTrue, Quiet
<1>6. \A s \in Starts : driver'[s] # None => bound'[driver'[s]] = s /\ dstate'[driver'[s]] # "none"
  BY <1>1, <1>3 DEF ManagerInv, BindingTrue, Quiet
<1>7. \A s \in Starts : dstate'[s] # "none" => bound'[s] # None /\ driver'[bound'[s]] = s
  BY <1>1, <1>3 DEF ManagerInv, BindingTrue, Quiet
<1> QED BY <1>4, <1>5, <1>6, <1>7 DEF BindingTrue

\* So does the gate when no Start comes to it.
LEMMA GateKeeps ==
    ASSUME ManagerInv, Quiet, NEW c \in Calls, NEW to, Goes(c, to) \/ UNCHANGED pc, UNCHANGED <<driver, gate>>,
           c \in Starts => /\ to \in Gated => pc[c] \in Gated
                           /\ to = "creating" => driver[bound[c]] = None
                           /\ to \in {"calling", "starting"} => driver[bound[c]] # None,
           \A s \in Starts : turn'[s] = "live" => turn[s] = "live" \/ pc[s] = "starting"
    PROVE  GateTrue'
<1>1. \A s \in Starts : /\ pc'[s] \in Using \ {"closing"} => pc[s] \in Using \ {"closing"}
                        /\ pc'[s] \in Gated => pc[s] \in Gated
                        /\ pc'[s] = "creating" => driver[bound[s]] = None
                        /\ pc'[s] \in {"calling", "starting"} => driver[bound[s]] # None
  <2> SUFFICES ASSUME NEW s \in Starts
               PROVE  /\ pc'[s] \in Using \ {"closing"} => pc[s] \in Using \ {"closing"}
                      /\ pc'[s] \in Gated => pc[s] \in Gated
                      /\ pc'[s] = "creating" => driver[bound[s]] = None
                      /\ pc'[s] \in {"calling", "starting"} => driver[bound[s]] # None
    OBVIOUS
  <2>1. pc'[s] = pc[s] \/ (s = c /\ Goes(c, to) /\ pc'[s] = to)
    BY DEF Goes, ManagerInv, ManagerTypes, Calls
  <2> QED BY <2>1 DEF ManagerInv, GateTrue, Goes
<1>2. \A s \in Starts : turn'[s] = "live" => bound[s] # None /\ driver[bound[s]] # None
  BY DEF ManagerInv, GateTrue, Using
<1> QED BY <1>1, <1>2 DEF ManagerInv, GateTrue, Quiet

LEMMA InvFrom ==
    ASSUME ManagerTypes' /\ EvictTrue' /\ OpenTrue' /\ SizeTrue' /\ CloseTrue' /\ ErrTrue',
           BindingTrue', GateTrue', UseTrue'
    PROVE  ManagerInv'
BY DEF ManagerInv

\* Calls that only move.
LEMMA MoveKeeps ==
    ASSUME ManagerInv, NEW c \in Calls, NEW from, NEW to, Move(c, from, to), Goes(c, to),
           c \in Starts /\ pc[c] \in Using => to \in Using,
           c \in Starts => /\ to \in Gated => pc[c] \in Gated
                           /\ to = "creating" => driver[bound[c]] = None
                           /\ to \in {"calling", "starting"} => driver[bound[c]] # None
    PROVE  ManagerInv'
<1>1. Quiet /\ UNCHANGED <<users, driver, gate, turn, dstate>>
  BY DEF Move, Quiet, mapVars, endVars
<1>2. DriversGo
  BY <1>1 DEF DriversGo, ManagerInv, ManagerTypes
<1>3. /\ users' \in [Starts -> Int] /\ driver' \in [Starts -> Starts \cup {None}] /\ gate' \in [Starts -> BOOLEAN]
      /\ turn' \in [Starts -> {"none", "live", "touch", "over"}]
  BY <1>1 DEF ManagerInv, ManagerTypes
<1>4. \A d \in Starts : dstate'[d] = "none" <=> dstate[d] = "none"
  BY <1>1
<1>5. \A s \in Starts : turn'[s] = "live" => turn[s] = "live" \/ pc[s] = "starting"
  BY <1>1
<1> QED BY <1>1, <1>2, <1>3, <1>4, <1>5, CallKeeps, BindingKeeps, GateKeeps, UseKeeps, InvFrom

LEMMA MovesKeep ==
    ASSUME ManagerInv, NEW c \in Calls,
           \/ Reject(c) \/ Done(c) \/ PrunePool(c) \/ EndModels(c) \/ (c \in Lists /\ BeginModels(c))
           \/ c \in Starts /\ (LookForDriver(c) \/ ClaimRefused(c) \/ DriverRefuses(c))
    PROVE  ManagerInv'
<1>1. CASE Reject(c)
  BY <1>1, MoveKeeps DEF Reject, Move, Goto, Goes, StartLabels, PruneLabels, ListLabels, Using, Gated
<1>2. CASE Done(c)
  BY <1>2, MoveKeeps DEF Done, Move, Goto, Goes, StartLabels, PruneLabels, ListLabels, Using, Gated
<1>3. CASE PrunePool(c) \/ EndModels(c)
  <2>1. c \notin Starts
    BY <1>3 DEF PrunePool, EndModels, Move, ManagerInv, ManagerTypes, StartLabels, Using
  <2>2. CASE PrunePool(c)
    BY <2>1, <2>2, MoveKeeps DEF PrunePool, Move, Goto, Goes, StartLabels, PruneLabels, ListLabels
  <2>3. CASE EndModels(c)
    BY <2>1, <2>3, MoveKeeps DEF EndModels, Move, Goto, Goes, StartLabels, PruneLabels, ListLabels
  <2> QED BY <1>3, <2>2, <2>3
<1>4. CASE c \in Lists /\ BeginModels(c)
  <2>1. c \notin Starts /\ c \notin Prunes
    BY <1>4, CallsAssumption
  <2> QED BY <1>4, <2>1, MoveKeeps DEF BeginModels, Refuses, Move, Goto, Goes, ListLabels
<1>5. ASSUME c \in Starts, LookForDriver(c) \/ ClaimRefused(c) \/ DriverRefuses(c) PROVE ManagerInv'
  <2>1. c \notin Prunes /\ c \notin Lists
    BY <1>5, CallsAssumption
  <2>2. CASE LookForDriver(c)
    <3>1. PICK to \in {"creating", "calling"} : Move(c, "holding", to) /\ (to = "creating" <=> driver[bound[c]] = None)
      BY <2>2 DEF LookForDriver
    <3>2. Goes(c, to)
      BY <2>1, <3>1 DEF Move, Goto, Goes, StartLabels, Using
    <3> QED BY <3>1, <3>2, MoveKeeps DEF Gated, Using, Move
  <2>3. CASE ClaimRefused(c)
    BY <1>5, <2>1, <2>3, MoveKeeps DEF ClaimRefused, Move, Goto, Goes, StartLabels, Using, Gated
  <2>4. CASE DriverRefuses(c)
    BY <1>5, <2>1, <2>4, MoveKeeps DEF DriverRefuses, Move, Goto, Goes, StartLabels, Using, Gated
  <2> QED BY <1>5, <2>2, <2>3, <2>4
<1> QED BY <1>1, <1>2, <1>3, <1>4, <1>5

\* The driver works for a Start, for its turn, or by itself.
LEMMA DriverKeeps ==
    ASSUME ManagerInv,
           \/ \E s \in Starts : \/ DriverStarts(s) \/ DriverReturns(s) \/ TouchFailed(s) \/ TouchTurn(s)
                                \/ \E state \in {"idle", "unstarted"} : DriverFails(s, state)
                                \/ \E state \in {"idle", "unstarted", "busy", "closed"} : FinishTurn(s, state)
           \/ \E d \in Starts, state \in {"idle", "unstarted"} : DriverSettles(d, state)
    PROVE  ManagerInv'
<1>0. \A s \in Starts : s \in Calls /\ s \notin Prunes /\ s \notin Lists /\ s \in Drivers /\ s # Discovery
  BY CallsAssumption DEF Calls, Drivers
<1>1. Quiet /\ UNCHANGED <<users, driver, gate>>
  BY DEF DriverStarts, DriverReturns, TouchFailed, TouchTurn, DriverFails, FinishTurn, DriverSettles, Quiet, mapVars, endVars, callVars
<1>2. /\ users' \in [Starts -> Int] /\ driver' \in [Starts -> Starts \cup {None}] /\ gate' \in [Starts -> BOOLEAN]
  BY <1>1 DEF ManagerInv, ManagerTypes
<1>3. turn' \in [Starts -> {"none", "live", "touch", "over"}]
  <2>1. \/ turn' = turn
        \/ \E s \in Starts, state \in {"live", "touch", "over"} : turn' = [turn EXCEPT ![s] = state]
    BY DEF DriverStarts, DriverReturns, TouchFailed, TouchTurn, DriverFails, FinishTurn, DriverSettles, callVars
  <2> QED BY <2>1 DEF ManagerInv, ManagerTypes
<1>4. \A s \in Starts : turn'[s] = "live" => turn[s] = "live" \/ pc[s] = "starting"
  BY DEF DriverStarts, DriverReturns, TouchFailed, TouchTurn, DriverFails, FinishTurn, DriverSettles, callVars, ManagerInv, ManagerTypes
<1>5. DriversGo /\ \A d \in Starts : dstate'[d] = "none" <=> dstate[d] = "none"
  <2>1. ASSUME NEW d \in Starts, NEW state \in States \ {"none"}, dstate' = [dstate EXCEPT ![d] = state],
               dstate[d] # "none",
               \/ state = dstate[d] \/ InMap(bound[d])
               \/ dstate[d] \in {"idle", "unstarted", "busy"} /\ state \in {"idle", "unstarted"}
        PROVE  DriversGo /\ \A o \in Starts : dstate'[o] = "none" <=> dstate[o] = "none"
    BY <1>0, <2>1 DEF DriversGo, ManagerInv, ManagerTypes
  <2>2. {"idle", "unstarted", "busy", "closed"} \subseteq States \ {"none"}
    BY DEF States
  <2>3. CASE UNCHANGED dstate
    BY <2>3 DEF DriversGo, ManagerInv, ManagerTypes
  <2>4. ASSUME NEW s \in Starts, DriverStarts(s) PROVE DriversGo /\ \A d \in Starts : dstate'[d] = "none" <=> dstate[d] = "none"
    BY <2>1, <2>2, <2>4, HeldInMap DEF DriverStarts
  <2>5. ASSUME NEW s \in Starts, NEW state \in {"idle", "unstarted"}, DriverFails(s, state)
        PROVE  DriversGo /\ \A d \in Starts : dstate'[d] = "none" <=> dstate[d] = "none"
    BY <2>1, <2>2, <2>5, HeldInMap DEF DriverFails
  <2>6. ASSUME NEW s \in Starts, NEW state \in {"idle", "unstarted", "busy", "closed"}, FinishTurn(s, state)
        PROVE  DriversGo /\ \A d \in Starts : dstate'[d] = "none" <=> dstate[d] = "none"
    <3>1. bound[s] \in Starts /\ Held(s) \in Starts
      BY <2>6 DEF FinishTurn, Held, ManagerInv, ManagerTypes, GateTrue
    <3>2. dstate[Held(s)] # "none"
      BY <3>1, CallsAssumption DEF Held, ManagerInv, BindingTrue
    <3> QED BY <2>1, <2>2, <2>6, <3>1, <3>2 DEF FinishTurn
  <2>7. ASSUME NEW d \in Starts, NEW state \in {"idle", "unstarted"}, DriverSettles(d, state)
        PROVE  DriversGo /\ \A o \in Starts : dstate'[o] = "none" <=> dstate[o] = "none"
    BY <2>1, <2>2, <2>7 DEF DriverSettles
  <2> QED BY <2>3, <2>4, <2>5, <2>6, <2>7 DEF DriverReturns, TouchFailed, TouchTurn
<1>6. \E c \in Calls, to \in StartLabels :
         /\ Goes(c, to) \/ UNCHANGED pc
         /\ c \in Starts => /\ to \in Gated => pc[c] \in Gated
                            /\ to # "creating"
                            /\ to \in {"calling", "starting"} => driver[bound[c]] # None
                            /\ pc[c] \in Using => UNCHANGED pc \/ to \in Using
  <2>1. ASSUME NEW s \in Starts, NEW to \in {"starting", "release", "touching"}, pc[s] \in {"calling", "starting", "touching"},
               pc' = [pc EXCEPT ![s] = to]
        PROVE  /\ Goes(s, to) /\ to \in StartLabels /\ to \in Using /\ pc[s] \in Gated /\ to # "creating"
    BY <1>0, <2>1 DEF Goes, StartLabels, Using, Gated
  <2>2. ASSUME NEW s \in Starts, UNCHANGED pc
        PROVE  /\ Goes(s, "out") \/ UNCHANGED pc
               /\ "out" \notin Gated /\ "out" \in StartLabels /\ s \in Calls
    BY <1>0, <2>2 DEF Gated, StartLabels
  <2>3. ASSUME NEW s \in Starts, DriverStarts(s) PROVE pc' = [pc EXCEPT ![s] = "starting"] /\ driver[bound[s]] # None /\ pc[s] = "calling"
    BY <2>3 DEF DriverStarts, Goto, ManagerInv, GateTrue
  <2>4. CASE \E s \in Starts : DriverStarts(s)
    BY <1>0, <2>1, <2>3, <2>4
  <2>5. CASE \E s \in Starts : DriverReturns(s) \/ TouchFailed(s) \/ \E state \in {"idle", "unstarted"} : DriverFails(s, state)
    <3>1. PICK s \in Starts, to \in {"release", "touching"} :
             pc' = [pc EXCEPT ![s] = to] /\ pc[s] \in {"calling", "starting", "touching"}
      BY <2>5 DEF DriverReturns, TouchFailed, DriverFails, Goto
    <3> QED BY <1>0, <2>1, <3>1
  <2>6. CASE (\E s \in Starts : TRUE) /\ UNCHANGED pc
    BY <2>2, <2>6
  <2> QED BY <2>4, <2>5, <2>6 DEF TouchTurn, FinishTurn, DriverSettles, callVars
<1> QED BY <1>1, <1>2, <1>3, <1>4, <1>5, <1>6, CallKeeps, BindingKeeps, GateKeeps, UseKeeps, InvFrom

\* The gate: it is taken and given back by one Start.
LEMMA GatesKeep ==
    ASSUME ManagerInv, NEW s \in Starts, TryGate(s) \/ ReleaseGate(s)
    PROVE  ManagerInv'
<1>0. s \in Calls /\ s \notin Prunes /\ s \notin Lists
  BY CallsAssumption DEF Calls
<1>1. Quiet /\ UNCHANGED <<users, driver, dstate, turn>>
  BY DEF TryGate, ReleaseGate, Quiet, endVars
<1>2. /\ users' \in [Starts -> Int] /\ driver' \in [Starts -> Starts \cup {None}]
      /\ turn' \in [Starts -> {"none", "live", "touch", "over"}]
  BY <1>1 DEF ManagerInv, ManagerTypes
<1>3. gate' \in [Starts -> BOOLEAN]
  BY DEF TryGate, ReleaseGate, ManagerInv, ManagerTypes
<1>4. DriversGo /\ \A d \in Starts : dstate'[d] = "none" <=> dstate[d] = "none"
  BY <1>1 DEF DriversGo, ManagerInv, ManagerTypes
<1>5. PICK to \in {"holding", "unuse"} : pc' = [pc EXCEPT ![s] = to] /\ (to = "holding" => ~gate[bound[s]])
  BY DEF TryGate, ReleaseGate, Goto
<1>6. Goes(s, to) /\ to \in Using
  BY <1>0, <1>5 DEF TryGate, ReleaseGate, Goes, StartLabels, Using
<1>7. bound[s] \in Starts
  BY DEF TryGate, ReleaseGate, Using, ManagerInv, ManagerTypes, GateTrue
<1>8. GateTrue'
  <2>1. \A t \in Starts \ {s} : pc'[t] = pc[t]
    BY <1>5 DEF ManagerInv, ManagerTypes
  <2>2. pc'[s] = to
    BY <1>0, <1>5 DEF ManagerInv, ManagerTypes
  <2>3. \A t \in Starts : pc'[t] \in Gated => gate'[bound[t]]
    <3>1. CASE TryGate(s)
      BY <1>7, <2>1, <2>2, <3>1 DEF TryGate, ManagerInv, ManagerTypes, GateTrue
    <3>2. CASE ReleaseGate(s)
      <4>1. pc[s] = "release" /\ gate' = [gate EXCEPT ![bound[s]] = FALSE] /\ to = "unuse"
        BY <2>2, <3>2 DEF ReleaseGate, Goto, ManagerInv, ManagerTypes, Calls
      <4> QED BY <1>7, <2>1, <2>2, <4>1 DEF ManagerInv, ManagerTypes, GateTrue, Gated
    <3> QED BY <3>1, <3>2
  <2>4. \A t, u \in Starts : pc'[t] \in Gated /\ pc'[u] \in Gated /\ bound[t] = bound[u] => t = u
    BY <1>5, <2>1, <2>2 DEF ManagerInv, ManagerTypes, GateTrue, Gated
  <2>5. \A t \in Starts : pc'[t] \in Using \ {"closing"} => bound[t] # None
    BY <1>7, <2>1, <2>2, CallsAssumption DEF ManagerInv, GateTrue
  <2> QED BY <1>1, <2>1, <2>2, <2>3, <2>4, <2>5 DEF GateTrue, ManagerInv, Quiet
<1> QED BY <1>0, <1>1, <1>2, <1>3, <1>4, <1>6, <1>8, CallKeeps, BindingKeeps, UseKeeps, InvFrom

\* The driver of a binding is created once, by the Start behind its gate.
LEMMA CreateKeeps ==
    ASSUME ManagerInv, NEW s \in Starts, Create(s)
    PROVE  ManagerInv'
<1>0. s \in Calls /\ s \notin Prunes /\ s \notin Lists /\ s \in Drivers /\ s # Discovery /\ s # None
  BY CallsAssumption DEF Calls, Drivers
<1>1. Quiet /\ UNCHANGED <<users, gate, turn>>
  BY DEF Create, Quiet, endVars
<1>2. /\ pc[s] = "creating" /\ pc' = [pc EXCEPT ![s] = "calling"]
      /\ driver' = [driver EXCEPT ![bound[s]] = s] /\ dstate' = [dstate EXCEPT ![s] = "unstarted"]
  BY DEF Create, Goto
<1>3. bound[s] \in Starts /\ driver[bound[s]] = None /\ InMap(bound[s])
  BY <1>2, CallsAssumption DEF ManagerInv, ManagerTypes, GateTrue, UseTrue, Using
<1>4. /\ users' \in [Starts -> Int] /\ gate' \in [Starts -> BOOLEAN] /\ driver' \in [Starts -> Starts \cup {None}]
      /\ turn' \in [Starts -> {"none", "live", "touch", "over"}]
  BY <1>1, <1>2, <1>3 DEF ManagerInv, ManagerTypes
<1>5. DriversGo
  BY <1>0, <1>2, <1>3 DEF DriversGo, ManagerInv, ManagerTypes, States
<1>6. Goes(s, "calling") /\ "calling" \in Using
  BY <1>0, <1>2 DEF Goes, StartLabels, Using
<1>7. /\ pc'[s] = "calling" /\ driver'[bound[s]] = s /\ dstate'[s] = "unstarted"
      /\ \A t \in Starts \ {s} : pc'[t] = pc[t] /\ dstate'[t] = dstate[t]
      /\ \A b \in Starts \ {bound[s]} : driver'[b] = driver[b]
  BY <1>0, <1>2, <1>3 DEF ManagerInv, ManagerTypes
<1>8. BindingTrue'
  <2>1. \A t \in Starts : pc[t] # "outside" => pc'[t] # "outside"
    BY <1>7
  <2>2. \A k \in Keys : entries'[k] # None => Key[entries'[k]] = k /\ pc'[entries'[k]] # "outside"
    BY <1>1, <2>1 DEF ManagerInv, ManagerTypes, BindingTrue, Quiet
  <2>3. \A t \in Starts : bound'[t] # None => pc'[t] # "outside" /\ pc'[bound'[t]] # "outside"
    BY <1>1, <2>1 DEF ManagerInv, ManagerTypes, BindingTrue, Quiet
  <2>4. \A b \in Starts : driver'[b] # None => bound'[driver'[b]] = b /\ dstate'[driver'[b]] # "none"
    BY <1>1, <1>7 DEF ManagerInv, ManagerTypes, BindingTrue, Quiet
  <2>5. \A t \in Starts : dstate'[t] # "none" => bound'[t] # None /\ driver'[bound'[t]] = t
    BY <1>0, <1>1, <1>3, <1>7, CallsAssumption DEF ManagerInv, ManagerTypes, BindingTrue, Quiet
  <2> QED BY <2>2, <2>3, <2>4, <2>5 DEF BindingTrue
<1>9. GateTrue'
  <2>1. \A t \in Starts : pc'[t] \in Gated <=> pc[t] \in Gated
    BY <1>2, <1>7 DEF Gated
  <2>2. \A t \in Starts : pc'[t] \in Using \ {"closing"} => bound[t] # None
    BY <1>0, <1>3, <1>7, CallsAssumption DEF ManagerInv, GateTrue
  <2>3. \A t \in Starts : bound[t] # None /\ driver[bound[t]] # None => driver'[bound[t]] # None
    BY <1>0, <1>3, <1>7 DEF ManagerInv, ManagerTypes
  <2>4. \A t \in Starts : pc'[t] = "creating" => driver'[bound[t]] = None
    BY <1>2, <1>3, <1>7 DEF ManagerInv, ManagerTypes, GateTrue, Gated, Using
  <2>5. \A t \in Starts : pc'[t] \in {"calling", "starting"} => driver'[bound[t]] # None
    BY <1>0, <1>7, <2>2, <2>3 DEF ManagerInv, GateTrue, Using
  <2> QED BY <1>1, <2>1, <2>2, <2>3, <2>4, <2>5 DEF GateTrue, ManagerInv, Quiet
<1> QED BY <1>0, <1>1, <1>4, <1>5, <1>6, <1>8, <1>9, CallKeeps, UseKeeps, InvFrom

\* The Start gives its binding up.
LEMMA UnuseKeeps ==
    ASSUME ManagerInv, NEW s \in Starts, Unuse(s)
    PROVE  ManagerInv'
<1>0. s \in Calls /\ s \notin Prunes /\ s \notin Lists
  BY CallsAssumption DEF Calls
<1>1. Quiet /\ UNCHANGED <<driver, gate, dstate, turn>>
  BY DEF Unuse, Quiet, endVars
<1>2. pc[s] = "unuse" /\ pc' = [pc EXCEPT ![s] = "out"] /\ users' = [users EXCEPT ![bound[s]] = @ - 1]
  BY DEF Unuse, Goto
<1>3. bound[s] \in Starts
  BY <1>2 DEF Using, ManagerInv, ManagerTypes, GateTrue
<1>4. /\ users' \in [Starts -> Int] /\ driver' \in [Starts -> Starts \cup {None}] /\ gate' \in [Starts -> BOOLEAN]
      /\ turn' \in [Starts -> {"none", "live", "touch", "over"}]
  BY <1>1, <1>2, <1>3 DEF ManagerInv, ManagerTypes
<1>5. DriversGo /\ (\A d \in Starts : dstate'[d] = "none" <=> dstate[d] = "none")
      /\ (\A t \in Starts : turn'[t] = "live" => turn[t] = "live" \/ pc[t] = "starting")
  BY <1>1 DEF DriversGo, ManagerInv, ManagerTypes
<1>6. Goes(s, "out") /\ "out" \notin Gated
  BY <1>0, <1>2 DEF Goes, StartLabels, Using, Gated
<1>7. pc'[s] = "out" /\ \A t \in Starts \ {s} : pc'[t] = pc[t]
  BY <1>0, <1>2 DEF ManagerInv, ManagerTypes
<1>8. UseTrue'
  <2>1. \A b \in Starts \ {bound[s]} : Users(b)' = Users(b)
    BY <1>1, <1>7 DEF Users, Quiet
  <2>3. PICK b \in Starts : b = bound[s]
    BY <1>3
  <2>4. Users(b)' = Users(b) \ {s} /\ s \in Users(b)
    BY <1>1, <1>2, <1>7, <2>3 DEF Users, Quiet, Using
  <2>5. IsFiniteSet(Users(b))
    BY FS_Subset, CallsAssumption DEF Users
  <2>6. Cardinality(Users(b) \ {s}) = Cardinality(Users(b)) - 1
    BY <2>4, <2>5, FS_RemoveElement
  <2>7. \A o \in Starts : users'[o] = Cardinality(Users(o))'
    BY <1>2, <2>1, <2>3, <2>4, <2>6 DEF ManagerInv, ManagerTypes, UseTrue
  <2>8. \A t \in Starts : InMap(bound[t])' <=> InMap(bound[t])
    BY <1>1 DEF Quiet, InMap
  <2>9. \A t \in Starts : pc'[t] \in Using => pc[t] \in Using
    BY <1>7 DEF Using
  <2> QED BY <1>1, <2>7, <2>8, <2>9 DEF UseTrue, ManagerInv, Quiet
<1> QED BY <1>0, <1>1, <1>4, <1>5, <1>6, <1>8, CallKeeps, BindingKeeps, GateKeeps, InvFrom

----------------------------------------------------------------------------
(* Evicted drivers are closed.                                             *)

LEMMA IdleKeeps ==
    ASSUME ManagerInv, NEW c \in Evictors, NEW d \in Starts, NEW fault \in BOOLEAN, CloseIdle(c, d, fault)
    PROVE  ManagerInv'
<1>1. /\ UNCHANGED <<pc, bound, turn, entries, users, gate, driver, closed, cleanupErr, closing, closeSet, closeErr, pool>>
      /\ pc[c] = "closing" /\ d \in expired[c] /\ expired' = [expired EXCEPT ![c] = @ \ {d}]
  BY DEF CloseIdle, mapVars, endVars
<1>2. dstate[d] \in Rest /\ dstate[d] # "busy"
  BY <1>1 DEF ManagerInv, EvictTrue, Rest
<1>3. /\ dstate' = [dstate EXCEPT ![d] = "closed"]
      /\ \/ failed' = failed /\ broken' = broken
         \/ failed' = failed \cup {c} /\ broken' = broken \cup {d}
  BY <1>2 DEF CloseIdle, Cleanup
<1>4. d \in Drivers /\ d # Discovery /\ Discovery \in Drivers /\ Starts \subseteq Drivers
  BY CallsAssumption DEF Drivers
<1>5. dstate[d] # "none"
  BY <1>2 DEF Rest
<1>6. /\ dstate'[d] = "closed" /\ dstate'[Discovery] = dstate[Discovery]
      /\ \A o \in Starts \ {d} : dstate'[o] = dstate[o]
      /\ dstate' \in [Drivers -> States]
  BY <1>3, <1>4 DEF ManagerInv, ManagerTypes, States
<1>7. /\ expired'[c] = expired[c] \ {d} /\ \A o \in Evictors \ {c} : expired'[o] = expired[o]
      /\ expired' \in [Evictors -> SUBSET Starts]
  BY <1>1 DEF ManagerInv, ManagerTypes
<1>8. closing \notin After
  <2>1. c \in Calls
    BY DEF Evictors, Calls
  <2> QED BY <1>1, <2>1 DEF ManagerInv, CloseTrue, StartsOut
<1>9. ManagerTypes'
  BY <1>1, <1>3, <1>6, <1>7 DEF ManagerInv, ManagerTypes
<1>10. BindingTrue' /\ GateTrue'
  <2>1. \A s \in Starts : dstate'[s] = "none" <=> dstate[s] = "none"
    BY <1>5, <1>6
  <2>2. \A s \in Starts : driver[s] # None => driver[s] \in Starts
    BY DEF ManagerInv, ManagerTypes
  <2>3. BindingTrue'
    BY <1>1, <2>1, <2>2 DEF ManagerInv, BindingTrue
  <2>4. GateTrue'
    BY <1>1 DEF ManagerInv, GateTrue
  <2> QED BY <2>3, <2>4
<1>11. UseTrue' /\ SizeTrue'
  <2>1. \A b \in Starts : Users(b)' = Users(b)
    BY <1>1 DEF Users
  <2>2. \A s \in Starts : InMap(bound[s])' <=> InMap(bound[s])
    BY <1>1 DEF InMap
  <2>3. Bindings' = Bindings
    BY <1>1 DEF Bindings
  <2> QED BY <1>1, <2>1, <2>2, <2>3 DEF ManagerInv, UseTrue, SizeTrue
<1>12. \A s \in Starts : InMap(bound[s])' <=> InMap(bound[s])
  BY <1>1 DEF InMap
<1>13. EvictTrue'
  <2>1. \A o \in Evictors : expired'[o] \subseteq expired[o] /\ expired[o] \subseteq Starts
    BY <1>7 DEF ManagerInv, ManagerTypes
  <2>2. \A s \in Starts : dstate[s] \in Rest => dstate'[s] \in Rest
    BY <1>6 DEF Rest
  <2> QED BY <1>1, <1>12, <2>1, <2>2 DEF ManagerInv, EvictTrue
<1>14. OpenTrue'
  BY <1>1, <1>6, <1>7, <1>12 DEF ManagerInv, OpenTrue
<1>15. CloseTrue'
  <2>1. StartsOut' = StartsOut
    BY <1>1 DEF StartsOut
  <2>2. \A o \in closeSet : dstate'[o] # "none"
    BY <1>6 DEF ManagerInv, ManagerTypes, CloseTrue
  <2> QED BY <1>1, <1>6, <2>1, <2>2 DEF ManagerInv, CloseTrue
<1>16. ErrTrue'
  BY <1>1, <1>3, <1>8 DEF ManagerInv, ErrTrue
<1> QED BY <1>9, <1>10, <1>11, <1>13, <1>14, <1>15, <1>16 DEF ManagerInv

\* closeExpired ends: a failure is the manager's from now on.
LEMMA ExpiredKeeps ==
    ASSUME ManagerInv, NEW c \in Evictors, ExpiredClosed(c)
    PROVE  ManagerInv'
<1>1. /\ UNCHANGED <<bound, expired, failed, turn, entries, users, gate, driver, dstate, broken, closed, closing,
                     closeSet, closeErr, pool>>
      /\ pc[c] = "closing" /\ expired[c] = {} /\ cleanupErr' = (cleanupErr \/ c \in failed)
  BY DEF ExpiredClosed, mapVars
<1>2. PICK to : /\ pc' = [pc EXCEPT ![c] = to]
                /\ \/ c \in Prunes /\ to = "pooling"
                   \/ c \notin Prunes /\ bound[c] = None /\ to = "out"
                   \/ c \notin Prunes /\ bound[c] # None /\ to \in {"unuse", "gate"}
  BY DEF ExpiredClosed
<1>3. c \in Calls /\ c \notin Lists /\ (c \in Starts => c \notin Prunes) /\ (c \notin Prunes => c \in Starts)
  BY CallsAssumption DEF Calls, Evictors
<1>4. pc'[c] = to /\ DOMAIN pc' = Calls /\ \A o \in Calls \ {c} : pc'[o] = pc[o]
  BY <1>2, <1>3 DEF ManagerInv, ManagerTypes
<1>5. Starts \subseteq Calls /\ Prunes \subseteq Calls /\ Lists \subseteq Calls /\ Evictors \subseteq Calls
  BY DEF Calls, Evictors
<1>6. ManagerTypes'
  <2>1. \A s \in Starts : pc'[s] \in StartLabels
    BY <1>2, <1>3, <1>4, <1>5 DEF ManagerInv, ManagerTypes, StartLabels, Using
  <2>2. \A p \in Prunes : pc'[p] \in PruneLabels
    BY <1>2, <1>3, <1>4, <1>5 DEF ManagerInv, ManagerTypes, PruneLabels
  <2>3. \A l \in Lists : pc'[l] \in ListLabels
    BY <1>3, <1>4, <1>5 DEF ManagerInv, ManagerTypes
  <2>4. cleanupErr' \in BOOLEAN
    BY <1>1
  <2> QED BY <1>1, <1>4, <2>1, <2>2, <2>3, <2>4 DEF ManagerInv, ManagerTypes
<1>7. BindingTrue'
  <2>1. \A s \in Starts : pc[s] # "outside" => pc'[s] # "outside"
    BY <1>2, <1>4, <1>5
  <2>2. /\ \A k \in Keys : entries[k] # None => entries[k] \in Starts
        /\ \A s \in Starts : bound[s] # None => bound[s] \in Starts
    BY DEF ManagerInv, ManagerTypes
  <2> QED BY <1>1, <2>1, <2>2 DEF ManagerInv, BindingTrue
<1>8. \A s \in Starts : /\ pc'[s] \in Gated => pc[s] \in Gated /\ pc'[s] = pc[s]
                        /\ pc'[s] \in Using => pc[s] \in Using
                        /\ pc'[s] \in Using \ {"closing"} => bound[s] # None
                        /\ bound[s] # None /\ pc[s] \in Using => pc'[s] \in Using
  <2>1. to \notin Gated /\ "closing" \in Using /\ "out" \notin Using /\ "unuse" \in Using /\ "gate" \in Using
    BY <1>2 DEF Gated, Using
  <2> QED BY <1>1, <1>2, <1>3, <1>4, <1>5, <2>1 DEF ManagerInv, GateTrue
<1>9. GateTrue'
  <2>1. {"creating", "calling", "starting"} \subseteq Gated
    BY DEF Gated
  <2>2. \A s \in Starts : pc'[s] \in {"creating", "calling", "starting"} => pc'[s] = pc[s]
    BY <1>8, <2>1
  <2> QED BY <1>1, <1>8, <2>2 DEF ManagerInv, GateTrue
<1>10. UseTrue'
  <2>1. \A b \in Starts : Users(b)' = Users(b)
    BY <1>1, <1>8, CallsAssumption DEF Users
  <2>2. \A s \in Starts : InMap(bound[s])' <=> InMap(bound[s])
    BY <1>1 DEF InMap
  <2> QED BY <1>1, <1>8, <2>1, <2>2 DEF ManagerInv, UseTrue
<1>11. EvictTrue' /\ OpenTrue'
  <2>1. \A s \in Starts : InMap(bound[s])' <=> InMap(bound[s])
    BY <1>1 DEF InMap
  <2>2. \A o \in Evictors : expired[o] \subseteq Starts /\ (pc'[o] # "closing" => expired[o] = {})
    BY <1>1, <1>4, <1>5 DEF ManagerInv, ManagerTypes, EvictTrue
  <2> QED BY <1>1, <2>1, <2>2 DEF ManagerInv, EvictTrue, OpenTrue
<1>12. SizeTrue'
  BY <1>1 DEF ManagerInv, SizeTrue, Bindings
<1>13. CloseTrue'
  <2>1. closing \notin After
    BY <1>1, <1>3 DEF ManagerInv, CloseTrue, StartsOut
  <2> QED BY <1>1, <2>1 DEF ManagerInv, CloseTrue
<1>14. ErrTrue'
  <2>1. failed \subseteq Calls
    BY <1>5 DEF ManagerInv, ManagerTypes
  <2> QED BY <1>1, <1>2, <1>4, <2>1 DEF ManagerInv, ErrTrue
<1> QED BY <1>6, <1>7, <1>9, <1>10, <1>11, <1>12, <1>13, <1>14 DEF ManagerInv

----------------------------------------------------------------------------
(* A call evicts, and a Start finds or inserts its binding.                *)

\* What Start and Prune do to the map: the bindings in out are idle and leave it, and a Start has
\* found e, has inserted itself, or goes without.
Evicts(c, out, e) ==
    /\ UNCHANGED <<failed, turn, gate, driver, dstate, broken, closed, cleanupErr, closing, closeSet, closeErr, pool>>
    /\ pc[c] = "outside" /\ ~closed /\ ~cleanupErr /\ pc' = [pc EXCEPT ![c] = "closing"]
    /\ \A b \in out : idleBinding(b)
    /\ expired' = [expired EXCEPT ![c] = {driver[b] : b \in out}]
    /\ c \in Starts => bound' = [bound EXCEPT ![c] = e]
    /\ c \notin Starts => e = None /\ UNCHANGED bound
    /\ entries' = IF e = c THEN [Kept(out) EXCEPT ![Key[c]] = c] ELSE Kept(out)
    /\ e = c => Kept(out)[Key[c]] = None /\ Cardinality(Bindings \ out) < MaxSessions
    /\ e # c /\ e # None => e \in Bindings \ out
    /\ users' = IF e = None THEN users ELSE [users EXCEPT ![e] = @ + 1]

LEMMA AdmitEvicts ==
    ASSUME ManagerInv, NEW s \in Starts, NEW T \in Aged, Admit(s, T)
    PROVE  \E out \in SUBSET Bindings, e \in Starts \cup {None} : Evicts(s, out, e)
<1> DEFINE stale == Stale(T)
           found == Kept(stale)[Key[s]]
           rest  == Bindings \ stale
           out   == stale \cup (IF found = None /\ Full(rest) THEN Oldest(rest) ELSE {})
           e     == IF found # None THEN found ELSE IF Full(Bindings \ out) THEN None ELSE s
<1>1. stale \subseteq Bindings /\ \A b \in stale : idleBinding(b)
  BY DEF Stale, Aged
<1>2. \A b \in Oldest(rest) : b \in Bindings /\ idleBinding(b)
  BY DEF Oldest
<1>3. out \subseteq Bindings /\ \A b \in out : idleBinding(b)
  BY <1>1, <1>2
<1>4. found = IF entries[Key[s]] \in stale THEN None ELSE entries[Key[s]]
  BY KeyOf DEF Kept
<1>5. found # None => found \in Bindings /\ found \notin stale /\ found \in Starts
  BY <1>4, KeyOf DEF Bindings, ManagerInv, ManagerTypes
<1>6. found # None => found \notin out
  BY <1>5
<1>7. e = s => Kept(out)[Key[s]] = None /\ Cardinality(Bindings \ out) < MaxSessions
  <2> SUFFICES ASSUME e = s PROVE Kept(out)[Key[s]] = None /\ Cardinality(Bindings \ out) < MaxSessions
    OBVIOUS
  <2>1. found # s
    <3>1. pc[s] = "outside"
      BY DEF Admit
    <3>2. entries[Key[s]] # s
      BY <3>1, KeyOf, CallsAssumption DEF ManagerInv, BindingTrue
    <3> QED BY <1>4, <3>2, CallsAssumption
  <2>2. found = None /\ ~Full(Bindings \ out)
    BY <2>1, CallsAssumption
  <2>3. entries[Key[s]] \in out \/ entries[Key[s]] = None
    BY <1>4, <2>2
  <2>4. IsFiniteSet(Bindings \ out)
    <3>1. Bindings \subseteq Starts
      BY DEF Bindings, ManagerInv, ManagerTypes
    <3>2. Bindings \ out \in SUBSET Starts
      BY <3>1
    <3> QED BY <3>2, FS_Subset, CallsAssumption
  <2>5. Cardinality(Bindings \ out) \in Nat
    BY <2>4, FS_CardinalityType
  <2> HIDE DEF out
  <2>6. Cardinality(Bindings \ out) < MaxSessions
    BY <2>2, <2>5, LimitAssumption DEF Full
  <2> QED BY <2>3, <2>6, KeyOf DEF Kept
<1>8. e # s /\ e # None => e \in Bindings \ out
  BY <1>5, <1>6
<1>9. e \in Starts \cup {None}
  BY <1>5
<1>10. /\ pc[s] = "outside" /\ ~Refuses /\ pc' = [pc EXCEPT ![s] = "closing"]
       /\ expired' = [expired EXCEPT ![s] = {driver[b] : b \in out}]
       /\ bound' = [bound EXCEPT ![s] = e]
       /\ entries' = IF e = s THEN [Kept(out) EXCEPT ![Key[s]] = s] ELSE Kept(out)
       /\ users' = IF e = None THEN users ELSE [users EXCEPT ![e] = @ + 1]
       /\ UNCHANGED <<failed, turn, gate, driver, dstate, broken, endVars>>
  BY DEF Admit, Goto
<1> HIDE DEF out, e
<1>11. Evicts(s, out, e)
  BY <1>3, <1>7, <1>8, <1>10 DEF Evicts, endVars, Refuses
<1> QED BY <1>3, <1>9, <1>11

LEMMA PruneEvicts ==
    ASSUME ManagerInv, NEW c \in Prunes, NEW T \in Aged, BeginPrune(c, T)
    PROVE  \E out \in SUBSET Bindings, e \in Starts \cup {None} : Evicts(c, out, e)
<1>1. Stale(T) \in SUBSET Bindings /\ \A b \in Stale(T) : idleBinding(b)
  BY DEF Stale, Aged
<1>2. c \notin Starts
  BY CallsAssumption
<1>3. PICK out \in SUBSET Bindings : out = Stale(T)
  BY <1>1
<1>4. None # c
  BY CallsAssumption
<1>5. Evicts(c, out, None)
  BY <1>1, <1>2, <1>3, <1>4 DEF BeginPrune, Goto, Evicts, endVars, Refuses
<1> QED BY <1>5

\* The map afterwards.
MapAfter(c, out, e) ==
    /\ entries' \in [Keys -> Starts \cup {None}]
    /\ \A k \in Keys : entries'[k] = (IF e = c /\ k = Key[c] THEN c ELSE IF entries[k] \in out THEN None ELSE entries[k])
    /\ \A b \in Starts : InMap(b)' <=> (b = e /\ e = c) \/ (InMap(b) /\ b \notin out)
    /\ Bindings' = IF e = c THEN (Bindings \ out) \cup {c} ELSE Bindings \ out

LEMMA EvictedMap ==
    ASSUME ManagerInv, NEW c \in Evictors, NEW out \in SUBSET Bindings, NEW e \in Starts \cup {None}, Evicts(c, out, e)
    PROVE  MapAfter(c, out, e)
<1>1. \A k \in Keys : Kept(out)[k] = IF entries[k] \in out THEN None ELSE entries[k]
  BY DEF Kept
<1>2. c # None /\ (e = c => c \in Starts)
  BY CallsAssumption DEF Evictors
<1>3. Kept(out) \in [Keys -> Starts \cup {None}]
  BY DEF Kept, ManagerInv, ManagerTypes
<1>4. entries' \in [Keys -> Starts \cup {None}]
  BY <1>2, <1>3, KeyOf DEF Evicts
<1>5. \A k \in Keys : entries'[k] = (IF e = c /\ k = Key[c] THEN c ELSE IF entries[k] \in out THEN None ELSE entries[k])
  BY <1>1, <1>2, <1>3, KeyOf DEF Evicts
<1>6. e = c => entries[Key[c]] \in out \cup {None}
  BY <1>1, <1>2, KeyOf DEF Evicts
<1>7. ~(c \in Starts /\ InMap(c))
  BY KeyOf, CallsAssumption DEF Evicts, InMap, ManagerInv, BindingTrue
<1>8. e = c => c \in Starts /\ ~InMap(c) /\ \A b \in Starts : Key[b] = Key[c] => b \in out \/ ~InMap(b)
  BY <1>2, <1>6, <1>7, CallsAssumption DEF InMap
<1>9. \A b \in Starts : InMap(b)' <=> (b = e /\ e = c) \/ (InMap(b) /\ b \notin out)
  BY <1>2, <1>5, <1>7, <1>8, KeyOf, CallsAssumption DEF InMap
<1>10. Bindings' = {b \in Starts : InMap(b)'}
  <2>1. \A k \in Keys : entries'[k] # None => entries'[k] \in Starts /\ Key[entries'[k]] = k
    BY <1>2, <1>5 DEF ManagerInv, ManagerTypes, BindingTrue
  <2>2. \A b \in Bindings' : b \in Starts /\ entries'[Key[b]] = b
    BY <2>1 DEF Bindings
  <2>3. \A b \in Starts : entries'[Key[b]] = b => b \in Bindings'
    BY KeyOf, CallsAssumption DEF Bindings
  <2> QED BY <2>2, <2>3 DEF InMap
<1>11. Bindings = {b \in Starts : InMap(b)}
  BY BindingsAre DEF ManagerInv
<1>12. Bindings' = IF e = c THEN (Bindings \ out) \cup {c} ELSE Bindings \ out
  BY <1>2, <1>9, <1>10, <1>11
<1> QED BY <1>4, <1>5, <1>9, <1>12 DEF MapAfter

\* An idle binding has no users, and its driver is at rest.
LEMMA IdleOut ==
    ASSUME ManagerInv, NEW b \in Bindings, idleBinding(b)
    PROVE  /\ b \in Starts /\ InMap(b) /\ driver[b] \in Starts /\ bound[driver[b]] = b
           /\ dstate[driver[b]] \in Rest /\ Users(b) = {}
<1>1. b \in Starts /\ InMap(b)
  BY BindingsAre DEF ManagerInv
<1>2. driver[b] \in Starts /\ bound[driver[b]] = b
  BY <1>1 DEF idleBinding, ManagerInv, ManagerTypes, BindingTrue
<1>3. IsFiniteSet(Users(b))
  BY FS_Subset, CallsAssumption DEF Users
<1>4. Users(b) = {}
  BY <1>1, <1>3, FS_EmptySet DEF idleBinding, ManagerInv, UseTrue
<1> QED BY <1>1, <1>2, <1>4 DEF idleBinding

LEMMA EvictKeeps ==
    ASSUME ManagerInv, NEW c \in Evictors, NEW out \in SUBSET Bindings, NEW e \in Starts \cup {None}, Evicts(c, out, e)
    PROVE  ManagerInv'
<1>0. /\ c \in Calls /\ c \notin Lists /\ c # None /\ (c \in Starts => c \notin Prunes) /\ (c \notin Starts => c \in Prunes)
      /\ Starts \subseteq Calls /\ Prunes \subseteq Calls /\ Lists \subseteq Calls /\ Evictors \subseteq Calls
      /\ Starts \subseteq Evictors /\ None \notin Starts
  BY CallsAssumption DEF Calls, Evictors
<1>1. /\ UNCHANGED <<failed, turn, gate, driver, dstate, broken, closed, cleanupErr, closing, closeSet, closeErr, pool>>
      /\ pc[c] = "outside" /\ ~closed /\ ~cleanupErr /\ e \in Starts \cup {None}
      /\ c \notin Starts => e = None
  BY DEF Evicts
<1>2. pc'[c] = "closing" /\ DOMAIN pc' = Calls /\ \A o \in Calls \ {c} : pc'[o] = pc[o]
  BY <1>0 DEF Evicts, ManagerInv, ManagerTypes
<1>3. /\ bound' \in [Starts -> Starts \cup {None}]
      /\ \A s \in Starts : bound'[s] = IF s = c THEN e ELSE bound[s]
      /\ c \in Starts => bound[c] = None
  BY <1>0 DEF Evicts, ManagerInv, ManagerTypes, BindingTrue
<1>4. \A b \in out : /\ b \in Starts /\ InMap(b) /\ driver[b] \in Starts /\ bound[driver[b]] = b
                     /\ dstate[driver[b]] \in Rest /\ Users(b) = {}
  BY IdleOut DEF Evicts
<1>5. /\ expired' \in [Evictors -> SUBSET Starts]
      /\ expired'[c] = {driver[b] : b \in out} /\ \A o \in Evictors \ {c} : expired'[o] = expired[o]
      /\ expired[c] = {}
  BY <1>1, <1>4 DEF Evicts, ManagerInv, ManagerTypes, EvictTrue
<1>6. /\ entries' \in [Keys -> Starts \cup {None}]
      /\ \A k \in Keys : entries'[k] = (IF e = c /\ k = Key[c] THEN c ELSE IF entries[k] \in out THEN None ELSE entries[k])
      /\ \A b \in Starts : InMap(b)' <=> (b = e /\ e = c) \/ (InMap(b) /\ b \notin out)
      /\ Bindings' = IF e = c THEN (Bindings \ out) \cup {c} ELSE Bindings \ out
  <2>1. MapAfter(c, out, e)
    BY EvictedMap
  <2> QED BY <2>1 DEF MapAfter
<1>7. e # None => pc[e] # "outside" \/ e = c
  BY BindingsAre, KeyOf, <1>0 DEF Evicts, InMap, ManagerInv, BindingTrue
<1>8. users' \in [Starts -> Int]
  BY <1>0 DEF Evicts, ManagerInv, ManagerTypes
<1>9. ManagerTypes'
  <2>1. \A s \in Starts : pc'[s] \in StartLabels
    BY <1>0, <1>2 DEF ManagerInv, ManagerTypes, StartLabels, Using
  <2>2. \A p \in Prunes : pc'[p] \in PruneLabels
    BY <1>0, <1>2 DEF ManagerInv, ManagerTypes, PruneLabels
  <2>3. \A l \in Lists : pc'[l] \in ListLabels
    BY <1>0, <1>2 DEF ManagerInv, ManagerTypes
  <2> QED BY <1>1, <1>2, <1>3, <1>5, <1>6, <1>8, <2>1, <2>2, <2>3 DEF ManagerInv, ManagerTypes
<1>10. BindingTrue'
  <2>1. \A s \in Starts : pc[s] # "outside" => pc'[s] # "outside"
    BY <1>0, <1>2
  <2>2. \A k \in Keys : entries'[k] # None => Key[entries'[k]] = k /\ pc'[entries'[k]] # "outside"
    BY <1>2, <1>6, <2>1 DEF ManagerInv, ManagerTypes, BindingTrue
  <2>3. \A s \in Starts : bound'[s] # None => pc'[s] # "outside" /\ pc'[bound'[s]] # "outside"
    BY <1>2, <1>3, <1>7, <2>1 DEF ManagerInv, ManagerTypes, BindingTrue
  <2>4. \A s \in Starts : driver'[s] # None => bound'[driver'[s]] = s /\ dstate'[driver'[s]] # "none"
    <3>1. \A s \in Starts : driver[s] # None => driver[s] \in Starts /\ bound[driver[s]] = s /\ driver[s] # c
      BY <1>0, <1>3 DEF ManagerInv, ManagerTypes, BindingTrue
    <3> QED BY <1>1, <1>3, <3>1 DEF ManagerInv, BindingTrue
  <2>5. \A s \in Starts : dstate'[s] # "none" => bound'[s] # None /\ driver'[bound'[s]] = s
    BY <1>1, <1>3 DEF ManagerInv, BindingTrue
  <2> QED BY <2>2, <2>3, <2>4, <2>5 DEF BindingTrue
<1>11. GateTrue'
  <2>1. \A s \in Starts : pc'[s] \in Using \ {"closing"} => s # c /\ pc'[s] = pc[s] /\ bound'[s] = bound[s]
    BY <1>0, <1>2, <1>3
  <2>2. Gated \subseteq Using \ {"closing"} /\ {"creating", "calling", "starting"} \subseteq Gated
    BY DEF Gated, Using
  <2>3. \A s \in Starts : turn'[s] = "live" => bound'[s] = bound[s]
    BY <1>0, <1>1, <1>3 DEF ManagerInv, GateTrue
  <2> QED BY <1>1, <2>1, <2>2, <2>3 DEF ManagerInv, GateTrue
<1>12. UseTrue'
  <2>1. "closing" \in Using /\ "outside" \notin Using
    BY DEF Using
  <2>2. \A b \in Starts : Users(b)' = IF b = e THEN Users(b) \cup {c} ELSE Users(b)
    BY <1>0, <1>1, <1>2, <1>3, <2>1 DEF Users
  <2>3. \A b \in Starts : IsFiniteSet(Users(b)) /\ c \notin Users(b)
    <3>1. \A b \in Starts : Users(b) \subseteq Starts
      BY DEF Users
    <3>2. \A b \in Starts : c \notin Users(b)
      BY <1>1, <2>1 DEF Users
    <3> QED BY <3>1, <3>2, FS_Subset, CallsAssumption
  <2>4. \A b \in Starts : Cardinality(Users(b) \cup {c}) = Cardinality(Users(b)) + 1
    BY <2>3, FS_AddElement
  <2>5. \A b \in Starts : users'[b] = IF b = e THEN users[b] + 1 ELSE users[b]
    BY <1>0 DEF Evicts, ManagerInv, ManagerTypes
  <2>6. \A b \in Starts : users'[b] = Cardinality(Users(b))'
    BY <2>2, <2>4, <2>5 DEF ManagerInv, UseTrue
  <2>7. \A s \in Starts : pc'[s] \in Using /\ bound'[s] # None => InMap(bound[s])'
    <3>1. ASSUME NEW s \in Starts, s # c, pc'[s] \in Using, bound'[s] # None PROVE InMap(bound[s])'
      <4>1. pc[s] \in Using /\ bound[s] \in Starts /\ InMap(bound[s]) /\ s \in Users(bound[s]) /\ bound'[s] = bound[s]
        BY <1>0, <1>2, <1>3, <3>1 DEF ManagerInv, ManagerTypes, UseTrue, Users
      <4>2. bound[s] \notin out
        BY <1>4, <4>1
      <4>3. PICK b \in Starts : b = bound[s]
        BY <4>1
      <4>4. InMap(b)'
        BY <1>6, <4>1, <4>2, <4>3
      <4> QED BY <4>1, <4>3, <4>4 DEF InMap
    <3>2. ASSUME c \in Starts, e # None PROVE InMap(bound[c])'
      <4>1. e \in Starts /\ bound'[c] = e
        BY <1>3, <3>2
      <4>2. CASE e = c
        BY <1>6, <4>1, <4>2 DEF InMap
      <4>3. CASE e # c
        <5>1. e \in Bindings \ out /\ InMap(e)
          BY <3>2, <4>3, BindingsAre DEF Evicts, ManagerInv
        <5> QED BY <1>6, <4>1, <4>3, <5>1 DEF InMap
      <4> QED BY <4>2, <4>3
    <3> QED BY <1>3, <3>1, <3>2
  <2> QED BY <2>6, <2>7 DEF UseTrue
<1>13. EvictTrue'
  <2>1. \A o \in Evictors : pc'[o] # "closing" => expired'[o] = {}
    BY <1>0, <1>2, <1>5 DEF ManagerInv, EvictTrue
  <2>2. ASSUME NEW o \in Evictors, NEW d \in expired[o], o # c
        PROVE  /\ d \in Starts /\ dstate'[d] \in Rest /\ d \notin expired'[c] /\ ~InMap(bound[d])'
               /\ \A p \in Evictors : d \in expired'[p] => p = o
    <3>1. d \in Starts /\ dstate[d] \in Rest /\ ~InMap(bound[d]) /\ \A p \in Evictors : d \in expired[p] => p = o
      BY DEF ManagerInv, ManagerTypes, EvictTrue
    <3>2. dstate[d] # "none" /\ bound[d] \in Starts /\ pc[bound[d]] # "outside" /\ d # c /\ driver[bound[d]] = d
      BY <1>1, <3>1 DEF Rest, ManagerInv, ManagerTypes, BindingTrue
    <3>3. PICK b \in Starts : b = bound[d]
      BY <3>2
    <3>4. ~InMap(b)'
      BY <1>1, <1>6, <3>1, <3>2, <3>3
    <3>5. ~InMap(bound[d])'
      BY <1>3, <3>1, <3>2, <3>3, <3>4 DEF InMap
    <3>6. d \notin expired'[c]
      BY <1>4, <1>5, <3>1
    <3> QED BY <1>1, <1>5, <3>1, <3>5, <3>6
  <2>3. ASSUME NEW d \in expired'[c]
        PROVE  /\ d \in Starts /\ dstate'[d] \in Rest /\ ~InMap(bound[d])' /\ \A p \in Evictors : d \in expired'[p] => p = c
    <3>1. PICK b \in out : d = driver[b]
      BY <1>5
    <3>2. d \in Starts /\ bound[d] = b /\ b \in Starts /\ InMap(b) /\ d # c
      BY <1>0, <1>3, <1>4, <3>1
    <3>3. ~InMap(b)'
      BY <1>1, <1>6, <3>1, <3>2, KeyOf, <1>0 DEF InMap, ManagerInv, BindingTrue
    <3>4. ~InMap(bound[d])'
      BY <1>3, <3>2, <3>3 DEF InMap
    <3>5. \A p \in Evictors : d \in expired'[p] => p = c
      BY <2>2, <1>5
    <3> QED BY <1>1, <1>4, <3>1, <3>2, <3>4, <3>5
  <2> QED BY <1>5, <2>1, <2>2, <2>3 DEF EvictTrue
<1>14. OpenTrue'
  <2> SUFFICES ASSUME NEW d \in Starts, dstate[d] \in {"unstarted", "idle", "busy"}
               PROVE  InMap(bound[d])' \/ (\E o \in Evictors : d \in expired'[o]) \/ d \in closeSet
    BY <1>1 DEF OpenTrue
  <2>1. bound[d] \in Starts /\ driver[bound[d]] = d /\ d # c /\ bound'[d] = bound[d]
    BY <1>0, <1>3 DEF ManagerInv, ManagerTypes, BindingTrue
  <2>2. CASE InMap(bound[d]) /\ bound[d] \notin out
    <3>1. PICK b \in Starts : b = bound[d]
      BY <2>1
    <3>2. InMap(b)'
      BY <1>6, <2>2, <3>1
    <3> QED BY <2>1, <3>1, <3>2 DEF InMap
  <2>3. CASE bound[d] \in out
    BY <1>5, <2>1, <2>3
  <2>4. CASE \E o \in Evictors : d \in expired[o]
    BY <1>5, <2>4
  <2> QED BY <2>2, <2>3, <2>4 DEF ManagerInv, OpenTrue
<1>15. SizeTrue'
  <2>1. Bindings \subseteq Starts
    BY DEF Bindings, ManagerInv, ManagerTypes
  <2>2. Bindings \ out \in SUBSET Bindings /\ IsFiniteSet(Bindings)
    BY <2>1, FS_Subset, CallsAssumption
  <2>3. IsFiniteSet(Bindings \ out) /\ Cardinality(Bindings \ out) <= Cardinality(Bindings)
    BY <2>2, FS_Subset
  <2>4. Cardinality(Bindings) \in Nat /\ Cardinality(Bindings \ out) \in Nat
    BY <2>2, <2>3, FS_CardinalityType
  <2>5. CASE e # c
    <3>1. Cardinality(Bindings \ out) <= MaxSessions
      BY <2>3, <2>4, LimitAssumption DEF ManagerInv, SizeTrue
    <3> QED BY <1>6, <2>5, <3>1 DEF SizeTrue
  <2>6. CASE e = c
    <3>1. Cardinality(Bindings \ out) < MaxSessions
      BY <2>6 DEF Evicts
    <3>2. c \notin Bindings
      BY <1>1, BindingsAre, KeyOf, <1>0 DEF InMap, ManagerInv, BindingTrue
    <3>3. Cardinality((Bindings \ out) \cup {c}) = Cardinality(Bindings \ out) + 1
      BY <2>3, <3>2, FS_AddElement
    <3>4. Cardinality((Bindings \ out) \cup {c}) <= MaxSessions
      BY <2>4, <3>1, <3>3, LimitAssumption
    <3> QED BY <1>6, <2>6, <3>4 DEF SizeTrue
  <2> QED BY <2>5, <2>6
<1>16. CloseTrue'
  <2>1. closing \notin After
    BY <1>1 DEF ManagerInv, CloseTrue, After
  <2> QED BY <1>1, <2>1 DEF ManagerInv, CloseTrue
<1>17. ErrTrue'
  <2>1. failed \subseteq Calls
    BY <1>0 DEF ManagerInv, ManagerTypes
  <2> QED BY <1>1, <1>2, <2>1 DEF ManagerInv, ErrTrue
<1> QED BY <1>9, <1>10, <1>11, <1>12, <1>13, <1>14, <1>15, <1>16, <1>17 DEF ManagerInv

----------------------------------------------------------------------------
(* Close.                                                                  *)

LEMMA BeginCloseKeeps ==
    ASSUME ManagerInv, BeginClose
    PROVE  ManagerInv'
<1>1. /\ UNCHANGED <<pc, bound, expired, failed, turn, entries, users, gate, driver, dstate, broken, cleanupErr, closeSet, closeErr, pool>>
      /\ closing = "no" /\ closing' = "waiting" /\ closed' = TRUE
  BY DEF BeginClose, callVars, mapVars
<1>2. ManagerTypes' /\ BindingTrue' /\ GateTrue'
  BY <1>1 DEF ManagerInv, ManagerTypes, BindingTrue, GateTrue
<1>3. UseTrue' /\ EvictTrue' /\ OpenTrue' /\ SizeTrue'
  BY <1>1 DEF ManagerInv, UseTrue, Users, InMap, EvictTrue, OpenTrue, SizeTrue, Bindings
<1>4. CloseTrue' /\ ErrTrue'
  BY <1>1 DEF ManagerInv, CloseTrue, ErrTrue, After
<1> QED BY <1>2, <1>3, <1>4 DEF ManagerInv

\* The calls are over, so that nothing is evicted and no failure is pending.
LEMMA CollectKeeps ==
    ASSUME ManagerInv, Collect
    PROVE  ManagerInv'
<1>1. /\ UNCHANGED <<pc, bound, expired, failed, turn, users, gate, driver, dstate, broken, closed, cleanupErr, pool>>
      /\ closing = "waiting" /\ closing' = "drivers" /\ closeErr' = cleanupErr /\ StartsOut = {}
      /\ closeSet' = {driver[b] : b \in Bindings} \ {None} /\ entries' = [k \in Keys |-> None]
  BY DEF Collect, callVars
<1>2. \A c \in Calls : pc[c] \in {"outside", "done"}
  BY <1>1 DEF StartsOut
<1>3. \A s \in Starts : pc[s] \notin Using
  BY <1>2 DEF Calls, Using
<1>4. \A c \in Evictors : expired[c] = {}
  BY <1>2 DEF ManagerInv, EvictTrue, Evictors, Calls
<1>5. closeSet' \subseteq Starts
  <2>1. Bindings \subseteq Starts
    BY DEF Bindings, ManagerInv, ManagerTypes
  <2> QED BY <1>1, <2>1 DEF ManagerInv, ManagerTypes
<1>6. ManagerTypes'
  BY <1>1, <1>5 DEF ManagerInv, ManagerTypes, After
<1>7. BindingTrue' /\ GateTrue'
  BY <1>1 DEF ManagerInv, BindingTrue, GateTrue
<1>8. UseTrue' /\ EvictTrue'
  BY <1>1, <1>3, <1>4 DEF ManagerInv, UseTrue, Users, EvictTrue
<1>9. OpenTrue'
  <2> SUFFICES ASSUME NEW d \in Starts, dstate[d] \in {"unstarted", "idle", "busy"}
               PROVE  d \in closeSet'
    BY <1>1 DEF OpenTrue
  <2>1. InMap(bound[d])
    BY <1>1, <1>4 DEF ManagerInv, OpenTrue, CloseTrue
  <2>2. bound[d] \in Bindings /\ driver[bound[d]] = d
    BY <2>1, BindingsAre DEF ManagerInv, BindingTrue, InMap
  <2> QED BY <1>1, <2>2, CallsAssumption
<1>10. SizeTrue'
  <2>1. Bindings' = {}
    BY <1>1 DEF Bindings
  <2> QED BY <2>1, FS_EmptySet, LimitAssumption DEF SizeTrue
<1>11. CloseTrue'
  <2>1. \A d \in closeSet' : dstate[d] # "none"
    BY <1>1 DEF ManagerInv, ManagerTypes, BindingTrue, Bindings
  <2>2. StartsOut' = {}
    BY <1>1 DEF StartsOut
  <2> QED BY <1>1, <2>1, <2>2 DEF ManagerInv, CloseTrue, After
<1>12. ErrTrue'
  <2>1. failed \subseteq Calls
    BY DEF ManagerInv, ManagerTypes, Evictors, Calls
  <2>2. failed # {} <=> cleanupErr
    BY <1>2, <2>1 DEF ManagerInv, ErrTrue
  <2>3. failed # {} <=> broken # {}
    BY <1>1 DEF ManagerInv, ErrTrue
  <2> QED BY <1>1, <2>2, <2>3 DEF ManagerInv, ErrTrue, After
<1> QED BY <1>6, <1>7, <1>8, <1>9, <1>10, <1>11, <1>12 DEF ManagerInv

\* A driver, the discovery driver or the pool is closed.
LEMMA ClosesKeep ==
    ASSUME ManagerInv, NEW fault \in BOOLEAN,
           CloseDiscovery(fault) \/ ClosePool(fault) \/ \E d \in Starts : CloseDriver(d, fault)
    PROVE  ManagerInv'
<1>1. /\ UNCHANGED <<pc, bound, expired, failed, turn, entries, users, gate, driver, closed, cleanupErr>>
      /\ closing \in After /\ closing' \in After
      /\ closeErr' = (closeErr \/ fault) /\ (broken' = broken \/ broken' # {})
      /\ fault => broken' # {}
      /\ ~fault => broken' = broken
  BY DEF CloseDiscovery, ClosePool, CloseDriver, Cleanup, callVars, mapVars, After
<1>2. /\ \A c \in Calls : pc[c] \in {"outside", "done"}
      /\ closed /\ \A k \in Keys : entries[k] = None
  BY <1>1 DEF ManagerInv, CloseTrue, StartsOut, After
<1>3. \A c \in Evictors : expired[c] = {}
  BY <1>2 DEF ManagerInv, EvictTrue, Evictors, Calls
<1>4. Discovery \in Drivers /\ Starts \subseteq Drivers /\ Discovery \notin Starts
  BY CallsAssumption DEF Drivers
<1>5. \A d \in Starts : ~InMap(bound[d])
  BY <1>2, KeyOf, CallsAssumption DEF InMap
<1>6. \A d \in Starts : (dstate'[d] = "none" <=> dstate[d] = "none") /\ (dstate'[d] = dstate[d] \/ dstate'[d] = "closed")
  <2>1. CASE CloseDiscovery(fault) \/ ClosePool(fault)
    BY <1>4, <2>1 DEF CloseDiscovery, ClosePool, ManagerInv, ManagerTypes
  <2>2. CASE \E d \in Starts : CloseDriver(d, fault)
    <3>1. PICK d \in Starts : CloseDriver(d, fault)
      BY <2>2
    <3>2. dstate[d] # "none"
      BY <3>1 DEF CloseDriver, ManagerInv, CloseTrue
    <3> QED BY <1>4, <3>1, <3>2 DEF CloseDriver, ManagerInv, ManagerTypes
  <2> QED BY <2>1, <2>2
<1>7. ManagerTypes'
  <2>1. dstate' \in [Drivers -> States]
    BY <1>4 DEF CloseDiscovery, ClosePool, CloseDriver, ManagerInv, ManagerTypes, States
  <2>2. closeErr' \in BOOLEAN
    BY <1>1 DEF ManagerInv, ManagerTypes
  <2>3. closeSet' \subseteq Starts /\ pool' \in {"open", "closed"}
    BY DEF CloseDiscovery, ClosePool, CloseDriver, ManagerInv, ManagerTypes
  <2> QED BY <1>1, <2>1, <2>2, <2>3 DEF ManagerInv, ManagerTypes
<1>8. BindingTrue'
  <2>1. \A s \in Starts : driver[s] # None => driver[s] \in Starts
    BY DEF ManagerInv, ManagerTypes
  <2> QED BY <1>1, <1>6, <2>1 DEF ManagerInv, BindingTrue
<1>9. GateTrue' /\ UseTrue' /\ SizeTrue'
  BY <1>1 DEF ManagerInv, GateTrue, UseTrue, Users, InMap, SizeTrue, Bindings
<1>10. EvictTrue'
  BY <1>1, <1>3 DEF EvictTrue
<1>11. OpenTrue'
  <2> SUFFICES ASSUME NEW d \in Starts, dstate'[d] \in {"unstarted", "idle", "busy"}
               PROVE  d \in closeSet'
    BY DEF OpenTrue
  <2>1. dstate[d] \in {"unstarted", "idle", "busy"} /\ d \in closeSet
    BY <1>3, <1>5, <1>6 DEF ManagerInv, OpenTrue
  <2>2. CASE CloseDiscovery(fault) \/ ClosePool(fault)
    BY <2>1, <2>2 DEF CloseDiscovery, ClosePool
  <2>3. CASE \E o \in Starts : CloseDriver(o, fault)
    <3>1. PICK o \in Starts : CloseDriver(o, fault)
      BY <2>3
    <3>2. d # o
      BY <1>4, <3>1 DEF CloseDriver, ManagerInv, ManagerTypes
    <3> QED BY <2>1, <3>1, <3>2 DEF CloseDriver
  <2> QED BY <2>2, <2>3
<1>12. CloseTrue'
  <2>1. StartsOut' = {} /\ \A k \in Keys : entries'[k] = None
    BY <1>1, <1>2 DEF StartsOut
  <2>2. CASE CloseDiscovery(fault)
    BY <1>1, <1>2, <1>4, <2>1, <2>2 DEF CloseDiscovery, ManagerInv, ManagerTypes, CloseTrue, After
  <2>3. CASE ClosePool(fault)
    BY <1>1, <1>2, <2>1, <2>3 DEF ClosePool, ManagerInv, ManagerTypes, CloseTrue, After
  <2>4. CASE \E d \in Starts : CloseDriver(d, fault)
    <3>1. dstate'[Discovery] = dstate[Discovery] /\ closing = "drivers" /\ closing' = closing /\ pool' = pool
      BY <1>4, <2>4 DEF CloseDriver, ManagerInv, ManagerTypes
    <3>2. \A d \in closeSet' : dstate'[d] # "none"
      BY <1>6, <2>4 DEF CloseDriver, ManagerInv, ManagerTypes, CloseTrue
    <3> QED BY <1>1, <1>2, <2>1, <3>1, <3>2 DEF ManagerInv, CloseTrue, After
  <2> QED BY <2>2, <2>3, <2>4
<1>13. ErrTrue'
  BY <1>1 DEF ManagerInv, ErrTrue, After
<1> QED BY <1>7, <1>8, <1>9, <1>10, <1>11, <1>12, <1>13 DEF ManagerInv

----------------------------------------------------------------------------

LEMMA InvInit == Init => ManagerInv
<1> SUFFICES ASSUME Init PROVE ManagerInv
  OBVIOUS
<1>1. ManagerTypes
  <2>1. \A s \in Calls : pc[s] = "outside"
    BY DEF Init
  <2>2. /\ \A s \in Starts : pc[s] \in StartLabels
        /\ \A c \in Prunes : pc[c] \in PruneLabels
        /\ \A c \in Lists : pc[c] \in ListLabels
    BY <2>1 DEF Calls, StartLabels, PruneLabels, ListLabels
  <2>3. dstate \in [Drivers -> States]
    BY DEF Init, States
  <2>4. /\ bound \in [Starts -> Starts \cup {None}] /\ driver \in [Starts -> Starts \cup {None}]
        /\ expired \in [Evictors -> SUBSET Starts] /\ entries \in [Keys -> Starts \cup {None}]
    BY DEF Init, Evictors
  <2>5. users \in [Starts -> Int] /\ gate \in [Starts -> BOOLEAN]
    BY DEF Init
  <2>6. turn \in [Starts -> {"none", "live", "touch", "over"}]
    BY DEF Init
  <2> QED BY <2>2, <2>3, <2>4, <2>5, <2>6 DEF Init, ManagerTypes
<1>2. BindingTrue
  BY CallsAssumption DEF Init, BindingTrue, Drivers
<1>3. GateTrue
  BY DEF Init, GateTrue, Calls, Using, Gated
<1>4. UseTrue
  <2>1. \A b \in Starts : Users(b) = {}
    BY CallsAssumption DEF Init, Users
  <2> QED BY <2>1, FS_EmptySet DEF Init, UseTrue
<1>5. EvictTrue /\ OpenTrue
  BY CallsAssumption DEF Init, EvictTrue, OpenTrue, Evictors, Drivers
<1>6. SizeTrue
  <2>1. Bindings = {}
    BY DEF Init, Bindings
  <2> QED BY <2>1, FS_EmptySet, LimitAssumption DEF SizeTrue
<1>7. CloseTrue /\ ErrTrue
  BY DEF Init, CloseTrue, ErrTrue, After, Drivers
<1> QED BY <1>1, <1>2, <1>3, <1>4, <1>5, <1>6, <1>7 DEF ManagerInv

LEMMA InvKeeps == ManagerInv /\ [Next]_vars => ManagerInv'
<1> SUFFICES ASSUME ManagerInv, [Next]_vars PROVE ManagerInv'
  OBVIOUS
<1>0. /\ \A c \in Calls : c \notin Lists => c \in Evictors
      /\ \A s \in Starts : s \in Calls /\ s \in Evictors
      /\ \A s \in Prunes : s \in Calls /\ s \in Evictors
      /\ \A s \in Lists : s \in Calls
  BY DEF Calls, Evictors
<1>1. CASE Arrive
  <2>1. ASSUME NEW s \in Starts, NEW T \in Aged, Admit(s, T) PROVE ManagerInv'
    BY <1>0, <2>1, AdmitEvicts, EvictKeeps
  <2>2. ASSUME NEW c \in Prunes, NEW T \in Aged, BeginPrune(c, T) PROVE ManagerInv'
    BY <1>0, <2>2, PruneEvicts, EvictKeeps
  <2> QED BY <1>0, <1>1, <2>1, <2>2, MovesKeep, BeginCloseKeeps DEF Arrive
<1>2. CASE CloseStep
  BY <1>2, CollectKeeps, ClosesKeep DEF CloseStep
<1>3. CASE Driven
  BY <1>3, DriverKeeps DEF Driven
<1>4. ASSUME NEW c \in Calls, Step(c) PROVE ManagerInv'
  BY <1>0, <1>4, IdleKeeps, ExpiredKeeps, GatesKeep, CreateKeeps, UnuseKeeps, MovesKeep, DriverKeeps DEF Step
<1>5. ASSUME NEW s \in Starts, Call(s) PROVE ManagerInv'
  BY <1>0, <1>5, MovesKeep, DriverKeeps DEF Call
<1>6. CASE UNCHANGED vars
  <2>1. UNCHANGED <<pc, bound, expired, failed, turn, entries, users, gate, driver, dstate, broken, closed, cleanupErr, closing,
                    closeSet, closeErr, pool>>
    BY <1>6 DEF vars, callVars, mapVars, endVars
  <2>2. ManagerTypes' /\ BindingTrue' /\ GateTrue'
    BY <2>1 DEF ManagerInv, ManagerTypes, BindingTrue, GateTrue
  <2>3. UseTrue' /\ EvictTrue' /\ OpenTrue' /\ SizeTrue'
    BY <2>1 DEF ManagerInv, UseTrue, Users, InMap, EvictTrue, OpenTrue, SizeTrue, Bindings
  <2>4. CloseTrue' /\ ErrTrue'
    BY <2>1 DEF ManagerInv, CloseTrue, ErrTrue, StartsOut
  <2> QED BY <2>2, <2>3, <2>4 DEF ManagerInv
<1> QED BY <1>1, <1>2, <1>3, <1>4, <1>5, <1>6 DEF Next, Ended

LEMMA InvAlways == Spec => []ManagerInv
BY InvInit, InvKeeps, PTL DEF Spec

----------------------------------------------------------------------------
(* Theorems.                                                               *)

\* A driver that Start or Prune has evicted is at rest, and no Start is inside it, until the call
\* that evicted it closes it without the manager's lock: the users count keeps a binding in the map.
THEOREM EvictedHolds == Spec => []EvictedRest
<1>1. ASSUME ManagerInv PROVE EvictedRest
  <2>1. ASSUME NEW c \in Evictors, NEW d \in expired[c]
        PROVE  /\ dstate[d] \in Rest
               /\ \A s \in Starts : pc[s] \in {"holding", "creating", "calling", "starting"} => Held(s) # d
    <3>1. d \in Starts /\ dstate[d] \in Rest /\ ~InMap(bound[d])
      BY <1>1 DEF ManagerInv, ManagerTypes, EvictTrue
    <3>2. ASSUME NEW s \in Starts, pc[s] \in {"holding", "creating", "calling", "starting"}, Held(s) = d PROVE FALSE
      <4>1. bound[s] \in Starts /\ InMap(bound[s])
        BY <1>1, <3>2, CallsAssumption DEF ManagerInv, ManagerTypes, GateTrue, UseTrue, Using
      <4>2. bound[d] = bound[s]
        BY <1>1, <3>1, <3>2, <4>1, CallsAssumption DEF Held, ManagerInv, BindingTrue
      <4> QED BY <3>1, <4>1, <4>2
    <3> QED BY <3>1, <3>2
  <2>2. cleanupErr \/ failed # {} => broken # {}
    BY <1>1 DEF ManagerInv, ErrTrue
  <2> QED BY <2>1, <2>2 DEF EvictedRest, Evictors
<1> QED BY <1>1, InvAlways, PTL

\* The map stays within MaxSessions, and an open driver has one owner: its binding in the map, one
\* call that has evicted it, or Close.
THEOREM OwnerHolds == Spec => []DriverOwned
<1>1. ASSUME ManagerInv PROVE DriverOwned
  <2>1. ASSUME NEW d \in Starts, dstate[d] \in {"unstarted", "idle", "busy"}
        PROVE  Cardinality({b \in Bindings : driver[b] = d})
                 + Cardinality({c \in Starts \cup Prunes : d \in expired[c]})
                 + (IF d \in closeSet THEN 1 ELSE 0) = 1
    <3> DEFINE B == {b \in Bindings : driver[b] = d}
               C == {c \in Starts \cup Prunes : d \in expired[c]}
    <3>1. bound[d] \in Starts /\ driver[bound[d]] = d
      BY <1>1, <2>1 DEF ManagerInv, ManagerTypes, BindingTrue
    <3>2. B = IF InMap(bound[d]) THEN {bound[d]} ELSE {}
      <4>1. Bindings = {b \in Starts : InMap(b)}
        BY <1>1, BindingsAre DEF ManagerInv
      <4>2. \A b \in B : b = bound[d]
        BY <1>1, <4>1, CallsAssumption DEF ManagerInv, BindingTrue
      <4> QED BY <3>1, <4>1, <4>2
    <3>3. \A c, o \in C : c = o /\ ~InMap(bound[d])
      BY <1>1 DEF ManagerInv, EvictTrue, Evictors
    <3>4. d \in closeSet => C = {} /\ ~InMap(bound[d])
      <4>1. ASSUME d \in closeSet PROVE C = {} /\ ~InMap(bound[d])
        <5>1. StartsOut = {} /\ \A k \in Keys : entries[k] = None
          BY <1>1, <4>1 DEF ManagerInv, CloseTrue, After
        <5>2. C = {}
          BY <1>1, <5>1 DEF StartsOut, ManagerInv, EvictTrue, Evictors, Calls
        <5> QED BY <5>1, <5>2, KeyOf, CallsAssumption DEF InMap
      <4> QED BY <4>1
    <3>5. C = {} \/ \E c \in C : C = {c}
      BY <3>3
    <3>6. \A x : Cardinality({x}) = 1
      BY FS_Singleton
    <3>7. Cardinality({}) = 0
      BY FS_EmptySet
    <3>8. InMap(bound[d]) \/ C # {} \/ d \in closeSet
      BY <1>1, <2>1 DEF ManagerInv, OpenTrue, Evictors
    <3> HIDE DEF B, C
    <3>9. CASE InMap(bound[d])
      <4>1. Cardinality(B) = 1 /\ C = {} /\ d \notin closeSet
        BY <3>2, <3>3, <3>4, <3>6, <3>9
      <4>2. Cardinality(C) = 0
        BY <3>7, <4>1
      <4> QED BY <4>1, <4>2 DEF B, C
    <3>10. CASE ~InMap(bound[d]) /\ C # {}
      <4>1. B = {} /\ Cardinality(C) = 1 /\ d \notin closeSet
        BY <3>2, <3>4, <3>5, <3>6, <3>10
      <4>2. Cardinality(B) = 0
        BY <3>7, <4>1
      <4> QED BY <4>1, <4>2 DEF B, C
    <3>11. CASE ~InMap(bound[d]) /\ C = {}
      <4>1. B = {} /\ d \in closeSet
        BY <3>2, <3>8, <3>11
      <4>2. Cardinality(B) = 0 /\ Cardinality(C) = 0
        BY <3>7, <3>11, <4>1
      <4> QED BY <4>1, <4>2 DEF B, C
    <3> QED BY <3>9, <3>10, <3>11
  <2>2. Cardinality(Bindings) <= MaxSessions
    BY <1>1 DEF ManagerInv, SizeTrue
  <2> QED BY <2>1, <2>2 DEF DriverOwned
<1> QED BY <1>1, InvAlways, PTL

\* When Close returns no call is under way and every driver is closed; the pool and the discovery
\* driver are not used after they were closed; the error of Close tells whether a cleanup failed.
THEOREM CloseHolds == Spec => []CloseOrder
<1>1. ASSUME ManagerInv PROVE CloseOrder
  <2>1. ASSUME closing \in {"pool", "done"}
        PROVE  StartsOut = {} /\ \A d \in Drivers : dstate[d] \in {"none", "closed"}
    <3>1. /\ StartsOut = {} /\ closeSet = {} /\ dstate[Discovery] = "closed"
          /\ \A k \in Keys : entries[k] = None
      BY <1>1, <2>1 DEF ManagerInv, CloseTrue, After
    <3>2. \A c \in Evictors : expired[c] = {}
      BY <1>1, <3>1 DEF StartsOut, ManagerInv, EvictTrue, Evictors, Calls
    <3>3. \A d \in Starts : ~InMap(bound[d])
      BY <3>1, KeyOf, CallsAssumption DEF InMap
    <3>4. \A d \in Starts : dstate[d] \notin {"unstarted", "idle", "busy"}
      BY <1>1, <3>1, <3>2, <3>3 DEF ManagerInv, OpenTrue
    <3> QED BY <1>1, <3>1, <3>4 DEF ManagerInv, ManagerTypes, Drivers, States
  <2>2. ASSUME pool = "closed" \/ dstate[Discovery] = "closed"
        PROVE  \A c \in Calls : pc[c] \notin {"pooling", "discovering"}
    <3>1. closing \in {"pool", "done"}
      BY <1>1, <2>2 DEF ManagerInv, ManagerTypes, CloseTrue, After
    <3> QED BY <2>1, <3>1 DEF StartsOut
  <2>3. closing = "done" => (closeErr <=> broken # {})
    BY <1>1 DEF ManagerInv, ErrTrue, After
  <2> QED BY <2>1, <2>2, <2>3 DEF CloseOrder
<1> QED BY <1>1, InvAlways, PTL
=============================================================================
