------------------------ MODULE SessionDriverProofs ------------------------
(***************************************************************************)
(* Proofs about SessionDriver, for any requests, Models callers and        *)
(* faults, and about History, for any messages, requests and limits.       *)
(***************************************************************************)
EXTENDS SessionDriver, History, SequenceTheorems, FiniteSetTheorems, TLAPS

----------------------------------------------------------------------------
(* The inductive invariant.                                                *)

Someone == Callers \cup {Nobody}
Anything == Launches \cup {Nobody}

\* Where a Start or a Models is before it owns the setup, while it does, and after.
Before == {"outside", "entered", "awaiting", "checking", "routing", "retiring", "planning",
           "preparing"}
Within == {"reusing", "retiringOld", "listening", "acquiring", "draining", "starting", "refreshed",
           "failing", "discarding", "resetting"}
After  == {"discarded", "round", "ended", "settling", "over"}
Places == Before \cup Within \cup After

States == {"unstarted", "idle", "starting", "prompting", "waiting", "closed"}

DriverTypes ==
    d \in [state : States, closed : BOOLEAN, client : Anything, relay : Anything,
           current : Someone, outcome : Someone, fresh : BOOLEAN, snapshot : Someone,
           cleanupErr : BOOLEAN, known : BOOLEAN, setup : Anything]

ActorTypes ==
    actor \in [Actors -> [pc : Places, kind : {"new", "results", "changed", "denial"},
                          about : Someone, number : Nat, base : Someone, reuse : BOOLEAN,
                          reused : BOOLEAN, client : Anything, prev : Anything,
                          prevRelay : Anything, count : Nat, setup : BOOLEAN, turn : Someone,
                          batch : Nat]]

TurnTypes ==
    turn \in [Callers -> [settle : {"none", "open", "relay", "client", "join", "completing",
                                    "done"},
                          prompt : {"none", "running", "ok", "failed"},
                          delivery : {"nil", "open", "closed"}, ids : Nat, batches : Nat,
                          expired : BOOLEAN, client : Anything, relay : Anything,
                          base : Someone, count : Nat]]

LaunchTypes ==
    /\ relay \in [Launches -> {"none", "open", "failed", "closed"}]
    /\ call \in [Launches -> {"none", "queued", "sealed", "delivered"}]
    /\ proc \in [Launches -> {"none", "up", "dead", "released"}]
    /\ holds \in [Launches -> Someone]

OtherTypes ==
    /\ watcher \in [Launches -> [pc : {"off", "watching", "aborting", "closing", "done"},
                                 current : Someone, relay : Anything]]
    /\ closer \in [pc : {"no", "aborting", "joining", "done"}, setup : Anything,
                   current : Someone, client : Anything, relay : Anything]
    /\ evictor \in [pc : {"no", "closing", "joining", "done"}, client : Anything,
                    relay : Anything]

DriverTypeOK == DriverTypes /\ ActorTypes /\ TurnTypes /\ LaunchTypes /\ OtherTypes

InSetup(a) == actor[a].pc \in Within
Active(t) == turn[t].settle \notin {"none", "done"}

\* A process, or a relay, that needs no owner any more.
GoneP(x) == x # Nobody => proc[x] \in {"dead", "released"}
GoneR(x) == x # Nobody => relay[x] = "closed"

\* One setup at a time.  A setup excludes a turn, and Close knows which one to wait for.
SetupTrue ==
    /\ \A a, b \in Actors : InSetup(a) /\ InSetup(b) => a = b
    /\ \A a \in Actors : InSetup(a) =>
          /\ d.setup = a /\ actor[a].setup /\ d.current = Nobody
          /\ ~d.closed => d.state = "starting"
          /\ d.closed => /\ closer.pc \in {"aborting", "joining"} /\ closer.setup = a
                         /\ evictor.pc = "no"
    /\ d.closed <=> closer.pc # "no" \/ evictor.pc # "no"
    /\ d.closed <=> d.state = "closed"

\* The driver's current turn is the one that is not settled.
TurnTrue ==
    /\ \A t \in Callers : Active(t) <=> d.current = t
    /\ ~d.closed => (d.current # Nobody <=> d.state \in {"prompting", "waiting"})
    /\ \A t \in Callers :
          /\ turn[t].prompt = "running" => Active(t)
          /\ turn[t].settle = "completing" => turn[t].prompt = "ok"
          /\ turn[t].settle # "none" => actor[t].pc \in {"round", "ended", "settling", "over"}

InRound(c) == actor[c].pc \in {"round", "ended"}

\* A turn has one round at a time, and while it has one it does not wait for results.
RoundTrue ==
    /\ \A c \in Callers : actor[c].pc \in {"round", "ended", "settling"} =>
          actor[c].turn # Nobody /\ turn[actor[c].turn].settle # "none"
    /\ \A b, c \in Callers : InRound(b) /\ InRound(c) /\ actor[b].turn = actor[c].turn => b = c
    /\ \A c \in Callers : InRound(c) =>
          /\ ~d.closed /\ d.current = actor[c].turn => d.state = "prompting"
          /\ actor[c].batch # 0 => turn[actor[c].turn].ids # 0
          /\ actor[c].pc = "ended" /\ actor[c].batch = 0 => turn[actor[c].turn].prompt = "ok"
    /\ d.state = "waiting" => turn[d.current].ids # 0

\* Whoever refers to a process or a relay refers to one that was made.
NamedP(x) == x # Nobody => proc[x] # "none"
NamedR(x) == x # Nobody => relay[x] # "none"
NamedTrue ==
    /\ \A a \in Actors :
          /\ actor[a].pc \in Before \cup {"reusing", "retiringOld", "listening"} =>
                relay[a] = "none"
          /\ actor[a].pc \in Before \cup {"reusing", "retiringOld", "listening", "acquiring"} =>
                proc[a] = "none"
          /\ actor[a].pc \in Before \cup {"reusing", "retiringOld", "listening", "acquiring",
                                        "draining"} => watcher[a].pc = "off"
          /\ NamedP(actor[a].client) /\ NamedP(actor[a].prev) /\ NamedR(actor[a].prevRelay)
          /\ NamedR(watcher[a].relay) /\ (watcher[a].pc # "off" => proc[a] # "none")
          /\ actor[a].pc \in Before => actor[a].client = Nobody
    /\ \A t \in Callers : NamedP(turn[t].client) /\ NamedR(turn[t].relay)
    /\ NamedP(d.client) /\ NamedP(closer.client) /\ NamedP(evictor.client)
    /\ NamedR(d.relay) /\ NamedR(closer.relay) /\ NamedR(evictor.relay)

\* What the driver still refers to while a turn is retired or a setup is under way.
TurnHand ==
    \A t \in Callers :
        /\ d.current = t => turn[t].client = d.client /\ turn[t].relay = d.relay
        /\ turn[t].settle \in {"client", "join"} => GoneR(turn[t].relay)
        /\ turn[t].settle = "join" => GoneP(turn[t].client)

SetupHand(a) ==
    /\ actor[a].pc = "reusing" => /\ actor[a].prev = d.client /\ actor[a].client = d.client
                                  /\ actor[a].prevRelay = d.relay /\ actor[a].reused
    /\ actor[a].pc = "draining" => actor[a].reused \/ actor[a].client = a
    /\ actor[a].pc = "retiringOld" => /\ actor[a].client = Nobody
                                      /\ d.client \in {Nobody, actor[a].prev}
                                      /\ d.relay \in {Nobody, actor[a].prevRelay}
    /\ actor[a].pc \in {"listening", "acquiring", "draining", "failing", "discarding"} =>
           d.client = actor[a].client \/ GoneP(d.client)
    /\ actor[a].pc \in {"listening", "acquiring"} => actor[a].client = Nobody
    /\ actor[a].pc \in {"starting", "refreshed"} => d.client = actor[a].client
    /\ actor[a].pc = "listening" => GoneR(d.relay)
    /\ actor[a].pc \in {"discarding", "resetting"} => d.relay = Nobody
    /\ actor[a].pc = "resetting" => GoneP(d.client)

WatchTrue ==
    \A l \in Launches :
        watcher[l].pc \in {"aborting", "closing"} => proc[l] \in {"dead", "released"}

\* What Close took over is all there is besides a setup under way, ...
CloseTrue ==
    /\ closer.pc = "no" => /\ closer.client = Nobody /\ closer.relay = Nobody
                           /\ closer.current = Nobody
    /\ closer.pc # "no" =>
          /\ d.current \in {Nobody, closer.current} /\ d.client \in {Nobody, closer.client}
          /\ \/ d.relay \in {Nobody, closer.relay}
             \/ \E a \in Actors : InSetup(a) /\ d.relay = a
    /\ closer.pc \in {"joining", "done"} =>
          /\ Settled(closer.current) /\ GoneP(closer.client) /\ GoneR(closer.relay)
    /\ closer.pc = "done" => Unwatched /\ evictor.pc \in {"no", "done"}

\* ... and after CloseIdle there is nothing.
EvictTrue ==
    /\ evictor.pc # "no" => /\ d.client = Nobody /\ d.relay = Nobody /\ d.current = Nobody
                            /\ closer.client = Nobody /\ closer.relay = Nobody
    /\ evictor.pc = "done" => Unwatched

\* A call is outstanding on a relay that works only while its turn has no result, and the batch it
\* was in is confirmed before results are taken.
ToolTrue ==
    /\ \A l \in Launches :
          /\ relay[l] = "none" => call[l] = "none"
          /\ relay[l] = "open" /\ call[l] # "none" =>
                /\ d.current # Nobody /\ turn[d.current].relay = l /\ turn[d.current].prompt # "ok"
                /\ ~d.closed /\ call[l] = "delivered" =>
                      d.state = "waiting" /\ turn[d.current].delivery # "open"
    /\ \A t \in Callers : turn[t].delivery = "open" => d.current = t

\* Owned, with the owners one by one.
OwnsP(l) ==
    \/ d.client = l
    \/ \E a \in Actors : \/ actor[a].pc \in {"reusing", "retiringOld"} /\ actor[a].prev = l
                         \/ /\ actor[a].pc \in {"draining", "starting", "refreshed", "failing",
                                                "discarding"}
                            /\ actor[a].client = l
    \/ \E t \in Callers : turn[t].settle \in {"open", "relay", "client"} /\ turn[t].client = l
    \/ closer.pc = "aborting" /\ closer.client = l
    \/ evictor.pc = "closing" /\ evictor.client = l

OwnsR(l) ==
    \/ d.relay = l
    \/ \E a \in Actors : /\ actor[a].pc \in {"reusing", "retiringOld", "discarding"}
                         /\ actor[a].prevRelay = l
    \/ \E t \in Callers : turn[t].settle \in {"open", "relay"} /\ turn[t].relay = l
    \/ \E k \in Launches : watcher[k].pc = "closing" /\ watcher[k].relay = l
    \/ closer.pc = "aborting" /\ closer.relay = l
    \/ evictor.pc = "closing" /\ evictor.relay = l

OwnedTrue ==
    \A l \in Launches : /\ proc[l] = "up" => OwnsP(l)
                        /\ relay[l] \in {"open", "failed"} => OwnsR(l)

SessionInv ==
    /\ DriverTypeOK /\ SetupTrue /\ TurnTrue /\ RoundTrue /\ NamedTrue /\ TurnHand
    /\ \A a \in Actors : SetupHand(a)
    /\ WatchTrue /\ CloseTrue /\ EvictTrue /\ OwnedTrue /\ ToolTrue


----------------------------------------------------------------------------
(* The types of the fields that refer to something.                        *)

FieldTypes ==
    /\ {d.client, d.relay, d.setup} \subseteq Anything /\ {d.current, d.snapshot} \subseteq Someone
    /\ \A a \in Actors : /\ {actor[a].client, actor[a].prev, actor[a].prevRelay} \subseteq Anything
                         /\ actor[a].turn \in Someone /\ actor[a].batch \in Nat
                         /\ actor[a].pc \in Places
    /\ \A t \in Callers : /\ {turn[t].client, turn[t].relay} \subseteq Anything
                          /\ turn[t].ids \in Nat /\ turn[t].batches \in Nat
    /\ \A l \in Launches : watcher[l].relay \in Anything /\ watcher[l].current \in Someone
    /\ {closer.setup, closer.client, closer.relay, evictor.client, evictor.relay} \subseteq Anything
    /\ closer.current \in Someone

LEMMA Fields == DriverTypeOK => FieldTypes
<1> SUFFICES ASSUME DriverTypeOK PROVE FieldTypes
  OBVIOUS
<1>1. {d.client, d.relay, d.setup} \subseteq Anything /\ {d.current, d.snapshot} \subseteq Someone
  BY DEF DriverTypeOK, DriverTypes
<1>2. ASSUME NEW a \in Actors
      PROVE  /\ {actor[a].client, actor[a].prev, actor[a].prevRelay} \subseteq Anything
             /\ actor[a].turn \in Someone /\ actor[a].batch \in Nat /\ actor[a].pc \in Places
  BY DEF DriverTypeOK, ActorTypes
<1>3. ASSUME NEW t \in Callers
      PROVE  /\ {turn[t].client, turn[t].relay} \subseteq Anything
             /\ turn[t].ids \in Nat /\ turn[t].batches \in Nat
  BY DEF DriverTypeOK, TurnTypes
<1>4. ASSUME NEW l \in Launches
      PROVE  watcher[l].relay \in Anything /\ watcher[l].current \in Someone
  BY DEF DriverTypeOK, OtherTypes
<1>5. /\ {closer.setup, closer.client, closer.relay, evictor.client, evictor.relay} \subseteq Anything
      /\ closer.current \in Someone
  BY DEF DriverTypeOK, OtherTypes
<1> QED BY <1>1, <1>2, <1>3, <1>4, <1>5 DEF FieldTypes

----------------------------------------------------------------------------
(* What the invariant does not notice.                                     *)

\* One actor, or one turn, changes.
OnlyActor(a) == \A b \in Actors \ {a} : actor'[b] = actor[b]
OnlyTurn(t) == \A u \in Callers \ {t} : turn'[u] = turn[u]

\* Processes and relays come to an end, and a turn that was open is to be retired.
Waning ==
    /\ \A l \in Launches : \/ proc'[l] = proc[l]
                           \/ proc[l] # "none" /\ proc'[l] \in {"dead", "released"}
    /\ \A l \in Launches : \/ relay'[l] = relay[l]
                           \/ relay[l] # "none" /\ relay'[l] = "closed"
                           \/ relay[l] = "open" /\ relay'[l] = "failed"

SameTurns ==
    \A t \in Callers :
        /\ \/ turn'[t].settle = turn[t].settle
           \/ turn[t].settle = "open" /\ turn'[t].settle = "relay"
        /\ \/ turn'[t].prompt = turn[t].prompt
           \/ turn[t].prompt = "running" /\ turn'[t].prompt = "failed"
        /\ turn'[t].ids = turn[t].ids /\ turn'[t].delivery = turn[t].delivery
        /\ turn'[t].client = turn[t].client /\ turn'[t].relay = turn[t].relay

SameDriver ==
    /\ d'.state = d.state /\ d'.closed = d.closed /\ d'.client = d.client /\ d'.relay = d.relay
    /\ d'.current = d.current /\ d'.setup = d.setup

\* A Start goes on before its setup, a call returns, or a round is given up.
Moves(a) ==
    /\ OnlyActor(a)
    /\ \/ actor[a].pc \in Before /\ actor'[a].pc \in Before
       \/ actor[a].pc \in Before \cup {"discarded", "settling"} /\ actor'[a].pc = "over"
       \/ /\ actor[a].pc \in {"round", "ended"} /\ actor'[a].pc = "settling"
          /\ actor'[a].turn = actor[a].turn
    /\ actor'[a].client \in {actor[a].client, Nobody} /\ actor'[a].prev \in {actor[a].prev, Nobody}
    /\ actor'[a].prevRelay \in {actor[a].prevRelay, Nobody}

\* Owners stay owners while neither a setup nor a retirement gets on.
LEMMA OwnersKeep ==
    ASSUME OwnedTrue, d'.client = d.client, d'.relay = d.relay, UNCHANGED <<watcher, closer, evictor>>,
           \A b \in Actors : actor[b].pc \in Within => actor'[b] = actor[b],
           \A t \in Callers : /\ \/ turn'[t].settle = turn[t].settle
                                 \/ turn[t].settle = "open" /\ turn'[t].settle = "relay"
                              /\ turn'[t].client = turn[t].client
                              /\ turn'[t].relay = turn[t].relay,
           Waning
    PROVE  OwnedTrue'
<1>1. \A l \in Launches : (OwnsP(l) => OwnsP(l)') /\ (OwnsR(l) => OwnsR(l)')
  BY DEF OwnsP, OwnsR, Within
<1> QED BY <1>1 DEF OwnedTrue, Waning

LEMMA QuietKeeps ==
    ASSUME SessionInv, DriverTypeOK', NEW a \in Actors, Moves(a) \/ UNCHANGED actor,
           Waning, SameTurns, SameDriver, UNCHANGED <<call, watcher, closer, evictor>>
    PROVE  SessionInv'
<1> USE DEF Someone, Anything, Launches
<1>0. FieldTypes /\ Callers \subseteq Actors /\ Nobody \notin Actors
  BY Fields, ActorsAssumption DEF SessionInv, Actors
<1>1. SetupTrue'
  BY DEF SessionInv, SetupTrue, InSetup, Moves, OnlyActor, SameDriver, Before, Within
<1>2. TurnTrue'
  BY <1>0 DEF SessionInv, TurnTrue, Active, Moves, OnlyActor, SameDriver, SameTurns, Before
<1>3. RoundTrue'
  <2>1. \A c \in Callers : actor'[c].pc \in {"round", "ended", "settling"} =>
            /\ actor[c].pc \in {"round", "ended", "settling"} /\ actor'[c].turn = actor[c].turn
            /\ actor[c].turn \in Someone
    BY <1>0 DEF Moves, OnlyActor, Before, FieldTypes
  <2>2. \A c \in Callers : InRound(c)' => InRound(c) /\ actor'[c] = actor[c]
    BY <1>0 DEF Moves, OnlyActor, InRound, Before
  <2>3. d'.current = d.current /\ d'.closed = d.closed /\ d'.state = d.state /\ d.current \in Someone
    BY <1>0 DEF SameDriver, FieldTypes
  <2>4. \A t \in Callers : /\ turn[t].settle # "none" => turn'[t].settle # "none"
                           /\ turn'[t].ids = turn[t].ids
                           /\ turn[t].prompt = "ok" => turn'[t].prompt = "ok"
    BY DEF SameTurns
  <2>5. d.state = "waiting" => d.current \in Callers
    BY <2>3 DEF SessionInv, TurnTrue, SetupTrue
  <2> QED BY <2>1, <2>2, <2>3, <2>4, <2>5 DEF SessionInv, RoundTrue, InRound
<1>4. NamedTrue'
  <2>1. \A l \in Launches : /\ proc[l] = "none" <=> proc'[l] = "none"
                            /\ relay[l] = "none" <=> relay'[l] = "none"
    BY DEF Waning
  <2>2. \A b \in Actors : /\ actor'[b].pc \in Before \cup Within => actor[b].pc = actor'[b].pc \/
                                             (actor[b].pc \in Before /\ actor'[b].pc \in Before)
                          /\ actor'[b].client \in {actor[b].client, Nobody}
                          /\ actor'[b].prev \in {actor[b].prev, Nobody}
                          /\ actor'[b].prevRelay \in {actor[b].prevRelay, Nobody}
    BY DEF Moves, OnlyActor, Before, Within
  <2> QED BY SMTT(30), <1>0, <2>1, <2>2 DEF SessionInv, NamedTrue, NamedP, NamedR, SameDriver, SameTurns,
                               Within, FieldTypes
<1>5. TurnHand'
  BY <1>0 DEF SessionInv, TurnHand, GoneP, GoneR, SameDriver, SameTurns, Waning, FieldTypes
<1>6. ASSUME NEW b \in Actors PROVE SetupHand(b)'
  <2>1. CASE actor'[b] # actor[b]
    BY <2>1 DEF SetupHand, Moves, OnlyActor, Before
  <2>2. CASE actor'[b] = actor[b]
    BY <1>0, <2>2 DEF SessionInv, SetupHand, GoneP, GoneR, SameDriver, Waning, FieldTypes
  <2> QED BY <2>1, <2>2
<1>7. WatchTrue'
  BY DEF SessionInv, WatchTrue, Waning
<1>8. CloseTrue'
  <2>1. \A b \in Actors : InSetup(b) => InSetup(b)'
    BY DEF InSetup, Moves, OnlyActor, Before, Within
  <2>2. Settled(closer.current) => Settled(closer.current)'
    BY <1>0 DEF Settled, SameTurns, FieldTypes
  <2>3. \A x \in Anything : (GoneP(x) => GoneP(x)') /\ (GoneR(x) => GoneR(x)')
    BY DEF GoneP, GoneR, Waning
  <2> QED BY <1>0, <2>1, <2>2, <2>3 DEF SessionInv, CloseTrue, SameDriver, Unwatched, FieldTypes
<1>9. EvictTrue'
  BY DEF SessionInv, EvictTrue, SameDriver, Unwatched
<1>10. OwnedTrue'
  <2>1. \A b \in Actors : actor[b].pc \in Within => actor'[b] = actor[b]
    BY DEF Moves, OnlyActor, Before, Within
  <2> QED BY <2>1, OwnersKeep DEF SessionInv, SameDriver, SameTurns
<1>11. ToolTrue'
  BY <1>0 DEF SessionInv, ToolTrue, SameDriver, SameTurns, Waning, FieldTypes
<1> QED BY <1>1, <1>2, <1>3, <1>4, <1>5, <1>6, <1>7, <1>8, <1>9, <1>10, <1>11 DEF SessionInv

----------------------------------------------------------------------------
(* Steps that change nothing but where an actor is.                        *)

Record == [pc : Places, kind : {"new", "results", "changed", "denial"}, about : Someone,
           number : Nat, base : Someone, reuse : BOOLEAN, reused : BOOLEAN, client : Anything,
           prev : Anything, prevRelay : Anything, count : Nat, setup : BOOLEAN, turn : Someone,
           batch : Nat]

\* An actor is where it was, with other locals, or its function has returned.
LEMMA ActorKeeps ==
    ASSUME DriverTypeOK, NEW a \in Actors, NEW r \in Record, actor' = [actor EXCEPT ![a] = r]
    PROVE  ActorTypes' /\ actor'[a] = r /\ OnlyActor(a)
BY DEF DriverTypeOK, ActorTypes, Record, OnlyActor

LEMMA OverIs == /\ [Locals EXCEPT !.pc = "over"] \in Record
                /\ [Locals EXCEPT !.pc = "over"].pc = "over"
                /\ [Locals EXCEPT !.pc = "over"].client = Nobody
                /\ [Locals EXCEPT !.pc = "over"].prev = Nobody
                /\ [Locals EXCEPT !.pc = "over"].prevRelay = Nobody
BY DEF Locals, Record, Places, After, Someone, Anything

LEMMA EndsIs ==
    ASSUME DriverTypeOK, NEW a \in Actors, Ends(a)
    PROVE  /\ ActorTypes' /\ OnlyActor(a)
           /\ actor'[a].pc = "over" /\ actor'[a].client = Nobody /\ actor'[a].prev = Nobody
           /\ actor'[a].prevRelay = Nobody
BY ActorKeeps, OverIs DEF Ends

LEMMA GoesIs ==
    ASSUME DriverTypeOK, NEW a \in Actors, NEW x \in Places, Goes(a, x)
    PROVE  ActorTypes' /\ OnlyActor(a) /\ actor'[a] = [actor[a] EXCEPT !.pc = x]
<1>1. actor[a] \in Record
  BY DEF DriverTypeOK, ActorTypes, Record
<1>2. [actor[a] EXCEPT !.pc = x] \in Record
  BY <1>1 DEF Record
<1>3. actor' = [actor EXCEPT ![a] = [actor[a] EXCEPT !.pc = x]]
  BY DEF Goes
<1> QED BY <1>2, <1>3, ActorKeeps

LEMMA StillQuiet ==
    ASSUME SessionInv, NEW c \in Actors, Moves(c), ActorTypes',
           d' = d \/ d' = [d EXCEPT !.outcome = Nobody],
           UNCHANGED <<turn, relay, call, proc, holds, watcher, closer, evictor>>
    PROVE  SessionInv'
<1>1. DriverTypes' /\ SameDriver
  BY DEF SessionInv, DriverTypeOK, DriverTypes, SameDriver, Someone
<1>2. TurnTypes' /\ LaunchTypes'
  BY DEF SessionInv, DriverTypeOK, TurnTypes, LaunchTypes
<1>3. OtherTypes'
  BY DEF SessionInv, DriverTypeOK, OtherTypes
<1>4. Waning /\ SameTurns
  BY DEF Waning, SameTurns
<1> QED BY <1>1, <1>2, <1>3, <1>4, QuietKeeps DEF DriverTypeOK

LEMMA EndQuiet ==
    ASSUME SessionInv, NEW c \in Actors, Ends(c),
           actor[c].pc \in Before \cup {"discarded", "settling"},
           d' = d \/ d' = [d EXCEPT !.outcome = Nobody],
           UNCHANGED <<turn, relay, call, proc, holds, watcher, closer, evictor>>
    PROVE  SessionInv'
<1>1. Moves(c) /\ ActorTypes'
  BY EndsIs DEF SessionInv, Moves
<1> QED BY <1>1, StillQuiet

LEMMA GoQuiet ==
    ASSUME SessionInv, NEW c \in Actors, NEW r \in Record, actor' = [actor EXCEPT ![c] = r],
           actor[c].pc \in Before, r.pc \in Before, r.client = actor[c].client,
           r.prev = actor[c].prev, r.prevRelay = actor[c].prevRelay,
           d' = d \/ d' = [d EXCEPT !.outcome = Nobody],
           UNCHANGED <<turn, relay, call, proc, holds, watcher, closer, evictor>>
    PROVE  SessionInv'
<1>1. Moves(c) /\ ActorTypes'
  BY ActorKeeps DEF SessionInv, Moves
<1> QED BY <1>1, StillQuiet


\* The steps of Start before its setup that touch no turn, and the returns.
LEMMA StartQuiet ==
    ASSUME SessionInv, NEW c \in Callers,
           \/ StartEnters(c) \/ StartBusy(c) \/ Leaves(c) \/ StartReadsDelivery(c)
           \/ StartGivesUp(c) \/ StartAwaited(c) \/ StartChecksBusy(c) \/ StartOrdinary(c)
           \/ StartToldOutcome(c) \/ StartFindsExpired(c) \/ StartRetired(c) \/ StartPlans(c)
           \/ RoundOver(c)
    PROVE  SessionInv'
<1> USE DEF Launches
<1>1. /\ c \in Actors /\ actor[c] \in Record /\ d.current \in Someone /\ d.snapshot \in Someone
      /\ d.fresh \in BOOLEAN
  BY DEF SessionInv, DriverTypeOK, ActorTypes, Record, DriverTypes, Actors
<1>2. ASSUME NEW x \in Before, Goes(c, x), actor[c].pc \in Before,
             d' = d \/ d' = [d EXCEPT !.outcome = Nobody],
             UNCHANGED <<turn, relay, call, proc, holds, watcher, closer, evictor>>
      PROVE  SessionInv'
  <2> DEFINE r == [actor[c] EXCEPT !.pc = x]
  <2>1. /\ r \in Record /\ r.pc = x /\ r.client = actor[c].client /\ r.prev = actor[c].prev
        /\ r.prevRelay = actor[c].prevRelay
    BY <1>1 DEF Record, Places
  <2>2. actor' = [actor EXCEPT ![c] = r]
    BY <1>2 DEF Goes
  <2> HIDE DEF r
  <2> QED BY <1>1, <1>2, <2>1, <2>2, GoQuiet
<1>3. CASE StartEnters(c)
  <2>1. CASE Goes(c, "entered")
    BY <1>2, <1>3, <2>1 DEF StartEnters, Before
  <2>2. CASE ~Goes(c, "entered")
    <3>1. PICK e \in Exposed, kind \in {"results", "changed", "denial"} :
             actor' = [actor EXCEPT ![c].pc = "entered", ![c].kind = kind,
                                    ![c].about = e[1], ![c].number = e[2]]
      BY <1>3, <2>2 DEF StartEnters
    <3>2. e[1] \in Someone /\ e[2] \in Nat
      BY BoundAssumption DEF Exposed, Someone
    <3> DEFINE r == [actor[c] EXCEPT !.pc = "entered", !.kind = kind, !.about = e[1],
                                     !.number = e[2]]
    <3>3. /\ r \in Record /\ r.pc = "entered" /\ r.client = actor[c].client
          /\ r.prev = actor[c].prev /\ r.prevRelay = actor[c].prevRelay
      BY <1>1, <3>2 DEF Record, Places, Before
    <3>4. actor' = [actor EXCEPT ![c] = r]
      BY <1>1, <3>1 DEF SessionInv, DriverTypeOK, ActorTypes
    <3> HIDE DEF r
    <3> QED BY <1>1, <1>3, <3>3, <3>4, GoQuiet DEF StartEnters, Before
  <2> QED BY <2>1, <2>2
<1>4. CASE StartReadsDelivery(c)
  <2>1. CASE Goes(c, "checking")
    BY <1>2, <1>4, <2>1 DEF StartReadsDelivery, Before
  <2>2. CASE ~Goes(c, "checking")
    <3> DEFINE r == [actor[c] EXCEPT !.pc = "awaiting", !.turn = d.current]
    <3>1. /\ r \in Record /\ r.pc = "awaiting" /\ r.client = actor[c].client
          /\ r.prev = actor[c].prev /\ r.prevRelay = actor[c].prevRelay
      BY <1>1 DEF Record, Places, Before
    <3>2. actor' = [actor EXCEPT ![c] = r]
      BY <1>4, <2>2 DEF StartReadsDelivery
    <3> HIDE DEF r
    <3> QED BY <1>1, <1>4, <3>1, <3>2, GoQuiet DEF StartReadsDelivery, Before
  <2> QED BY <2>1, <2>2
<1>5. CASE StartPlans(c)
  <2>1. PICK base \in {Nobody, d.snapshot} :
          actor' = [actor EXCEPT ![c].pc = "preparing", ![c].base = base,
                                 ![c].reuse = d.fresh \/ base # Nobody]
    BY <1>5 DEF StartPlans
  <2> DEFINE r == [actor[c] EXCEPT !.pc = "preparing", !.base = base,
                                   !.reuse = d.fresh \/ base # Nobody]
  <2>2. /\ r \in Record /\ r.pc = "preparing" /\ r.client = actor[c].client
        /\ r.prev = actor[c].prev /\ r.prevRelay = actor[c].prevRelay
    BY ZenonT(60), <1>1, <2>1 DEF Record, Places, Before, Someone
  <2>3. actor' = [actor EXCEPT ![c] = r]
    BY <2>1
  <2> HIDE DEF r
  <2> QED BY <1>1, <1>5, <2>2, <2>3, GoQuiet DEF StartPlans, Before
<1>6. CASE StartAwaited(c) \/ StartChecksBusy(c) \/ StartOrdinary(c) \/ StartRetired(c)
  <2>1. /\ actor[c].pc \in Before
        /\ Ends(c) \/ Goes(c, "checking") \/ Goes(c, "routing") \/ Goes(c, "planning")
        /\ d' = d \/ d' = [d EXCEPT !.outcome = Nobody]
        /\ UNCHANGED <<turn, relay, call, proc, holds, watcher, closer, evictor>>
    BY <1>6 DEF StartAwaited, StartChecksBusy, StartOrdinary, StartRetired, Return, Before
  <2> QED BY <1>1, <1>2, <2>1, EndQuiet DEF Before
<1>7. CASE \/ StartBusy(c) \/ Leaves(c) \/ StartGivesUp(c) \/ StartToldOutcome(c)
           \/ StartFindsExpired(c) \/ RoundOver(c)
  <2>1. /\ actor[c].pc \in Before \cup {"settling"} /\ Ends(c)
        /\ d' = d \/ d' = [d EXCEPT !.outcome = Nobody]
        /\ UNCHANGED <<turn, relay, call, proc, holds, watcher, closer, evictor>>
    BY <1>7 DEF StartBusy, Leaves, StartGivesUp, StartToldOutcome, StartFindsExpired, RoundOver,
                Return, Before
  <2> QED BY <1>1, <2>1, EndQuiet
<1> QED BY <1>3, <1>4, <1>5, <1>6, <1>7

LEMMA ReturnQuiet ==
    ASSUME SessionInv, NEW a \in Actors,
           ModelsEnters(a) \/ PrepareRefused(a) \/ DiscardEnds(a)
    PROVE  SessionInv'
<1>1. CASE Ends(a)
  <2>1. /\ actor[a].pc \in Before \cup {"discarded"} /\ d' = d
        /\ UNCHANGED <<turn, relay, call, proc, holds, watcher, closer, evictor>>
    BY DEF ModelsEnters, PrepareRefused, DiscardEnds, Before
  <2> QED BY <1>1, <2>1, EndQuiet
<1>2. CASE ~Ends(a)
  <2>1. /\ actor[a].pc \in Before /\ Goes(a, "preparing") /\ d' = d
        /\ UNCHANGED <<turn, relay, call, proc, holds, watcher, closer, evictor>>
    BY <1>2 DEF ModelsEnters, PrepareRefused, DiscardEnds, Before
  <2> DEFINE r == [actor[a] EXCEPT !.pc = "preparing"]
  <2>2. actor[a] \in Record
    BY DEF SessionInv, DriverTypeOK, ActorTypes, Record
  <2>3. /\ r \in Record /\ r.pc = "preparing" /\ r.client = actor[a].client
        /\ r.prev = actor[a].prev /\ r.prevRelay = actor[a].prevRelay
    BY <2>2 DEF Record, Places, Before
  <2>4. actor' = [actor EXCEPT ![a] = r]
    BY <2>1 DEF Goes
  <2> HIDE DEF r
  <2> QED BY <2>1, <2>3, <2>4, GoQuiet DEF Before
<1> QED BY <1>1, <1>2

----------------------------------------------------------------------------
(* Steps that only begin the end of something.                             *)

TurnRecord == [settle : {"none", "open", "relay", "client", "join", "completing", "done"},
               prompt : {"none", "running", "ok", "failed"}, delivery : {"nil", "open", "closed"},
               ids : Nat, batches : Nat, expired : BOOLEAN, client : Anything, relay : Anything,
               base : Someone, count : Nat]

LEMMA TurnKeeps ==
    ASSUME DriverTypeOK, NEW t \in Callers, NEW r \in TurnRecord, turn' = [turn EXCEPT ![t] = r]
    PROVE  TurnTypes' /\ turn'[t] = r /\ OnlyTurn(t)
BY DEF DriverTypeOK, TurnTypes, TurnRecord, OnlyTurn

LEMMA TurnIs ==
    ASSUME DriverTypeOK, NEW t \in Callers
    PROVE  turn[t] \in TurnRecord
BY DEF DriverTypeOK, TurnTypes, TurnRecord

LEMMA AbortedIs ==
    ASSUME DriverTypeOK, NEW t \in Callers, turn' = aborted(t)
    PROVE  TurnTypes' /\ SameTurns
<1> DEFINE r == [turn[t] EXCEPT !.settle = IF turn[t].settle = "open" THEN "relay" ELSE turn[t].settle]
<1>1. turn[t] \in TurnRecord
  BY TurnIs
<1>2. /\ r \in TurnRecord /\ r.prompt = turn[t].prompt /\ r.ids = turn[t].ids
      /\ r.delivery = turn[t].delivery /\ r.client = turn[t].client /\ r.relay = turn[t].relay
      /\ r.settle = IF turn[t].settle = "open" THEN "relay" ELSE turn[t].settle
  BY <1>1 DEF TurnRecord
<1>3. turn' = [turn EXCEPT ![t] = r]
  BY DEF aborted
<1> HIDE DEF r
<1>4. TurnTypes' /\ turn'[t] = r /\ OnlyTurn(t)
  BY <1>2, <1>3, TurnKeeps
<1> QED BY <1>2, <1>4 DEF SameTurns, OnlyTurn

\* Nothing but the turns, the processes and the relays changes, and they only come to an end.
LEMMA WaneKeeps ==
    ASSUME SessionInv, NEW a \in Actors, TurnTypes', LaunchTypes', ActorTypes', SameTurns, Waning,
           Moves(a) \/ UNCHANGED actor, UNCHANGED <<d, call, watcher, closer, evictor>>
    PROVE  SessionInv'
<1>1. DriverTypes' /\ SameDriver
  BY DEF SessionInv, DriverTypeOK, DriverTypes, SameDriver
<1>2. OtherTypes'
  BY DEF SessionInv, DriverTypeOK, OtherTypes
<1> QED BY <1>1, <1>2, QuietKeeps DEF DriverTypeOK

LEMMA AbortQuiet ==
    ASSUME SessionInv, NEW c \in Callers,
           StartDenies(c) \/ StartAbandons(c) \/ RoundCancels(c) \/ FinishTooLate(c)
    PROVE  SessionInv'
<1> USE DEF Launches
<1>1. c \in Actors /\ actor[c] \in Record /\ FieldTypes /\ DriverTypeOK
  BY Fields DEF SessionInv, DriverTypeOK, ActorTypes, Record, Actors
<1>2. CASE RoundCancels(c) \/ FinishTooLate(c)
  <2>1. /\ actor[c].pc \in {"round", "ended"} /\ turn' = aborted(actor[c].turn)
        /\ Goes(c, "settling")
        /\ UNCHANGED <<d, relay, call, proc, holds, watcher, closer, evictor>>
    BY <1>2 DEF RoundCancels, FinishTooLate
  <2>2. actor[c].turn \in Callers
    BY <1>1, <2>1 DEF SessionInv, RoundTrue, FieldTypes, Someone
  <2>3. TurnTypes' /\ SameTurns
    BY <1>1, <2>1, <2>2, AbortedIs
  <2>4. ActorTypes' /\ OnlyActor(c) /\ actor'[c] = [actor[c] EXCEPT !.pc = "settling"]
    BY <1>1, <2>1, GoesIs DEF Places, After
  <2>5. Moves(c)
    BY <1>1, <2>1, <2>4 DEF Moves, Record
  <2>6. LaunchTypes' /\ Waning
    BY <1>1, <2>1 DEF DriverTypeOK, LaunchTypes, Waning
  <2> QED BY <1>1, <2>1, <2>3, <2>4, <2>5, <2>6, WaneKeeps
<1>3. CASE StartDenies(c)
  <2>1. PICK u \in Someone : actor' = [actor EXCEPT ![c].pc = "retiring", ![c].turn = u]
    BY <1>1, <1>3 DEF StartDenies, FieldTypes, Someone
  <2>2. actor[c].pc \in Before /\ UNCHANGED <<d, relay, call, proc, holds, watcher, closer, evictor>>
    BY <1>3 DEF StartDenies, Before
  <2> DEFINE r == [actor[c] EXCEPT !.pc = "retiring", !.turn = u]
  <2>3. /\ r \in Record /\ r.pc = "retiring" /\ r.client = actor[c].client
        /\ r.prev = actor[c].prev /\ r.prevRelay = actor[c].prevRelay
    BY <1>1 DEF Record, Places, Before
  <2>4. actor' = [actor EXCEPT ![c] = r]
    BY <2>1
  <2> HIDE DEF r
  <2>5. ActorTypes' /\ OnlyActor(c) /\ actor'[c] = r
    BY <1>1, <2>3, <2>4, ActorKeeps
  <2>6. Moves(c)
    BY <2>2, <2>3, <2>5 DEF Moves, Before
  <2>7. TurnTypes' /\ SameTurns
    <3>1. CASE turn' = turn
      BY <1>1, <3>1 DEF DriverTypeOK, TurnTypes, SameTurns
    <3>2. CASE turn' # turn
      <4>1. d.current \in Callers /\ turn' = aborted(d.current)
        BY <1>1, <1>3, <3>2 DEF StartDenies, Answers, FieldTypes, Someone
      <4> QED BY <1>1, <4>1, AbortedIs
    <3> QED BY <3>1, <3>2
  <2>8. LaunchTypes' /\ Waning
    BY <1>1, <2>2 DEF DriverTypeOK, LaunchTypes, Waning
  <2> QED BY <1>1, <2>2, <2>5, <2>6, <2>7, <2>8, WaneKeeps
<1>4. CASE StartAbandons(c)
  <2>1. d.current \in Callers /\ turn[d.current].count \in Nat
    BY <1>1, <1>4, TurnIs DEF StartAbandons, Resumable, Answers, FieldTypes, Someone, TurnRecord
  <2>2. PICK t \in Callers : t = d.current
    BY <2>1
  <2>3. /\ actor[c].pc \in Before /\ UNCHANGED <<d, call, proc, holds, watcher, closer, evictor>>
        /\ turn' = aborted(t) /\ relay[turn[t].relay] = "open"
        /\ relay' = [relay EXCEPT ![turn[t].relay] = "failed"]
        /\ actor' = [actor EXCEPT ![c].pc = "retiring", ![c].turn = t,
                                  ![c].count = turn[t].count + 1]
    BY <1>4, <2>2 DEF StartAbandons, Resumable, Takes, Before
  <2>0. PICK n \in Nat : n = turn[t].count + 1
    BY <2>1, <2>2
  <2> DEFINE r == [actor[c] EXCEPT !.pc = "retiring", !.turn = t, !.count = n]
  <2>4. /\ r \in Record /\ r.pc = "retiring" /\ r.client = actor[c].client
        /\ r.prev = actor[c].prev /\ r.prevRelay = actor[c].prevRelay
    BY <1>1 DEF Record, Places, Before, Someone
  <2>5. actor' = [actor EXCEPT ![c] = r]
    BY <2>0, <2>3
  <2> HIDE DEF r
  <2>6. ActorTypes' /\ OnlyActor(c) /\ actor'[c] = r
    BY <1>1, <2>4, <2>5, ActorKeeps
  <2>7. Moves(c)
    BY <2>3, <2>4, <2>6 DEF Moves, Before
  <2>8. TurnTypes' /\ SameTurns
    BY <1>1, <2>3, AbortedIs
  <2>9. LaunchTypes' /\ Waning
    BY <1>1, <2>3 DEF DriverTypeOK, LaunchTypes, Waning
  <2> QED BY <1>1, <2>3, <2>6, <2>7, <2>8, <2>9, WaneKeeps
<1> QED BY <1>2, <1>3, <1>4

LEMMA FaultQuiet ==
    ASSUME SessionInv, NEW t \in Callers,
           PromptFails(t) \/ PromptAborts(t) \/ Expires(t) \/ WatchAborts(t)
    PROVE  SessionInv'
<1>1. DriverTypeOK /\ t \in Actors /\ turn[t] \in TurnRecord
  BY TurnIs DEF SessionInv, Actors
<1>2. UNCHANGED <<d, actor, relay, call, proc, holds, watcher, closer, evictor>>
  BY DEF PromptFails, PromptAborts, Expires, WatchAborts
<1>3. TurnTypes' /\ SameTurns
  <2>1. CASE PromptAborts(t) \/ WatchAborts(t)
    BY <1>1, <2>1, AbortedIs DEF PromptAborts, WatchAborts
  <2>2. CASE PromptFails(t) \/ Expires(t)
    <3>1. PICK r \in TurnRecord :
            /\ turn' = [turn EXCEPT ![t] = r]
            /\ r.settle = turn[t].settle /\ r.ids = turn[t].ids /\ r.delivery = turn[t].delivery
            /\ r.client = turn[t].client /\ r.relay = turn[t].relay
            /\ \/ r.prompt = turn[t].prompt
               \/ turn[t].prompt = "running" /\ r.prompt = "failed"
      <4>1. CASE PromptFails(t)
        <5>1. [turn[t] EXCEPT !.prompt = "failed"] \in TurnRecord
          BY <1>1 DEF TurnRecord
        <5> QED BY <1>1, <4>1, <5>1 DEF PromptFails, TurnRecord
      <4>2. CASE Expires(t)
        <5>1. [turn[t] EXCEPT !.expired = TRUE] \in TurnRecord
          BY <1>1 DEF TurnRecord
        <5> QED BY <1>1, <4>2, <5>1 DEF Expires, TurnRecord
      <4> QED BY <2>2, <4>1, <4>2
    <3>2. TurnTypes' /\ turn'[t] = r /\ OnlyTurn(t)
      BY <1>1, <3>1, TurnKeeps
    <3> QED BY <3>1, <3>2 DEF SameTurns, OnlyTurn
  <2> QED BY <2>1, <2>2
<1>4. LaunchTypes' /\ ActorTypes'
  BY <1>1, <1>2 DEF DriverTypeOK, LaunchTypes, ActorTypes
<1>5. Waning
  BY <1>2 DEF Waning
<1> QED BY <1>1, <1>2, <1>3, <1>4, <1>5, WaneKeeps

LEMMA LossQuiet ==
    ASSUME SessionInv, NEW l \in Launches, RelayFails(l) \/ ProcessDies(l)
    PROVE  SessionInv'
<1>1. l \in Actors /\ UNCHANGED <<d, actor, turn, call, holds, watcher, closer, evictor>>
  BY DEF RelayFails, ProcessDies, Launches
<1>2. TurnTypes' /\ ActorTypes' /\ SameTurns
  BY <1>1 DEF SessionInv, DriverTypeOK, TurnTypes, ActorTypes, SameTurns
<1>3. LaunchTypes' /\ Waning
  BY <1>1 DEF RelayFails, ProcessDies, SessionInv, DriverTypeOK, LaunchTypes, Waning
<1> QED BY <1>1, <1>2, <1>3, WaneKeeps

----------------------------------------------------------------------------
(* The settlement of a turn.                                               *)

LEMMA DriverIs == ASSUME DriverTypeOK PROVE
    d \in [state : States, closed : BOOLEAN, client : Anything, relay : Anything,
           current : Someone, outcome : Someone, fresh : BOOLEAN, snapshot : Someone,
           cleanupErr : BOOLEAN, known : BOOLEAN, setup : Anything]
BY DEF DriverTypeOK, DriverTypes

\* What is released stays so, and is still something that was made.
LEMMA WaneIs ==
    ASSUME Waning
    PROVE  \A x \in Anything : /\ (GoneP(x) => GoneP(x)') /\ (GoneR(x) => GoneR(x)')
                               /\ (NamedP(x) => NamedP(x)') /\ (NamedR(x) => NamedR(x)')
BY DEF Waning, GoneP, GoneR, NamedP, NamedR, Anything

\* Closing a relay, or a process, that was made.
LEMMA ReleaseIs ==
    ASSUME DriverTypeOK, NEW r \in Anything, NEW c \in Anything, NamedR(r), NamedP(c),
           UNCHANGED <<call, holds>>, closeRelay(r) \/ UNCHANGED relay, release(c) \/ UNCHANGED proc
    PROVE  /\ LaunchTypes' /\ Waning
           /\ closeRelay(r) => GoneR(r)' /\ \A l \in Launches \ {r} : relay'[l] = relay[l]
           /\ release(c) => GoneP(c)' /\ \A l \in Launches \ {c} : proc'[l] = proc[l]
<1>1. LaunchTypes'
  BY DEF DriverTypeOK, LaunchTypes, closeRelay, release
<1>2. Waning
  <2>1. \A l \in Launches : \/ proc'[l] = proc[l]
                            \/ proc[l] # "none" /\ proc'[l] \in {"dead", "released"}
    BY ActorsAssumption DEF release, NamedP, Launches, Actors
  <2>2. \A l \in Launches : \/ relay'[l] = relay[l]
                            \/ relay[l] # "none" /\ relay'[l] = "closed"
    BY ActorsAssumption DEF closeRelay, NamedR, Launches, Actors
  <2> QED BY <2>1, <2>2 DEF Waning
<1> QED BY <1>1, <1>2 DEF closeRelay, release, GoneR, GoneP, Anything

LEMMA NoteIs ==
    ASSUME DriverTypeOK, \E failed \in MayFail : noteCleanup(failed)
    PROVE  DriverTypes' /\ SameDriver
<1>1. PICK e \in BOOLEAN : d' = [d EXCEPT !.cleanupErr = e]
  BY DriverIs DEF MayFail, noteCleanup
<1> QED BY <1>1, DriverIs DEF DriverTypes, SameDriver

LEMMA SettleIs ==
    ASSUME DriverTypeOK, NEW t \in Callers,
           NEW x \in {"none", "open", "relay", "client", "join", "completing", "done"},
           turn' = [turn EXCEPT ![t].settle = x]
    PROVE  /\ TurnTypes' /\ OnlyTurn(t) /\ turn'[t].settle = x
           /\ turn'[t].prompt = turn[t].prompt /\ turn'[t].ids = turn[t].ids
           /\ turn'[t].delivery = turn[t].delivery /\ turn'[t].client = turn[t].client
           /\ turn'[t].relay = turn[t].relay
<1> DEFINE r == [turn[t] EXCEPT !.settle = x]
<1>1. turn[t] \in TurnRecord
  BY TurnIs
<1>2. /\ r \in TurnRecord /\ r.prompt = turn[t].prompt /\ r.ids = turn[t].ids
      /\ r.delivery = turn[t].delivery /\ r.client = turn[t].client /\ r.relay = turn[t].relay
      /\ r.settle = x
  BY <1>1 DEF TurnRecord
<1>3. turn' = [turn EXCEPT ![t] = r]
  OBVIOUS
<1> HIDE DEF r
<1> QED BY <1>2, <1>3, TurnKeeps

LEMMA ClosesRelay ==
    ASSUME SessionInv, NEW t \in Callers, AbortClosesRelay(t)
    PROVE  SessionInv'
<1> USE DEF Someone, Anything, Launches
<1>0. FieldTypes /\ DriverTypeOK /\ Callers \subseteq Actors /\ Nobody \notin Actors
  BY Fields, ActorsAssumption DEF SessionInv, Actors
<1>1. /\ UNCHANGED <<d, actor, call, proc, holds, watcher, closer, evictor>>
      /\ turn[t].settle = "relay" /\ turn' = [turn EXCEPT ![t].settle = "client"]
      /\ closeRelay(turn[t].relay) /\ NamedR(turn[t].relay)
  BY DEF AbortClosesRelay, SessionInv, NamedTrue
<1>2. /\ TurnTypes' /\ OnlyTurn(t) /\ turn'[t].settle = "client"
      /\ turn'[t].prompt = turn[t].prompt /\ turn'[t].ids = turn[t].ids
      /\ turn'[t].delivery = turn[t].delivery /\ turn'[t].client = turn[t].client
      /\ turn'[t].relay = turn[t].relay
  BY <1>0, <1>1, SettleIs
<1>3. /\ LaunchTypes' /\ Waning /\ GoneR(turn[t].relay)'
      /\ \A l \in Launches \ {turn[t].relay} : relay'[l] = relay[l]
  BY <1>0, <1>1, ReleaseIs DEF FieldTypes, NamedP
<1>4. \A x \in Anything : /\ (GoneP(x) => GoneP(x)') /\ (GoneR(x) => GoneR(x)')
                          /\ (NamedP(x) => NamedP(x)') /\ (NamedR(x) => NamedR(x)')
  BY <1>3, WaneIs
<1>5. DriverTypeOK'
  BY <1>0, <1>1, <1>2, <1>3 DEF DriverTypeOK, DriverTypes, ActorTypes, OtherTypes
<1>6. SetupTrue'
  BY <1>0, <1>1, <1>2, <1>3, <1>4 DEF SessionInv, SetupTrue, InSetup, Within
<1>7. TurnTrue'
  BY <1>0, <1>1, <1>2, <1>3, <1>4 DEF SessionInv, TurnTrue, SetupTrue, Active, OnlyTurn
<1>8. RoundTrue'
  BY <1>0, <1>1, <1>2, <1>3, <1>4 DEF SessionInv, RoundTrue, TurnTrue, SetupTrue, InRound,
     FieldTypes, OnlyTurn
<1>9. NamedTrue'
  BY <1>0, <1>1, <1>2, <1>3, <1>4 DEF SessionInv, NamedTrue, NamedP, NamedR, FieldTypes, Before,
     Within, OnlyTurn
<1>10. TurnHand'
  BY <1>0, <1>1, <1>2, <1>3, <1>4 DEF SessionInv, TurnHand, GoneP, GoneR, FieldTypes, OnlyTurn
<1>11. \A b \in Actors : SetupHand(b)'
  BY <1>0, <1>1, <1>2, <1>3, <1>4 DEF SessionInv, SetupHand, GoneP, GoneR, FieldTypes
<1>12. WatchTrue'
  BY <1>0, <1>1, <1>2, <1>3, <1>4 DEF SessionInv, WatchTrue
<1>13. CloseTrue'
  BY <1>0, <1>1, <1>2, <1>3, <1>4 DEF SessionInv, CloseTrue, GoneP, GoneR, Settled, InSetup,
     Within, Unwatched, FieldTypes, OnlyTurn
<1>14. EvictTrue'
  BY <1>0, <1>1, <1>2, <1>3, <1>4 DEF SessionInv, EvictTrue, Unwatched
<1>15. OwnedTrue'
  BY <1>0, <1>1, <1>2, <1>3, <1>4 DEF SessionInv, OwnedTrue, OwnsP, OwnsR, GoneP, GoneR,
     FieldTypes, OnlyTurn
<1>16. ToolTrue'
  BY <1>0, <1>1, <1>2, <1>3, <1>4 DEF SessionInv, ToolTrue, FieldTypes, OnlyTurn, Waning
<1> QED BY <1>5, <1>6, <1>7, <1>8, <1>9, <1>10, <1>11, <1>12, <1>13, <1>14, <1>15, <1>16 DEF
   SessionInv

LEMMA ClosesClient ==
    ASSUME SessionInv, NEW t \in Callers, AbortClosesClient(t)
    PROVE  SessionInv'
<1> USE DEF Someone, Anything, Launches
<1>0. FieldTypes /\ DriverTypeOK /\ Callers \subseteq Actors /\ Nobody \notin Actors
  BY Fields, ActorsAssumption DEF SessionInv, Actors
<1>1. /\ UNCHANGED <<actor, relay, call, holds, watcher, closer, evictor>>
      /\ turn[t].settle = "client" /\ turn' = [turn EXCEPT ![t].settle = "join"]
      /\ release(turn[t].client) /\ NamedP(turn[t].client)
      /\ \E failed \in MayFail : noteCleanup(failed)
  BY DEF AbortClosesClient, SessionInv, NamedTrue
<1>2. /\ TurnTypes' /\ OnlyTurn(t) /\ turn'[t].settle = "join"
      /\ turn'[t].prompt = turn[t].prompt /\ turn'[t].ids = turn[t].ids
      /\ turn'[t].delivery = turn[t].delivery /\ turn'[t].client = turn[t].client
      /\ turn'[t].relay = turn[t].relay
  BY <1>0, <1>1, SettleIs
<1>3. /\ LaunchTypes' /\ Waning /\ GoneP(turn[t].client)'
      /\ \A l \in Launches \ {turn[t].client} : proc'[l] = proc[l]
  BY <1>0, <1>1, ReleaseIs DEF FieldTypes, NamedR
<1>4. \A x \in Anything : /\ (GoneP(x) => GoneP(x)') /\ (GoneR(x) => GoneR(x)')
                          /\ (NamedP(x) => NamedP(x)') /\ (NamedR(x) => NamedR(x)')
  BY <1>3, WaneIs
<1>5. DriverTypes' /\ SameDriver
  BY <1>0, <1>1, NoteIs
<1>6. DriverTypeOK'
  BY <1>0, <1>1, <1>2, <1>3, <1>5 DEF DriverTypeOK, ActorTypes, OtherTypes
<1>7. SetupTrue'
  BY <1>0, <1>1, <1>2, <1>3, <1>4, <1>5 DEF SessionInv, SetupTrue, InSetup, Within, SameDriver
<1>8. TurnTrue'
  BY <1>0, <1>1, <1>2, <1>3, <1>4, <1>5 DEF SessionInv, TurnTrue, SetupTrue, Active, OnlyTurn,
     SameDriver
<1>9. RoundTrue'
  BY <1>0, <1>1, <1>2, <1>3, <1>4, <1>5 DEF SessionInv, RoundTrue, TurnTrue, SetupTrue, InRound,
     FieldTypes, OnlyTurn, SameDriver
<1>10. NamedTrue'
  BY <1>0, <1>1, <1>2, <1>3, <1>4, <1>5 DEF SessionInv, NamedTrue, NamedP, NamedR, FieldTypes,
     Before, Within, OnlyTurn, SameDriver
<1>11. TurnHand'
  BY <1>0, <1>1, <1>2, <1>3, <1>4, <1>5 DEF SessionInv, TurnHand, GoneP, GoneR, FieldTypes,
     OnlyTurn, SameDriver
<1>12. \A b \in Actors : SetupHand(b)'
  BY <1>0, <1>1, <1>2, <1>3, <1>4, <1>5 DEF SessionInv, SetupHand, GoneP, GoneR, FieldTypes,
     SameDriver
<1>13. WatchTrue'
  BY <1>0, <1>1, <1>2, <1>3, <1>4, <1>5 DEF SessionInv, WatchTrue, Waning
<1>14. CloseTrue'
  BY <1>0, <1>1, <1>2, <1>3, <1>4, <1>5 DEF SessionInv, CloseTrue, GoneP, GoneR, Settled,
     InSetup, Within, Unwatched, FieldTypes, OnlyTurn, SameDriver
<1>15. EvictTrue'
  BY <1>0, <1>1, <1>2, <1>3, <1>4, <1>5 DEF SessionInv, EvictTrue, Unwatched, SameDriver
<1>16. OwnedTrue'
  BY <1>0, <1>1, <1>2, <1>3, <1>4, <1>5 DEF SessionInv, OwnedTrue, OwnsP, OwnsR, GoneP, GoneR,
     FieldTypes, OnlyTurn, SameDriver
<1>17. ToolTrue'
  BY <1>0, <1>1, <1>2, <1>3, <1>4, <1>5 DEF SessionInv, ToolTrue, FieldTypes, OnlyTurn, Waning,
     SameDriver
<1> QED BY <1>6, <1>7, <1>8, <1>9, <1>10, <1>11, <1>12, <1>13, <1>14, <1>15, <1>16, <1>17 DEF
   SessionInv

LEMMA AbortDone ==
    ASSUME SessionInv, NEW t \in Callers, AbortSettles(t)
    PROVE  SessionInv'
<1> USE DEF Someone, Anything, Launches
<1>0. FieldTypes /\ DriverTypeOK /\ Callers \subseteq Actors /\ Nobody \notin Actors
  BY Fields, ActorsAssumption DEF SessionInv, Actors
<1>1. /\ d.current = t
      /\ turn' = [turn EXCEPT ![t].settle = "done", ![t].delivery = Delivered(@)]
      /\ \E o \in Someone, x \in {d.state, "unstarted"} :
            /\ d' = [d EXCEPT !.outcome = o, !.current = Nobody, !.snapshot = Nobody,
                              !.client = Nobody, !.relay = Nobody, !.state = x]
            /\ x = IF d.closed THEN d.state ELSE "unstarted"
  <2>1. d.current = t
    BY DEF AbortSettles, SessionInv, TurnTrue, Active
  <2>2. d.outcome \in Someone
    BY <1>0, DriverIs
  <2> QED BY <2>1, <2>2 DEF AbortSettles
<1>2. /\ UNCHANGED <<actor, relay, call, proc, holds, watcher, closer, evictor>>
      /\ turn[t].settle = "join" /\ turn[t].prompt \in {"ok", "failed"} /\ d.current = t
      /\ turn[t].client = d.client /\ turn[t].relay = d.relay /\ GoneP(d.client) /\ GoneR(d.relay)
  BY <1>1 DEF AbortSettles, SessionInv, TurnHand
<1>3. /\ TurnTypes' /\ OnlyTurn(t) /\ turn'[t].settle = "done"
      /\ turn'[t].prompt = turn[t].prompt /\ turn'[t].ids = turn[t].ids
      /\ turn'[t].delivery # "open" /\ turn'[t].client = turn[t].client
      /\ turn'[t].relay = turn[t].relay
  <2> DEFINE r == [turn[t] EXCEPT !.settle = "done", !.delivery = Delivered(turn[t].delivery)]
  <2>1. turn[t] \in TurnRecord
    BY <1>0, TurnIs
  <2>2. /\ r \in TurnRecord /\ r.prompt = turn[t].prompt /\ r.ids = turn[t].ids
        /\ r.delivery # "open" /\ r.client = turn[t].client /\ r.relay = turn[t].relay
        /\ r.settle = "done"
    BY <2>1 DEF TurnRecord, Delivered
  <2>3. turn' = [turn EXCEPT ![t] = r]
    BY <1>1
  <2> HIDE DEF r
  <2> QED BY <1>0, <2>2, <2>3, TurnKeeps
<1>4. /\ DriverTypes' /\ d'.current = Nobody /\ d'.client = Nobody /\ d'.relay = Nobody
      /\ d'.closed = d.closed /\ d'.setup = d.setup
      /\ d'.state = IF d.closed THEN d.state ELSE "unstarted"
  BY <1>0, <1>1, DriverIs DEF DriverTypes, States
<1>5. DriverTypeOK'
  BY <1>0, <1>2, <1>3, <1>4 DEF DriverTypeOK, ActorTypes, OtherTypes, LaunchTypes
<1>6. SetupTrue'
  BY <1>0, <1>2, <1>3, <1>4 DEF SessionInv, SetupTrue, InSetup, Within
<1>7. TurnTrue'
  BY <1>0, <1>2, <1>3, <1>4 DEF SessionInv, TurnTrue, SetupTrue, Active, OnlyTurn
<1>8. RoundTrue'
  BY <1>0, <1>2, <1>3, <1>4 DEF SessionInv, RoundTrue, TurnTrue, SetupTrue, InRound, FieldTypes,
     OnlyTurn
<1>9. NamedTrue'
  BY <1>0, <1>2, <1>3, <1>4 DEF SessionInv, NamedTrue, NamedP, NamedR, FieldTypes, Before,
     Within, OnlyTurn
<1>10. TurnHand'
  BY <1>0, <1>2, <1>3, <1>4 DEF SessionInv, TurnHand, GoneP, GoneR, FieldTypes, OnlyTurn
<1>11. \A b \in Actors : SetupHand(b)'
  BY <1>0, <1>2, <1>3, <1>4 DEF SessionInv, SetupHand, GoneP, GoneR, FieldTypes, SetupTrue,
     InSetup, Within
<1>12. WatchTrue'
  BY <1>0, <1>2, <1>3, <1>4 DEF SessionInv, WatchTrue, Waning
<1>13. CloseTrue'
  BY <1>0, <1>2, <1>3, <1>4 DEF SessionInv, CloseTrue, GoneP, GoneR, Settled, InSetup, Within,
     Unwatched, FieldTypes, OnlyTurn
<1>14. EvictTrue'
  BY <1>0, <1>2, <1>3, <1>4 DEF SessionInv, EvictTrue, Unwatched
<1>15. OwnedTrue'
  BY SMTT(30), <1>0, <1>2, <1>3, <1>4 DEF SessionInv, OwnedTrue, OwnsP, OwnsR, GoneP, GoneR, FieldTypes,
     OnlyTurn
<1>16. ToolTrue'
  BY <1>0, <1>2, <1>3, <1>4 DEF SessionInv, ToolTrue, FieldTypes, OnlyTurn, Waning, GoneR
<1> QED BY <1>5, <1>6, <1>7, <1>8, <1>9, <1>10, <1>11, <1>12, <1>13, <1>14, <1>15, <1>16 DEF
   SessionInv

LEMMA CompleteDone ==
    ASSUME SessionInv, NEW t \in Callers, CompleteSettles(t)
    PROVE  SessionInv'
<1> USE DEF Someone, Anything, Launches
<1>0. FieldTypes /\ DriverTypeOK /\ Callers \subseteq Actors /\ Nobody \notin Actors
  BY Fields, ActorsAssumption DEF SessionInv, Actors
<1>1. /\ d.current = t /\ turn[t].prompt = "ok"
      /\ turn' = [turn EXCEPT ![t].settle = "done", ![t].delivery = Delivered(@)]
      /\ d' = [d EXCEPT !.current = Nobody, !.snapshot = t,
                        !.state = IF d.closed THEN @ ELSE "idle"]
  <2>1. d.current = t /\ turn[t].prompt = "ok"
    BY DEF CompleteSettles, SessionInv, TurnTrue, Active
  <2> QED BY <2>1 DEF CompleteSettles
<1>2. /\ UNCHANGED <<actor, relay, call, proc, holds, watcher, closer, evictor>>
      /\ turn[t].settle = "completing" /\ turn[t].prompt = "ok" /\ d.current = t
      /\ turn[t].client = d.client /\ turn[t].relay = d.relay
  BY <1>1 DEF CompleteSettles, SessionInv, TurnHand
<1>3. /\ TurnTypes' /\ OnlyTurn(t) /\ turn'[t].settle = "done"
      /\ turn'[t].prompt = turn[t].prompt /\ turn'[t].ids = turn[t].ids
      /\ turn'[t].delivery # "open" /\ turn'[t].client = turn[t].client
      /\ turn'[t].relay = turn[t].relay
  <2> DEFINE r == [turn[t] EXCEPT !.settle = "done", !.delivery = Delivered(turn[t].delivery)]
  <2>1. turn[t] \in TurnRecord
    BY <1>0, TurnIs
  <2>2. /\ r \in TurnRecord /\ r.prompt = turn[t].prompt /\ r.ids = turn[t].ids
        /\ r.delivery # "open" /\ r.client = turn[t].client /\ r.relay = turn[t].relay
        /\ r.settle = "done"
    BY <2>1 DEF TurnRecord, Delivered
  <2>3. turn' = [turn EXCEPT ![t] = r]
    BY <1>1
  <2> HIDE DEF r
  <2> QED BY <1>0, <2>2, <2>3, TurnKeeps
<1>4. /\ DriverTypes' /\ d'.current = Nobody /\ d'.client = d.client /\ d'.relay = d.relay
      /\ d'.closed = d.closed /\ d'.setup = d.setup
      /\ d'.state = IF d.closed THEN d.state ELSE "idle"
  BY <1>0, <1>1, DriverIs DEF DriverTypes, States
<1>5. DriverTypeOK'
  BY <1>0, <1>2, <1>3, <1>4 DEF DriverTypeOK, ActorTypes, OtherTypes, LaunchTypes
<1>6. SetupTrue'
  BY <1>0, <1>2, <1>3, <1>4 DEF SessionInv, SetupTrue, InSetup, Within
<1>7. TurnTrue'
  BY <1>0, <1>2, <1>3, <1>4 DEF SessionInv, TurnTrue, SetupTrue, Active, OnlyTurn
<1>8. RoundTrue'
  BY <1>0, <1>2, <1>3, <1>4 DEF SessionInv, RoundTrue, TurnTrue, SetupTrue, InRound, FieldTypes,
     OnlyTurn
<1>9. NamedTrue'
  BY <1>0, <1>2, <1>3, <1>4 DEF SessionInv, NamedTrue, NamedP, NamedR, FieldTypes, Before,
     Within, OnlyTurn
<1>10. TurnHand'
  BY <1>0, <1>2, <1>3, <1>4 DEF SessionInv, TurnHand, GoneP, GoneR, FieldTypes, OnlyTurn
<1>11. \A b \in Actors : SetupHand(b)'
  BY <1>0, <1>2, <1>3, <1>4 DEF SessionInv, SetupHand, GoneP, GoneR, FieldTypes
<1>12. WatchTrue'
  BY <1>0, <1>2, <1>3, <1>4 DEF SessionInv, WatchTrue, Waning
<1>13. CloseTrue'
  BY <1>0, <1>2, <1>3, <1>4 DEF SessionInv, CloseTrue, GoneP, GoneR, Settled, InSetup, Within,
     Unwatched, FieldTypes, OnlyTurn
<1>14. EvictTrue'
  BY <1>0, <1>2, <1>3, <1>4 DEF SessionInv, EvictTrue, Unwatched
<1>15. OwnedTrue'
  BY <1>0, <1>2, <1>3, <1>4 DEF SessionInv, OwnedTrue, OwnsP, OwnsR, GoneP, GoneR, FieldTypes,
     OnlyTurn
<1>16. ToolTrue'
  BY <1>0, <1>2, <1>3, <1>4 DEF SessionInv, ToolTrue, FieldTypes, OnlyTurn, Waning
<1> QED BY <1>5, <1>6, <1>7, <1>8, <1>9, <1>10, <1>11, <1>12, <1>13, <1>14, <1>15, <1>16 DEF
   SessionInv

----------------------------------------------------------------------------
(* The rounds of a turn.                                                   *)

SameLocals(a) ==
    /\ actor'[a].client = actor[a].client /\ actor'[a].prev = actor[a].prev
    /\ actor'[a].prevRelay = actor[a].prevRelay /\ actor'[a].setup = actor[a].setup
    /\ actor'[a].turn = actor[a].turn /\ actor'[a].batch = actor[a].batch
    /\ actor'[a].reused = actor[a].reused

LEMMA GoesOn ==
    ASSUME DriverTypeOK, NEW a \in Actors, NEW x \in Places, Goes(a, x)
    PROVE  ActorTypes' /\ OnlyActor(a) /\ actor'[a].pc = x /\ SameLocals(a)
<1>1. ActorTypes' /\ OnlyActor(a) /\ actor'[a] = [actor[a] EXCEPT !.pc = x]
  BY GoesIs
<1>2. actor[a] \in Record
  BY DEF DriverTypeOK, ActorTypes, Record
<1> QED BY <1>1, <1>2 DEF Record, SameLocals

\* The round of a request belongs to a turn.
LEMMA RoundIs ==
    ASSUME SessionInv, NEW c \in Callers, actor[c].pc \in {"round", "ended"}
    PROVE  /\ actor[c].turn \in Callers /\ turn[actor[c].turn] \in TurnRecord
           /\ c \in Actors /\ actor[c] \in Record
<1>1. actor[c].turn \in Callers
  BY Fields DEF SessionInv, RoundTrue, FieldTypes, Someone, Actors
<1> QED BY <1>1, TurnIs DEF SessionInv, DriverTypeOK, ActorTypes, Record, Actors

LEMMA Completes ==
    ASSUME SessionInv, NEW c \in Callers, FinishCompletes(c), turn[actor[c].turn].settle = "open"
    PROVE  SessionInv'
<1> USE DEF Someone, Anything, Launches
<1>0. FieldTypes /\ DriverTypeOK /\ Callers \subseteq Actors /\ Nobody \notin Actors
  BY Fields, ActorsAssumption DEF SessionInv, Actors
<1>1. /\ UNCHANGED <<d, relay, call, proc, holds, watcher, closer, evictor>>
      /\ actor[c].pc = "ended" /\ actor[c].batch = 0 /\ Goes(c, "settling")
  BY DEF FinishCompletes
<1>2. PICK t \in Callers : t = actor[c].turn
  BY <1>1, RoundIs
<1>3. ActorTypes' /\ OnlyActor(c) /\ actor'[c].pc = "settling" /\ SameLocals(c)
  BY <1>0, <1>1, GoesOn DEF Places, After
<1>4. /\ TurnTypes' /\ OnlyTurn(t) /\ turn'[t].settle = "completing"
      /\ turn'[t].prompt = turn[t].prompt /\ turn'[t].ids = turn[t].ids
      /\ turn'[t].delivery = turn[t].delivery /\ turn'[t].client = turn[t].client
      /\ turn'[t].relay = turn[t].relay
  <2>1. turn' = [turn EXCEPT ![t].settle = "completing"]
    BY <1>2 DEF FinishCompletes
  <2> QED BY <1>0, <2>1, SettleIs
<1>5. /\ UNCHANGED <<d, relay, call, proc, holds, watcher, closer, evictor>>
      /\ actor[c].pc = "ended" /\ turn[t].settle = "open" /\ turn[t].prompt = "ok"
      /\ d.current = t /\ turn[t].client = d.client /\ turn[t].relay = d.relay
  <2>1. d.current = t
    BY <1>2 DEF SessionInv, TurnTrue, Active
  <2>2. turn[t].prompt = "ok"
    BY <1>1, <1>2 DEF SessionInv, RoundTrue, InRound
  <2> QED BY <1>1, <1>2, <2>1, <2>2 DEF SessionInv, TurnHand
<1>6. DriverTypeOK'
  BY <1>0, <1>3, <1>4, <1>5 DEF DriverTypeOK, DriverTypes, OtherTypes, LaunchTypes
<1>7. SetupTrue'
  BY <1>0, <1>3, <1>4, <1>5 DEF SessionInv, SetupTrue, InSetup, Within, OnlyActor, SameLocals
<1>8. TurnTrue'
  BY <1>0, <1>3, <1>4, <1>5 DEF SessionInv, TurnTrue, SetupTrue, Active, OnlyActor, SameLocals,
     OnlyTurn
<1>9. RoundTrue'
  BY <1>0, <1>3, <1>4, <1>5 DEF SessionInv, RoundTrue, TurnTrue, SetupTrue, InRound, FieldTypes,
     OnlyActor, SameLocals, OnlyTurn
<1>10. NamedTrue'
  BY <1>0, <1>3, <1>4, <1>5 DEF SessionInv, NamedTrue, NamedP, NamedR, FieldTypes, Before,
     Within, OnlyActor, SameLocals, OnlyTurn
<1>11. TurnHand'
  BY <1>0, <1>3, <1>4, <1>5 DEF SessionInv, TurnHand, GoneP, GoneR, FieldTypes, OnlyTurn
<1>12. \A b \in Actors : SetupHand(b)'
  BY <1>0, <1>3, <1>4, <1>5 DEF SessionInv, SetupHand, GoneP, GoneR, FieldTypes, OnlyActor,
     SameLocals
<1>13. WatchTrue'
  BY <1>0, <1>3, <1>4, <1>5 DEF SessionInv, WatchTrue
<1>14. CloseTrue'
  BY <1>0, <1>3, <1>4, <1>5 DEF SessionInv, CloseTrue, GoneP, GoneR, Settled, InSetup, Within,
     Unwatched, FieldTypes, OnlyActor, SameLocals, OnlyTurn
<1>15. EvictTrue'
  BY <1>0, <1>3, <1>4, <1>5 DEF SessionInv, EvictTrue, Unwatched
<1>16. OwnedTrue'
  BY SMTT(30), <1>0, <1>3, <1>4, <1>5 DEF SessionInv, OwnedTrue, OwnsP, OwnsR, GoneP, GoneR, FieldTypes,
     OnlyActor, SameLocals, OnlyTurn
<1>17. ToolTrue'
  BY <1>0, <1>3, <1>4, <1>5 DEF SessionInv, ToolTrue, FieldTypes, OnlyTurn
<1> QED BY <1>6, <1>7, <1>8, <1>9, <1>10, <1>11, <1>12, <1>13, <1>14, <1>15, <1>16, <1>17 DEF
   SessionInv

LEMMA FinishesFinal ==
    ASSUME SessionInv, NEW c \in Callers, FinishCompletes(c)
    PROVE  SessionInv'
<1>1. CASE turn[actor[c].turn].settle = "open"
  BY <1>1, Completes
<1>2. CASE turn[actor[c].turn].settle # "open"
  <2>1. /\ UNCHANGED <<d, relay, call, proc, holds, watcher, closer, evictor>>
        /\ actor[c].pc = "ended" /\ Goes(c, "settling")
    BY DEF FinishCompletes
  <2>2. c \in Actors /\ actor[c].turn \in Callers /\ turn[actor[c].turn] \in TurnRecord
    BY <2>1, RoundIs
  <2>3. turn' = turn
    BY <1>2, <2>2 DEF FinishCompletes, SessionInv, DriverTypeOK, TurnTypes
  <2>4. ActorTypes' /\ OnlyActor(c) /\ actor'[c].pc = "settling" /\ SameLocals(c)
    BY <2>1, <2>2, GoesOn DEF Places, After, SessionInv
  <2>5. Moves(c)
    BY <2>1, <2>4 DEF Moves, SameLocals
  <2>6. TurnTypes' /\ LaunchTypes' /\ SameTurns /\ Waning
    BY <2>1, <2>3 DEF SessionInv, DriverTypeOK, TurnTypes, LaunchTypes, SameTurns, Waning
  <2> QED BY <2>1, <2>2, <2>4, <2>5, <2>6, WaneKeeps
<1> QED BY <1>1, <1>2

LEMMA Seals ==
    ASSUME SessionInv, NEW c \in Callers, NextSeals(c)
    PROVE  SessionInv'
<1> USE DEF Someone, Anything, Launches
<1>0. FieldTypes /\ DriverTypeOK /\ Callers \subseteq Actors /\ Nobody \notin Actors
  BY Fields, ActorsAssumption DEF SessionInv, Actors
<1>1. PICK t \in Callers, n \in Nat \ {0} :
         /\ t = actor[c].turn /\ n = turn[t].batches + 1
         /\ call' = [call EXCEPT ![turn[t].relay] = "sealed"]
         /\ turn' = [turn EXCEPT ![t].batches = n, ![t].ids = n]
         /\ actor' = [actor EXCEPT ![c].batch = n]
  <2>1. actor[c].pc = "round"
    BY DEF NextSeals
  <2>2. PICK t \in Callers : t = actor[c].turn
    BY <2>1, RoundIs
  <2>3. PICK n \in Nat \ {0} : n = turn[t].batches + 1
    BY <1>0 DEF FieldTypes
  <2> QED BY <2>2, <2>3 DEF NextSeals
<1>2. /\ UNCHANGED <<d, relay, proc, holds, watcher, closer, evictor>>
      /\ actor[c].pc = "round" /\ actor[c].turn = t /\ n # 0
      /\ ~d.closed /\ d.current = t /\ d.state = "prompting"
  BY <1>1 DEF NextSeals, Owns
<1>3. /\ ActorTypes' /\ OnlyActor(c) /\ actor'[c].pc = "round" /\ actor'[c].turn = t
      /\ actor'[c].batch = n /\ actor'[c].client = actor[c].client
      /\ actor'[c].prev = actor[c].prev /\ actor'[c].prevRelay = actor[c].prevRelay
  <2> DEFINE r == [actor[c] EXCEPT !.batch = n]
  <2>1. actor[c] \in Record
    BY <1>2, RoundIs
  <2>2. /\ r \in Record /\ r.pc = "round" /\ r.turn = t /\ r.batch = n /\ r.prev = actor[c].prev
        /\ r.client = actor[c].client /\ r.prevRelay = actor[c].prevRelay
    BY <1>2, <2>1 DEF Record
  <2>3. actor' = [actor EXCEPT ![c] = r]
    BY <1>1
  <2> HIDE DEF r
  <2> QED BY <1>0, <2>2, <2>3, ActorKeeps
<1>4. /\ TurnTypes' /\ OnlyTurn(t) /\ turn'[t].settle = turn[t].settle
      /\ turn'[t].prompt = turn[t].prompt /\ turn'[t].ids = n
      /\ turn'[t].delivery = turn[t].delivery /\ turn'[t].client = turn[t].client
      /\ turn'[t].relay = turn[t].relay
  <2> DEFINE r == [turn[t] EXCEPT !.batches = n, !.ids = n]
  <2>1. turn[t] \in TurnRecord
    BY <1>0, TurnIs
  <2>2. /\ r \in TurnRecord /\ r.settle = turn[t].settle /\ r.prompt = turn[t].prompt /\ r.ids = n
        /\ r.delivery = turn[t].delivery /\ r.client = turn[t].client /\ r.relay = turn[t].relay
    BY <2>1 DEF TurnRecord
  <2>3. turn' = [turn EXCEPT ![t] = r]
    BY <1>1
  <2> HIDE DEF r
  <2> QED BY <1>0, <2>2, <2>3, TurnKeeps
<1>5. /\ LaunchTypes' /\ \A l \in Launches : call'[l] \in {call[l], "sealed"}
      /\ \A l \in Launches \ {turn[t].relay} : call'[l] = call[l]
      /\ call[turn[t].relay] = "queued" /\ relay[turn[t].relay] = "open"
  BY ZenonT(60), <1>0, <1>1, <1>2 DEF NextSeals, DriverTypeOK, LaunchTypes
<1>6. DriverTypeOK'
  BY <1>0, <1>2, <1>3, <1>4, <1>5 DEF DriverTypeOK, DriverTypes, OtherTypes
<1>7. SetupTrue'
  BY <1>0, <1>2, <1>3, <1>4, <1>5 DEF SessionInv, SetupTrue, InSetup, Within, OnlyActor,
     SameLocals
<1>8. TurnTrue'
  BY <1>0, <1>2, <1>3, <1>4, <1>5 DEF SessionInv, TurnTrue, SetupTrue, Active, OnlyActor,
     SameLocals, OnlyTurn
<1>9. RoundTrue'
  BY <1>0, <1>2, <1>3, <1>4, <1>5 DEF SessionInv, RoundTrue, TurnTrue, SetupTrue, InRound,
     FieldTypes, OnlyActor, SameLocals, OnlyTurn
<1>10. NamedTrue'
  BY <1>0, <1>2, <1>3, <1>4, <1>5 DEF SessionInv, NamedTrue, NamedP, NamedR, FieldTypes, Before,
     Within, OnlyActor, SameLocals, OnlyTurn
<1>11. TurnHand'
  BY <1>0, <1>2, <1>3, <1>4, <1>5 DEF SessionInv, TurnHand, GoneP, GoneR, FieldTypes, OnlyTurn
<1>12. \A b \in Actors : SetupHand(b)'
  BY <1>0, <1>2, <1>3, <1>4, <1>5 DEF SessionInv, SetupHand, GoneP, GoneR, FieldTypes, OnlyActor,
     SameLocals
<1>13. WatchTrue'
  BY <1>0, <1>2, <1>3, <1>4, <1>5 DEF SessionInv, WatchTrue
<1>14. CloseTrue'
  BY <1>0, <1>2, <1>3, <1>4, <1>5 DEF SessionInv, CloseTrue, GoneP, GoneR, Settled, InSetup,
     Within, Unwatched, FieldTypes, OnlyActor, SameLocals, OnlyTurn
<1>15. EvictTrue'
  BY <1>0, <1>2, <1>3, <1>4, <1>5 DEF SessionInv, EvictTrue, Unwatched
<1>16. OwnedTrue'
  <2>1. \A b \in Actors : actor[b].pc \in Within => actor'[b] = actor[b]
    BY <1>2, <1>3, <1>4 DEF OnlyActor, Within
  <2>2. Waning
    BY <1>2, <1>3, <1>4 DEF Waning
  <2>3. \A u \in Callers : /\ \/ turn'[u].settle = turn[u].settle
                              \/ turn[u].settle = "open" /\ turn'[u].settle = "relay"
                           /\ turn'[u].client = turn[u].client /\ turn'[u].relay = turn[u].relay
    BY <1>0, <1>4 DEF OnlyTurn
  <2> QED BY <1>2, <1>3, <1>4, <2>1, <2>2, <2>3, OwnersKeep DEF SessionInv
<1>17. ToolTrue'
  BY <1>0, <1>2, <1>3, <1>4, <1>5 DEF SessionInv, ToolTrue, FieldTypes, OnlyTurn
<1> QED BY <1>6, <1>7, <1>8, <1>9, <1>10, <1>11, <1>12, <1>13, <1>14, <1>15, <1>16, <1>17 DEF
   SessionInv

LEMMA EndsResponse ==
    ASSUME SessionInv, NEW c \in Callers, NextEnds(c)
    PROVE  SessionInv'
<1> USE DEF Someone, Anything, Launches
<1>0. FieldTypes /\ DriverTypeOK /\ Callers \subseteq Actors /\ Nobody \notin Actors
  BY Fields, ActorsAssumption DEF SessionInv, Actors
<1>1. PICK t \in Callers : t = actor[c].turn /\ turn' = [turn EXCEPT ![t].delivery = "open"]
  <2>1. actor[c].pc = "round"
    BY DEF NextEnds
  <2>2. PICK t \in Callers : t = actor[c].turn
    BY <2>1, RoundIs
  <2> QED BY <2>2 DEF NextEnds
<1>2. /\ UNCHANGED <<d, relay, call, proc, holds, watcher, closer, evictor>>
      /\ actor[c].pc = "round" /\ actor[c].turn = t
      /\ ~d.closed /\ d.current = t /\ d.state = "prompting"
      /\ actor[c].batch # 0 \/ turn[t].prompt = "ok"
  BY <1>1 DEF NextEnds, Owns
<1>3. ActorTypes' /\ OnlyActor(c) /\ actor'[c].pc = "ended" /\ SameLocals(c)
  BY <1>0, GoesOn DEF NextEnds, Places, After
<1>4. /\ TurnTypes' /\ OnlyTurn(t) /\ turn'[t].settle = turn[t].settle
      /\ turn'[t].prompt = turn[t].prompt /\ turn'[t].ids = turn[t].ids
      /\ turn'[t].delivery = "open" /\ turn'[t].client = turn[t].client
      /\ turn'[t].relay = turn[t].relay
  <2> DEFINE r == [turn[t] EXCEPT !.delivery = "open"]
  <2>1. turn[t] \in TurnRecord
    BY <1>0, TurnIs
  <2>2. /\ r \in TurnRecord /\ r.settle = turn[t].settle /\ r.prompt = turn[t].prompt
        /\ r.ids = turn[t].ids
        /\ r.delivery = "open" /\ r.client = turn[t].client /\ r.relay = turn[t].relay
    BY <2>1 DEF TurnRecord
  <2>3. turn' = [turn EXCEPT ![t] = r]
    BY <1>1
  <2> HIDE DEF r
  <2> QED BY <1>0, <2>2, <2>3, TurnKeeps
<1>5. DriverTypeOK'
  BY <1>0, <1>2, <1>3, <1>4 DEF DriverTypeOK, DriverTypes, OtherTypes, LaunchTypes
<1>6. SetupTrue'
  BY <1>0, <1>2, <1>3, <1>4 DEF SessionInv, SetupTrue, InSetup, Within, OnlyActor, SameLocals
<1>7. TurnTrue'
  BY <1>0, <1>2, <1>3, <1>4 DEF SessionInv, TurnTrue, SetupTrue, Active, OnlyActor, SameLocals,
     OnlyTurn
<1>8. RoundTrue'
  BY <1>0, <1>2, <1>3, <1>4 DEF SessionInv, RoundTrue, TurnTrue, SetupTrue, InRound, FieldTypes,
     OnlyActor, SameLocals, OnlyTurn
<1>9. NamedTrue'
  BY <1>0, <1>2, <1>3, <1>4 DEF SessionInv, NamedTrue, NamedP, NamedR, FieldTypes, Before,
     Within, OnlyActor, SameLocals, OnlyTurn
<1>10. TurnHand'
  BY <1>0, <1>2, <1>3, <1>4 DEF SessionInv, TurnHand, GoneP, GoneR, FieldTypes, OnlyTurn
<1>11. \A b \in Actors : SetupHand(b)'
  BY <1>0, <1>2, <1>3, <1>4 DEF SessionInv, SetupHand, GoneP, GoneR, FieldTypes, OnlyActor,
     SameLocals
<1>12. WatchTrue'
  BY <1>0, <1>2, <1>3, <1>4 DEF SessionInv, WatchTrue
<1>13. CloseTrue'
  BY <1>0, <1>2, <1>3, <1>4 DEF SessionInv, CloseTrue, GoneP, GoneR, Settled, InSetup, Within,
     Unwatched, FieldTypes, OnlyActor, SameLocals, OnlyTurn
<1>14. EvictTrue'
  BY <1>0, <1>2, <1>3, <1>4 DEF SessionInv, EvictTrue, Unwatched
<1>15. OwnedTrue'
  <2>1. \A b \in Actors : actor[b].pc \in Within => actor'[b] = actor[b]
    BY <1>2, <1>3, <1>4 DEF OnlyActor, Within
  <2>2. Waning
    BY <1>2, <1>3, <1>4 DEF Waning
  <2>3. \A u \in Callers : /\ \/ turn'[u].settle = turn[u].settle
                              \/ turn[u].settle = "open" /\ turn'[u].settle = "relay"
                           /\ turn'[u].client = turn[u].client /\ turn'[u].relay = turn[u].relay
    BY <1>0, <1>4 DEF OnlyTurn
  <2> QED BY <1>2, <1>3, <1>4, <2>1, <2>2, <2>3, OwnersKeep DEF SessionInv
<1>16. ToolTrue'
  BY <1>0, <1>2, <1>3, <1>4 DEF SessionInv, ToolTrue, FieldTypes, OnlyTurn
<1> QED BY <1>5, <1>6, <1>7, <1>8, <1>9, <1>10, <1>11, <1>12, <1>13, <1>14, <1>15, <1>16 DEF
   SessionInv

LEMMA Calls ==
    ASSUME SessionInv, NEW t \in Callers, ToolCall(t)
    PROVE  SessionInv'
<1> USE DEF Someone, Anything, Launches
<1>0. FieldTypes /\ DriverTypeOK /\ Callers \subseteq Actors /\ Nobody \notin Actors
  BY Fields, ActorsAssumption DEF SessionInv, Actors
<1>1. /\ UNCHANGED <<d, actor, turn, relay, proc, holds, watcher, closer, evictor>>
      /\ turn[t].prompt = "running" /\ d.current = t
  BY DEF ToolCall, SessionInv, TurnTrue
<1>2. /\ LaunchTypes' /\ \A l \in Launches : call'[l] \in {call[l], "queued"}
      /\ \A l \in Launches \ {turn[t].relay} : call'[l] = call[l]
      /\ relay[turn[t].relay] = "open"
  BY <1>0 DEF ToolCall, DriverTypeOK, LaunchTypes
<1>3. DriverTypeOK'
  BY <1>0, <1>1, <1>2 DEF DriverTypeOK, DriverTypes, OtherTypes, ActorTypes, TurnTypes
<1>4. SetupTrue'
  BY <1>0, <1>1, <1>2 DEF SessionInv, SetupTrue, InSetup, Within
<1>5. TurnTrue'
  BY <1>0, <1>1, <1>2 DEF SessionInv, TurnTrue, SetupTrue, Active
<1>6. RoundTrue'
  BY <1>0, <1>1, <1>2 DEF SessionInv, RoundTrue, TurnTrue, SetupTrue, InRound, FieldTypes
<1>7. NamedTrue'
  BY <1>0, <1>1, <1>2 DEF SessionInv, NamedTrue, NamedP, NamedR, FieldTypes, Before, Within
<1>8. TurnHand'
  BY <1>0, <1>1, <1>2 DEF SessionInv, TurnHand, GoneP, GoneR, FieldTypes
<1>9. \A b \in Actors : SetupHand(b)'
  BY <1>0, <1>1, <1>2 DEF SessionInv, SetupHand, GoneP, GoneR, FieldTypes
<1>10. WatchTrue'
  BY <1>0, <1>1, <1>2 DEF SessionInv, WatchTrue
<1>11. CloseTrue'
  BY <1>0, <1>1, <1>2 DEF SessionInv, CloseTrue, GoneP, GoneR, Settled, InSetup, Within,
     Unwatched, FieldTypes
<1>12. EvictTrue'
  BY <1>0, <1>1, <1>2 DEF SessionInv, EvictTrue, Unwatched
<1>13. OwnedTrue'
  BY <1>0, <1>1, <1>2 DEF SessionInv, OwnedTrue, OwnsP, OwnsR, GoneP, GoneR, FieldTypes
<1>14. ToolTrue'
  BY <1>0, <1>1, <1>2 DEF SessionInv, ToolTrue, FieldTypes
<1> QED BY <1>3, <1>4, <1>5, <1>6, <1>7, <1>8, <1>9, <1>10, <1>11, <1>12, <1>13, <1>14 DEF
   SessionInv

LEMMA Returns ==
    ASSUME SessionInv, NEW t \in Callers, PromptReturns(t)
    PROVE  SessionInv'
<1> USE DEF Someone, Anything, Launches
<1>0. FieldTypes /\ DriverTypeOK /\ Callers \subseteq Actors /\ Nobody \notin Actors
  BY Fields, ActorsAssumption DEF SessionInv, Actors
<1>1. PICK x \in {"ok", "failed"} :
         /\ turn' = [turn EXCEPT ![t].prompt = x]
         /\ x = "ok" => call[turn[t].relay] = "none"
  BY DEF PromptReturns
<1>2. /\ UNCHANGED <<d, actor, call, proc, holds, watcher, closer, evictor>>
      /\ turn[t].prompt = "running" /\ d.current = t /\ x \in {"ok", "failed"}
      /\ x = "ok" => call[turn[t].relay] = "none"
  BY <1>1 DEF PromptReturns, SessionInv, TurnTrue
<1>3. /\ TurnTypes' /\ OnlyTurn(t) /\ turn'[t].settle = turn[t].settle
      /\ turn'[t].prompt = x /\ turn'[t].ids = turn[t].ids
      /\ turn'[t].delivery = turn[t].delivery /\ turn'[t].client = turn[t].client
      /\ turn'[t].relay = turn[t].relay
  <2> DEFINE r == [turn[t] EXCEPT !.prompt = x]
  <2>1. turn[t] \in TurnRecord
    BY <1>0, TurnIs
  <2>2. /\ r \in TurnRecord /\ r.settle = turn[t].settle /\ r.prompt = x /\ r.ids = turn[t].ids
        /\ r.delivery = turn[t].delivery /\ r.client = turn[t].client /\ r.relay = turn[t].relay
    BY <2>1 DEF TurnRecord
  <2>3. turn' = [turn EXCEPT ![t] = r]
    BY <1>1
  <2> HIDE DEF r
  <2> QED BY <1>0, <2>2, <2>3, TurnKeeps
<1>4. LaunchTypes' /\ Waning /\ \A l \in Launches : relay'[l] \in {relay[l], "failed"}
  BY <1>0, <1>2 DEF PromptReturns, DriverTypeOK, LaunchTypes, Waning
<1>5. \A y \in Anything : /\ (GoneP(y) => GoneP(y)') /\ (GoneR(y) => GoneR(y)')
                          /\ (NamedP(y) => NamedP(y)') /\ (NamedR(y) => NamedR(y)')
  BY <1>4, WaneIs
<1>6. DriverTypeOK'
  BY <1>0, <1>2, <1>3, <1>4 DEF DriverTypeOK, DriverTypes, OtherTypes, ActorTypes
<1>7. SetupTrue'
  BY <1>0, <1>2, <1>3, <1>4, <1>5 DEF SessionInv, SetupTrue, InSetup, Within
<1>8. TurnTrue'
  BY <1>0, <1>2, <1>3, <1>4, <1>5 DEF SessionInv, TurnTrue, SetupTrue, Active, OnlyTurn
<1>9. RoundTrue'
  BY <1>0, <1>2, <1>3, <1>4, <1>5 DEF SessionInv, RoundTrue, TurnTrue, SetupTrue, InRound,
     FieldTypes, OnlyTurn
<1>10. NamedTrue'
  <2>1. \A l \in Launches : /\ (proc'[l] = "none" <=> proc[l] = "none")
                            /\ (relay'[l] = "none" <=> relay[l] = "none")
    BY <1>4 DEF Waning
  <2>2. \A u \in Callers : turn'[u].client = turn[u].client /\ turn'[u].relay = turn[u].relay
    BY <1>3 DEF OnlyTurn
  <2> QED BY <1>0, <1>2, <2>1, <2>2 DEF SessionInv, NamedTrue, NamedP, NamedR, FieldTypes
<1>11. TurnHand'
  BY <1>0, <1>2, <1>3, <1>4, <1>5 DEF SessionInv, TurnHand, GoneP, GoneR, FieldTypes, OnlyTurn
<1>12. \A b \in Actors : SetupHand(b)'
  BY <1>0, <1>2, <1>3, <1>4, <1>5 DEF SessionInv, SetupHand, GoneP, GoneR, FieldTypes
<1>13. WatchTrue'
  BY <1>0, <1>2, <1>3, <1>4, <1>5 DEF SessionInv, WatchTrue
<1>14. CloseTrue'
  BY <1>0, <1>2, <1>3, <1>4, <1>5 DEF SessionInv, CloseTrue, GoneP, GoneR, Settled, InSetup,
     Within, Unwatched, FieldTypes, OnlyTurn
<1>15. EvictTrue'
  BY <1>0, <1>2, <1>3, <1>4, <1>5 DEF SessionInv, EvictTrue, Unwatched
<1>16. OwnedTrue'
  BY SMTT(30), <1>0, <1>2, <1>3, <1>4, <1>5 DEF SessionInv, OwnedTrue, OwnsP, OwnsR, GoneP, GoneR,
     FieldTypes, OnlyTurn, Waning
<1>17. ToolTrue'
  BY <1>0, <1>2, <1>3, <1>4, <1>5 DEF SessionInv, ToolTrue, FieldTypes, OnlyTurn, Waning
<1> QED BY <1>6, <1>7, <1>8, <1>9, <1>10, <1>11, <1>12, <1>13, <1>14, <1>15, <1>16, <1>17 DEF
   SessionInv

LEMMA GetsIs ==
    ASSUME DriverTypeOK, NEW c \in Actors, NEW t \in Callers, GetsRound(c, t)
    PROVE  /\ ActorTypes' /\ OnlyActor(c) /\ actor'[c].pc = "round" /\ actor'[c].turn = t
           /\ actor'[c].batch = 0 /\ actor'[c].client = Nobody /\ actor'[c].prev = Nobody
           /\ actor'[c].prevRelay = Nobody
<1> DEFINE r == [Locals EXCEPT !.pc = "round", !.turn = t]
<1>1. /\ r \in Record /\ r.pc = "round" /\ r.turn = t /\ r.batch = 0 /\ r.client = Nobody
      /\ r.prev = Nobody /\ r.prevRelay = Nobody
  BY DEF Locals, Record, Places, After, Someone, Anything
<1>2. actor' = [actor EXCEPT ![c] = r]
  BY DEF GetsRound
<1> HIDE DEF r
<1> QED BY <1>1, <1>2, ActorKeeps

LEMMA Resumes ==
    ASSUME SessionInv, NEW c \in Callers, StartResumes(c)
    PROVE  SessionInv'
<1> USE DEF Someone, Anything, Launches
<1>0. FieldTypes /\ DriverTypeOK /\ Callers \subseteq Actors /\ Nobody \notin Actors
  BY Fields, ActorsAssumption DEF SessionInv, Actors
<1>1. PICK t \in Callers : /\ t = d.current /\ turn' = [turn EXCEPT ![t].ids = 0]
                              /\ GetsRound(c, t) /\ d' = [d EXCEPT !.state = "prompting"]
  BY <1>0 DEF StartResumes, Resumable, Answers, FieldTypes
<1>2. /\ UNCHANGED <<relay, proc, holds, watcher, closer, evictor>>
      /\ actor[c].pc = "routing" /\ d.current = t /\ d.state = "waiting"
  BY <1>1 DEF StartResumes, Resumable
<1>3. /\ ~d.closed /\ Active(t) /\ turn[t].settle # "none"
      /\ turn[c].settle = "none" /\ \A b \in Callers : InRound(b) => actor[b].turn # t
  BY <1>2 DEF SessionInv, SetupTrue, TurnTrue, RoundTrue, Active
<1>4. /\ ActorTypes' /\ OnlyActor(c) /\ actor'[c].pc = "round" /\ actor'[c].turn = t
      /\ actor'[c].batch = 0 /\ actor'[c].client = Nobody /\ actor'[c].prev = Nobody
      /\ actor'[c].prevRelay = Nobody
  BY <1>0, <1>1, GetsIs
<1>5. /\ TurnTypes' /\ OnlyTurn(t) /\ turn'[t].settle = turn[t].settle
      /\ turn'[t].prompt = turn[t].prompt /\ turn'[t].ids = 0
      /\ turn'[t].delivery = turn[t].delivery /\ turn'[t].client = turn[t].client
      /\ turn'[t].relay = turn[t].relay
  <2> DEFINE r == [turn[t] EXCEPT !.ids = 0]
  <2>1. turn[t] \in TurnRecord
    BY <1>0, TurnIs
  <2>2. /\ r \in TurnRecord /\ r.settle = turn[t].settle /\ r.prompt = turn[t].prompt /\ r.ids = 0
        /\ r.delivery = turn[t].delivery /\ r.client = turn[t].client /\ r.relay = turn[t].relay
    BY <2>1 DEF TurnRecord
  <2>3. turn' = [turn EXCEPT ![t] = r]
    BY <1>1
  <2> HIDE DEF r
  <2> QED BY <1>0, <2>2, <2>3, TurnKeeps
<1>6. /\ DriverTypes' /\ d'.state = "prompting" /\ d'.closed = d.closed /\ d'.client = d.client
      /\ d'.relay = d.relay /\ d'.current = d.current /\ d'.setup = d.setup
  BY <1>0, <1>1, DriverIs DEF DriverTypes, States
<1>7. /\ LaunchTypes'
      /\ \A l \in Launches : call'[l] = IF l = turn[t].relay THEN "none" ELSE call[l]
  BY <1>0, <1>1, <1>2 DEF StartResumes, DriverTypeOK, LaunchTypes
<1>8. DriverTypeOK'
  BY <1>0, <1>2, <1>4, <1>5, <1>6, <1>7 DEF DriverTypeOK, OtherTypes
<1>9. SetupTrue'
  BY <1>0, <1>2, <1>3, <1>4, <1>5, <1>6, <1>7 DEF SessionInv, SetupTrue, InSetup, Within,
     OnlyActor, SameLocals
<1>10. TurnTrue'
  BY <1>0, <1>2, <1>3, <1>4, <1>5, <1>6, <1>7 DEF SessionInv, TurnTrue, SetupTrue, Active,
     OnlyActor, SameLocals, OnlyTurn
<1>11. RoundTrue'
  BY <1>0, <1>2, <1>3, <1>4, <1>5, <1>6, <1>7 DEF SessionInv, RoundTrue, TurnTrue, SetupTrue,
     InRound, FieldTypes, OnlyActor, SameLocals, OnlyTurn
<1>12. NamedTrue'
  BY <1>0, <1>2, <1>3, <1>4, <1>5, <1>6, <1>7 DEF SessionInv, NamedTrue, NamedP, NamedR,
     FieldTypes, Before, Within, OnlyActor, SameLocals, OnlyTurn
<1>13. TurnHand'
  BY <1>0, <1>2, <1>3, <1>4, <1>5, <1>6, <1>7 DEF SessionInv, TurnHand, GoneP, GoneR, FieldTypes,
     OnlyTurn
<1>14. \A b \in Actors : SetupHand(b)'
  BY <1>0, <1>2, <1>3, <1>4, <1>5, <1>6, <1>7 DEF SessionInv, SetupHand, GoneP, GoneR,
     FieldTypes, OnlyActor, SameLocals
<1>15. WatchTrue'
  BY <1>0, <1>2, <1>3, <1>4, <1>5, <1>6, <1>7 DEF SessionInv, WatchTrue
<1>16. CloseTrue'
  BY <1>0, <1>2, <1>3, <1>4, <1>5, <1>6, <1>7 DEF SessionInv, CloseTrue, GoneP, GoneR, Settled,
     InSetup, Within, Unwatched, FieldTypes, OnlyActor, SameLocals, OnlyTurn
<1>17. EvictTrue'
  BY <1>0, <1>2, <1>3, <1>4, <1>5, <1>6, <1>7 DEF SessionInv, EvictTrue, Unwatched
<1>18. OwnedTrue'
  BY SMTT(30), <1>0, <1>2, <1>3, <1>4, <1>5, <1>6, <1>7 DEF SessionInv, OwnedTrue, OwnsP, OwnsR, GoneP,
     GoneR, FieldTypes, OnlyActor, SameLocals, OnlyTurn
<1>19. ToolTrue'
  BY <1>0, <1>2, <1>3, <1>4, <1>5, <1>6, <1>7 DEF SessionInv, ToolTrue, FieldTypes, OnlyTurn
<1> QED BY <1>8, <1>9, <1>10, <1>11, <1>12, <1>13, <1>14, <1>15, <1>16, <1>17, <1>18, <1>19 DEF
   SessionInv

LEMMA HandsOff ==
    ASSUME SessionInv, NEW c \in Callers, FinishHandsOff(c),
           relay[turn[actor[c].turn].relay] = "open", call[turn[actor[c].turn].relay] = "sealed"
    PROVE  SessionInv'
<1> USE DEF Someone, Anything, Launches
<1>0. FieldTypes /\ DriverTypeOK /\ Callers \subseteq Actors /\ Nobody \notin Actors
  BY Fields, ActorsAssumption DEF SessionInv, Actors
<1>1. PICK t \in Callers : t = actor[c].turn
  <2>1. actor[c].pc = "ended"
    BY DEF FinishHandsOff
  <2> QED BY <2>1, RoundIs
<1>2. /\ UNCHANGED <<relay, proc, holds, watcher, closer, evictor>>
      /\ actor[c].pc = "ended" /\ actor[c].batch # 0 /\ actor[c].turn = t /\ d.current = t
      /\ ~d.closed
      /\ d.state = "prompting" /\ turn[t].ids # 0
      /\ \A b \in Callers : InRound(b) /\ actor[b].turn = t => b = c
  <2>1. /\ UNCHANGED <<relay, proc, holds, watcher, closer, evictor>>
        /\ actor[c].pc = "ended" /\ actor[c].batch # 0 /\ actor[c].turn = t /\ d.current = t
        /\ ~d.closed
    BY <1>1 DEF FinishHandsOff
  <2> QED BY <2>1 DEF SessionInv, RoundTrue, InRound
<1>3. /\ DriverTypes' /\ d'.state = "waiting" /\ d'.closed = d.closed /\ d'.client = d.client
      /\ d'.relay = d.relay /\ d'.current = d.current /\ d'.setup = d.setup
  <2>1. d' = [d EXCEPT !.state = "waiting"]
    BY DEF FinishHandsOff
  <2> QED BY <1>0, <2>1, DriverIs DEF DriverTypes, States
<1>4. /\ turn' = [turn EXCEPT ![t].delivery = Delivered(@)] /\ Ends(c)
      /\ call' = [call EXCEPT ![turn[t].relay] = "delivered"]
  BY <1>1 DEF FinishHandsOff
<1>5. /\ ActorTypes' /\ OnlyActor(c) /\ actor'[c].pc = "over" /\ actor'[c].client = Nobody
      /\ actor'[c].prev = Nobody /\ actor'[c].prevRelay = Nobody
  BY <1>0, <1>4, EndsIs
<1>6. /\ TurnTypes' /\ OnlyTurn(t) /\ turn'[t].settle = turn[t].settle
      /\ turn'[t].prompt = turn[t].prompt /\ turn'[t].ids = turn[t].ids
      /\ turn'[t].delivery # "open" /\ turn'[t].client = turn[t].client
      /\ turn'[t].relay = turn[t].relay
  <2> DEFINE r == [turn[t] EXCEPT !.delivery = Delivered(turn[t].delivery)]
  <2>1. turn[t] \in TurnRecord
    BY <1>0, TurnIs
  <2>2. /\ r \in TurnRecord /\ r.settle = turn[t].settle /\ r.prompt = turn[t].prompt
        /\ r.ids = turn[t].ids /\ r.delivery # "open" /\ r.client = turn[t].client
        /\ r.relay = turn[t].relay
    BY <2>1 DEF TurnRecord, Delivered
  <2>3. turn' = [turn EXCEPT ![t] = r]
    BY <1>4
  <2> HIDE DEF r
  <2> QED BY <1>0, <2>2, <2>3, TurnKeeps
<1>7. /\ LaunchTypes' /\ relay[turn[t].relay] = "open" /\ call[turn[t].relay] = "sealed"
      /\ \A l \in Launches : call'[l] = IF l = turn[t].relay THEN "delivered" ELSE call[l]
  BY <1>0, <1>1, <1>2, <1>4 DEF DriverTypeOK, LaunchTypes
<1>8. DriverTypeOK'
  BY <1>0, <1>2, <1>3, <1>5, <1>6, <1>7 DEF DriverTypeOK, OtherTypes
<1>9. SetupTrue'
  BY <1>0, <1>2, <1>3, <1>5, <1>6, <1>7 DEF SessionInv, SetupTrue, InSetup, Within, OnlyActor,
     SameLocals
<1>10. TurnTrue'
  BY <1>0, <1>2, <1>3, <1>5, <1>6, <1>7 DEF SessionInv, TurnTrue, SetupTrue, Active, OnlyActor,
     SameLocals, OnlyTurn
<1>11. RoundTrue'
  BY <1>0, <1>2, <1>3, <1>5, <1>6, <1>7 DEF SessionInv, RoundTrue, TurnTrue, SetupTrue, InRound,
     FieldTypes, OnlyActor, SameLocals, OnlyTurn
<1>12. NamedTrue'
  BY <1>0, <1>2, <1>3, <1>5, <1>6, <1>7 DEF SessionInv, NamedTrue, NamedP, NamedR, FieldTypes,
     Before, Within, OnlyActor, SameLocals, OnlyTurn
<1>13. TurnHand'
  BY <1>0, <1>2, <1>3, <1>5, <1>6, <1>7 DEF SessionInv, TurnHand, GoneP, GoneR, FieldTypes,
     OnlyTurn
<1>14. \A b \in Actors : SetupHand(b)'
  BY <1>0, <1>2, <1>3, <1>5, <1>6, <1>7 DEF SessionInv, SetupHand, GoneP, GoneR, FieldTypes,
     OnlyActor, SameLocals
<1>15. WatchTrue'
  BY <1>0, <1>2, <1>3, <1>5, <1>6, <1>7 DEF SessionInv, WatchTrue
<1>16. CloseTrue'
  BY <1>0, <1>2, <1>3, <1>5, <1>6, <1>7 DEF SessionInv, CloseTrue, GoneP, GoneR, Settled,
     InSetup, Within, Unwatched, FieldTypes, OnlyActor, SameLocals, OnlyTurn
<1>17. EvictTrue'
  BY <1>0, <1>2, <1>3, <1>5, <1>6, <1>7 DEF SessionInv, EvictTrue, Unwatched
<1>18. OwnedTrue'
  BY SMTT(30), <1>0, <1>2, <1>3, <1>5, <1>6, <1>7 DEF SessionInv, OwnedTrue, OwnsP, OwnsR, GoneP, GoneR,
     FieldTypes, OnlyActor, SameLocals, OnlyTurn
<1>19. ToolTrue'
  BY <1>0, <1>2, <1>3, <1>5, <1>6, <1>7 DEF SessionInv, ToolTrue, FieldTypes, OnlyTurn
<1> QED BY <1>8, <1>9, <1>10, <1>11, <1>12, <1>13, <1>14, <1>15, <1>16, <1>17, <1>18, <1>19 DEF
   SessionInv

LEMMA HandsOver ==
    ASSUME SessionInv, NEW c \in Callers, FinishHandsOff(c),
           ~(relay[turn[actor[c].turn].relay] = "open" /\ call[turn[actor[c].turn].relay] = "sealed")
    PROVE  SessionInv'
<1> USE DEF Someone, Anything, Launches
<1>0. FieldTypes /\ DriverTypeOK /\ Callers \subseteq Actors /\ Nobody \notin Actors
  BY Fields, ActorsAssumption DEF SessionInv, Actors
<1>1. PICK t \in Callers : t = actor[c].turn
  <2>1. actor[c].pc = "ended"
    BY DEF FinishHandsOff
  <2> QED BY <2>1, RoundIs
<1>2. /\ UNCHANGED <<relay, proc, holds, watcher, closer, evictor>>
      /\ actor[c].pc = "ended" /\ actor[c].batch # 0 /\ actor[c].turn = t /\ d.current = t
      /\ ~d.closed
      /\ d.state = "prompting" /\ turn[t].ids # 0
      /\ \A b \in Callers : InRound(b) /\ actor[b].turn = t => b = c
  <2>1. /\ UNCHANGED <<relay, proc, holds, watcher, closer, evictor>>
        /\ actor[c].pc = "ended" /\ actor[c].batch # 0 /\ actor[c].turn = t /\ d.current = t
        /\ ~d.closed
    BY <1>1 DEF FinishHandsOff
  <2> QED BY <2>1 DEF SessionInv, RoundTrue, InRound
<1>3. /\ DriverTypes' /\ d'.state = "waiting" /\ d'.closed = d.closed /\ d'.client = d.client
      /\ d'.relay = d.relay /\ d'.current = d.current /\ d'.setup = d.setup
  <2>1. d' = [d EXCEPT !.state = "waiting"]
    BY DEF FinishHandsOff
  <2> QED BY <1>0, <2>1, DriverIs DEF DriverTypes, States
<1>4. turn' = aborted(t) /\ Goes(c, "settling") /\ UNCHANGED call
  BY <1>1 DEF FinishHandsOff
<1>5. /\ ActorTypes' /\ OnlyActor(c) /\ actor'[c].pc = "settling" /\ SameLocals(c)
  BY <1>0, <1>4, GoesOn DEF Places, After
<1>6. TurnTypes' /\ SameTurns
  BY <1>0, <1>4, AbortedIs
<1>7. LaunchTypes' /\ UNCHANGED call
  BY <1>0, <1>2, <1>4 DEF DriverTypeOK, LaunchTypes
<1>8. DriverTypeOK'
  BY <1>0, <1>2, <1>3, <1>5, <1>6, <1>7 DEF DriverTypeOK, OtherTypes
<1>9. SetupTrue'
  BY <1>0, <1>2, <1>3, <1>5, <1>6, <1>7 DEF SessionInv, SetupTrue, InSetup, Within, OnlyActor,
     SameLocals
<1>10. TurnTrue'
  BY <1>0, <1>2, <1>3, <1>5, <1>6, <1>7 DEF SessionInv, TurnTrue, SetupTrue, Active, OnlyActor,
     SameLocals, SameTurns
<1>11. RoundTrue'
  BY <1>0, <1>2, <1>3, <1>5, <1>6, <1>7 DEF SessionInv, RoundTrue, TurnTrue, SetupTrue, InRound,
     FieldTypes, OnlyActor, SameLocals, SameTurns
<1>12. NamedTrue'
  BY <1>0, <1>2, <1>3, <1>5, <1>6, <1>7 DEF SessionInv, NamedTrue, NamedP, NamedR, FieldTypes,
     Before, Within, OnlyActor, SameLocals, SameTurns
<1>13. TurnHand'
  BY <1>0, <1>2, <1>3, <1>5, <1>6, <1>7 DEF SessionInv, TurnHand, GoneP, GoneR, FieldTypes,
     SameTurns
<1>14. \A b \in Actors : SetupHand(b)'
  BY <1>0, <1>2, <1>3, <1>5, <1>6, <1>7 DEF SessionInv, SetupHand, GoneP, GoneR, FieldTypes,
     OnlyActor, SameLocals
<1>15. WatchTrue'
  BY <1>0, <1>2, <1>3, <1>5, <1>6, <1>7 DEF SessionInv, WatchTrue
<1>16. CloseTrue'
  BY <1>0, <1>2, <1>3, <1>5, <1>6, <1>7 DEF SessionInv, CloseTrue, GoneP, GoneR, Settled,
     InSetup, Within, Unwatched, FieldTypes, OnlyActor, SameLocals, SameTurns
<1>17. EvictTrue'
  BY <1>0, <1>2, <1>3, <1>5, <1>6, <1>7 DEF SessionInv, EvictTrue, Unwatched
<1>18. OwnedTrue'
  <2>1. \A b \in Actors : actor[b].pc \in Within => actor'[b] = actor[b]
    BY <1>2, <1>5 DEF OnlyActor, Within
  <2>2. Waning
    BY <1>2 DEF Waning
  <2> QED BY <1>2, <1>3, <1>6, <2>1, <2>2, OwnersKeep DEF SessionInv, SameTurns
<1>19. ToolTrue'
  BY <1>0, <1>2, <1>3, <1>5, <1>6, <1>7 DEF SessionInv, ToolTrue, FieldTypes, SameTurns,
     RoundTrue, InRound
<1> QED BY <1>8, <1>9, <1>10, <1>11, <1>12, <1>13, <1>14, <1>15, <1>16, <1>17, <1>18, <1>19 DEF
   SessionInv

LEMMA FinishesTools ==
    ASSUME SessionInv, NEW c \in Callers, FinishHandsOff(c)
    PROVE  SessionInv'
BY HandsOff, HandsOver

----------------------------------------------------------------------------
(* prepare and discardStart.                                               *)

\* While the driver is open and has neither a setup nor a turn.
LEMMA RestIs ==
    ASSUME SessionInv, ~d.closed, d.state \in {"idle", "unstarted"}
    PROVE  /\ d.current = Nobody /\ closer.pc = "no" /\ evictor.pc = "no"
           /\ \A b \in Actors : ~InSetup(b)
BY DEF SessionInv, SetupTrue, TurnTrue

LEMMA BeforeIs ==
    ASSUME SessionInv, NEW a \in Actors, actor[a].pc \in Before \cup Within
    PROVE  a \in Callers => turn[a].settle = "none"
BY DEF SessionInv, TurnTrue, Before, Within

LEMMA Reuses ==
    ASSUME SessionInv, NEW a \in Actors, PrepareReuses(a)
    PROVE  SessionInv'
<1> USE DEF Someone, Anything, Launches
<1>0. FieldTypes /\ DriverTypeOK /\ Callers \subseteq Actors /\ Nobody \notin Actors
  BY Fields, ActorsAssumption DEF SessionInv, Actors
<1>1. /\ d' = [d EXCEPT !.state = "starting", !.setup = a]
      /\ actor' = [actor EXCEPT ![a].pc = "reusing", ![a].client = d.client, ![a].reused = TRUE,
                                ![a].prev = d.client, ![a].prevRelay = d.relay,
                                ![a].setup = TRUE]
  BY DEF PrepareReuses
<1>2. /\ UNCHANGED <<turn, relay, call, proc, holds, watcher, closer, evictor>>
      /\ ~d.closed /\ d.state \in {"idle", "unstarted"} /\ actor[a].pc = "preparing"
      /\ actor[a].client = Nobody /\ d.client \in Anything /\ d.relay \in Anything
  BY <1>0 DEF PrepareReuses, Admitted, SessionInv, NamedTrue, Before, FieldTypes
<1>3. /\ d.current = Nobody /\ closer.pc = "no" /\ evictor.pc = "no"
      /\ (a \in Callers => turn[a].settle = "none") /\ \A b \in Actors : ~InSetup(b)
  BY <1>2, RestIs, BeforeIs DEF Before
<1>4. /\ DriverTypes' /\ d'.state = "starting" /\ d'.closed = d.closed /\ d'.client = d.client
      /\ d'.relay = d.relay /\ d'.current = d.current /\ d'.setup = a
  BY <1>0, <1>1, DriverIs DEF DriverTypes, States
<1>5. /\ ActorTypes' /\ OnlyActor(a) /\ actor'[a].pc = "reusing" /\ actor'[a].client = d.client
      /\ actor'[a].prev = d.client /\ actor'[a].prevRelay = d.relay
      /\ actor'[a].setup = TRUE /\ actor'[a].turn = actor[a].turn
      /\ actor'[a].batch = actor[a].batch
      /\ actor'[a].reused = TRUE
  <2> DEFINE r == [actor[a] EXCEPT !.pc = "reusing", !.client = d.client, !.reused = TRUE, !.prev = d.client,
                                   !.prevRelay = d.relay, !.setup = TRUE]
  <2>1. actor[a] \in Record
    BY <1>0 DEF DriverTypeOK, ActorTypes, Record
  <2> HIDE DEF Anything, Someone, Launches
  <2>0. "reusing" \in Places /\ Nobody \in Anything
    BY DEF Places, Within, After, Anything
  <2>2. /\ r \in Record /\ r.pc = "reusing" /\ r.client = d.client /\ r.prev = d.client
        /\ r.prevRelay = d.relay /\ r.setup = TRUE /\ r.turn = actor[a].turn
        /\ r.batch = actor[a].batch /\ r.reused = TRUE
    BY <1>2, <2>0, <2>1 DEF Record
  <2>3. actor' = [actor EXCEPT ![a] = r]
    BY <1>1
  <2> HIDE DEF r
  <2> QED BY <1>0, <2>2, <2>3, ActorKeeps
<1>6. DriverTypeOK'
  BY <1>0, <1>2, <1>4, <1>5 DEF DriverTypeOK, DriverTypes, ActorTypes, TurnTypes, LaunchTypes,
     OtherTypes
<1>7. SetupTrue'
  BY <1>0, <1>2, <1>3, <1>4, <1>5 DEF SessionInv, SetupTrue, InSetup, Within, OnlyActor,
     SameLocals
<1>8. TurnTrue'
  BY <1>0, <1>2, <1>3, <1>4, <1>5 DEF SessionInv, TurnTrue, SetupTrue, Active, OnlyActor,
     SameLocals
<1>9. RoundTrue'
  BY <1>0, <1>2, <1>3, <1>4, <1>5 DEF SessionInv, RoundTrue, TurnTrue, SetupTrue, InRound,
     FieldTypes, OnlyActor, SameLocals
<1>10. NamedTrue'
  BY <1>0, <1>2, <1>3, <1>4, <1>5 DEF SessionInv, NamedTrue, NamedP, NamedR, FieldTypes, Before,
     Within, OnlyActor, SameLocals
<1>11. TurnHand'
  BY <1>0, <1>2, <1>3, <1>4, <1>5 DEF SessionInv, TurnHand, GoneP, GoneR, FieldTypes
<1>12. \A b \in Actors : SetupHand(b)'
  BY <1>0, <1>2, <1>3, <1>4, <1>5 DEF SessionInv, SetupHand, GoneP, GoneR, FieldTypes, OnlyActor,
     SameLocals, InSetup, Within
<1>13. WatchTrue'
  BY <1>0, <1>2, <1>3, <1>4, <1>5 DEF SessionInv, WatchTrue
<1>14. CloseTrue'
  BY <1>0, <1>2, <1>3, <1>4, <1>5 DEF SessionInv, CloseTrue, GoneP, GoneR, Settled, InSetup,
     Within, Unwatched, FieldTypes, OnlyActor, SameLocals
<1>15. EvictTrue'
  BY <1>0, <1>2, <1>3, <1>4, <1>5 DEF SessionInv, EvictTrue, Unwatched
<1>16. OwnedTrue'
  BY <1>0, <1>2, <1>3, <1>4, <1>5 DEF SessionInv, OwnedTrue, OwnsP, OwnsR, GoneP, GoneR,
     FieldTypes, OnlyActor, SameLocals
<1>17. ToolTrue'
  BY <1>0, <1>2, <1>3, <1>4, <1>5 DEF SessionInv, ToolTrue, FieldTypes
<1> QED BY <1>6, <1>7, <1>8, <1>9, <1>10, <1>11, <1>12, <1>13, <1>14, <1>15, <1>16, <1>17 DEF
   SessionInv

LEMMA Replaces ==
    ASSUME SessionInv, NEW a \in Actors, PrepareReplaces(a)
    PROVE  SessionInv'
<1> USE DEF Someone, Anything, Launches
<1>0. FieldTypes /\ DriverTypeOK /\ Callers \subseteq Actors /\ Nobody \notin Actors
  BY Fields, ActorsAssumption DEF SessionInv, Actors
<1>1. /\ d' = [d EXCEPT !.state = "starting", !.setup = a, !.client = Nobody, !.relay = Nobody]
      /\ actor' = [actor EXCEPT ![a].pc = "retiringOld", ![a].prev = d.client,
                                ![a].prevRelay = d.relay, ![a].setup = TRUE]
  BY DEF PrepareReplaces
<1>2. /\ UNCHANGED <<turn, relay, call, proc, holds, watcher, closer, evictor>>
      /\ ~d.closed /\ d.state \in {"idle", "unstarted"} /\ actor[a].pc = "preparing"
      /\ actor[a].client = Nobody /\ d.client \in Anything /\ d.relay \in Anything
  BY <1>0 DEF PrepareReplaces, Admitted, SessionInv, NamedTrue, Before, FieldTypes
<1>3. /\ d.current = Nobody /\ closer.pc = "no" /\ evictor.pc = "no"
      /\ (a \in Callers => turn[a].settle = "none") /\ \A b \in Actors : ~InSetup(b)
  BY <1>2, RestIs, BeforeIs DEF Before
<1>4. /\ DriverTypes' /\ d'.state = "starting" /\ d'.closed = d.closed /\ d'.client = Nobody
      /\ d'.relay = Nobody /\ d'.current = d.current /\ d'.setup = a
  BY <1>0, <1>1, DriverIs DEF DriverTypes, States
<1>5. /\ ActorTypes' /\ OnlyActor(a) /\ actor'[a].pc = "retiringOld"
      /\ actor'[a].client = actor[a].client
      /\ actor'[a].prev = d.client /\ actor'[a].prevRelay = d.relay
      /\ actor'[a].setup = TRUE /\ actor'[a].turn = actor[a].turn
      /\ actor'[a].batch = actor[a].batch
      /\ actor'[a].reused = actor[a].reused
  <2> DEFINE r == [actor[a] EXCEPT !.pc = "retiringOld", !.prev = d.client, !.prevRelay = d.relay,
                                   !.setup = TRUE]
  <2>1. actor[a] \in Record
    BY <1>0 DEF DriverTypeOK, ActorTypes, Record
  <2> HIDE DEF Anything, Someone, Launches
  <2>0. "retiringOld" \in Places /\ Nobody \in Anything
    BY DEF Places, Within, After, Anything
  <2>2. /\ r \in Record /\ r.pc = "retiringOld" /\ r.client = actor[a].client /\ r.prev = d.client
        /\ r.prevRelay = d.relay /\ r.setup = TRUE /\ r.turn = actor[a].turn
        /\ r.batch = actor[a].batch /\ r.reused = actor[a].reused
    BY <1>2, <2>0, <2>1 DEF Record
  <2>3. actor' = [actor EXCEPT ![a] = r]
    BY <1>1
  <2> HIDE DEF r
  <2> QED BY <1>0, <2>2, <2>3, ActorKeeps
<1>6. DriverTypeOK'
  BY <1>0, <1>2, <1>4, <1>5 DEF DriverTypeOK, DriverTypes, ActorTypes, TurnTypes, LaunchTypes,
     OtherTypes
<1>7. SetupTrue'
  BY <1>0, <1>2, <1>3, <1>4, <1>5 DEF SessionInv, SetupTrue, InSetup, Within, OnlyActor,
     SameLocals
<1>8. TurnTrue'
  BY <1>0, <1>2, <1>3, <1>4, <1>5 DEF SessionInv, TurnTrue, SetupTrue, Active, OnlyActor,
     SameLocals
<1>9. RoundTrue'
  BY <1>0, <1>2, <1>3, <1>4, <1>5 DEF SessionInv, RoundTrue, TurnTrue, SetupTrue, InRound,
     FieldTypes, OnlyActor, SameLocals
<1>10. NamedTrue'
  BY <1>0, <1>2, <1>3, <1>4, <1>5 DEF SessionInv, NamedTrue, NamedP, NamedR, FieldTypes, Before,
     Within, OnlyActor, SameLocals
<1>11. TurnHand'
  BY <1>0, <1>2, <1>3, <1>4, <1>5 DEF SessionInv, TurnHand, GoneP, GoneR, FieldTypes
<1>12. \A b \in Actors : SetupHand(b)'
  BY <1>0, <1>2, <1>3, <1>4, <1>5 DEF SessionInv, SetupHand, GoneP, GoneR, FieldTypes, OnlyActor,
     SameLocals, InSetup, Within
<1>13. WatchTrue'
  BY <1>0, <1>2, <1>3, <1>4, <1>5 DEF SessionInv, WatchTrue
<1>14. CloseTrue'
  BY <1>0, <1>2, <1>3, <1>4, <1>5 DEF SessionInv, CloseTrue, GoneP, GoneR, Settled, InSetup,
     Within, Unwatched, FieldTypes, OnlyActor, SameLocals
<1>15. EvictTrue'
  BY <1>0, <1>2, <1>3, <1>4, <1>5 DEF SessionInv, EvictTrue, Unwatched
<1>16. OwnedTrue'
  BY <1>0, <1>2, <1>3, <1>4, <1>5 DEF SessionInv, OwnedTrue, OwnsP, OwnsR, GoneP, GoneR,
     FieldTypes, OnlyActor, SameLocals
<1>17. ToolTrue'
  BY <1>0, <1>2, <1>3, <1>4, <1>5 DEF SessionInv, ToolTrue, FieldTypes
<1> QED BY <1>6, <1>7, <1>8, <1>9, <1>10, <1>11, <1>12, <1>13, <1>14, <1>15, <1>16, <1>17 DEF
   SessionInv

\* A setup is the only one, and there is no turn.
LEMMA SetupIs ==
    ASSUME SessionInv, NEW a \in Actors, actor[a].pc \in Within
    PROVE  /\ InSetup(a) /\ d.setup = a /\ actor[a].setup /\ d.current = Nobody
           /\ \A b \in Actors : InSetup(b) => b = a
           /\ (a \in Callers => turn[a].settle = "none") /\ evictor.pc = "no"
<1>1. a \in Callers => turn[a].settle = "none"
  BY BeforeIs
<1> QED BY <1>1 DEF SessionInv, SetupTrue, InSetup

LEMMA SetupKeeps ==
    ASSUME SetupTrue, NEW a \in Actors, InSetup(a), OnlyActor(a), actor'[a].pc \in Within,
           actor'[a].setup = actor[a].setup, d'.setup = d.setup, d'.current = d.current,
           d'.closed = d.closed, d'.state = d.state, UNCHANGED <<closer, evictor>>
    PROVE  SetupTrue'
<1>1. \A b \in Actors : (InSetup(b)' <=> InSetup(b)) /\ actor'[b].setup = actor[b].setup
  BY DEF InSetup, OnlyActor
<1> QED BY <1>1 DEF SetupTrue

LEMMA Wakes ==
    ASSUME SessionInv, NEW a \in Actors, PrepareWakes(a), proc[actor[a].client] = "up"
    PROVE  SessionInv'
<1> USE DEF Someone, Anything, Launches
<1>0. FieldTypes /\ DriverTypeOK /\ Callers \subseteq Actors /\ Nobody \notin Actors
  BY Fields, ActorsAssumption DEF SessionInv, Actors
<1>1. /\ UNCHANGED <<d, turn, relay, call, proc, holds, watcher, closer, evictor>>
      /\ actor[a].pc = "reusing" /\ actor[a].prev = d.client /\ actor[a].prevRelay = d.relay
      /\ actor[a].client = d.client
  BY DEF PrepareWakes, SessionInv, SetupHand
<1>2. /\ InSetup(a) /\ d.setup = a /\ actor[a].setup /\ d.current = Nobody
      /\ \A b \in Actors : InSetup(b) => b = a
      /\ (a \in Callers => turn[a].settle = "none") /\ evictor.pc = "no"
  BY <1>1, SetupIs DEF Within
<1>3. /\ ActorTypes' /\ OnlyActor(a) /\ actor'[a].pc = "draining"
      /\ actor'[a].client = actor[a].client
      /\ actor'[a].prev = actor[a].prev /\ actor'[a].prevRelay = actor[a].prevRelay
      /\ actor'[a].setup = actor[a].setup /\ actor'[a].turn = actor[a].turn
      /\ actor'[a].batch = actor[a].batch
      /\ actor'[a].reused = actor[a].reused
  <2> DEFINE r == [actor[a] EXCEPT !.pc = "draining"]
  <2>1. actor[a] \in Record
    BY <1>0 DEF DriverTypeOK, ActorTypes, Record
  <2> HIDE DEF Anything, Someone, Launches
  <2>0. "draining" \in Places /\ Nobody \in Anything
    BY DEF Places, Within, After, Anything
  <2>2. /\ r \in Record /\ r.pc = "draining" /\ r.client = actor[a].client
        /\ r.prev = actor[a].prev
        /\ r.prevRelay = actor[a].prevRelay /\ r.setup = actor[a].setup /\ r.turn = actor[a].turn
        /\ r.batch = actor[a].batch /\ r.reused = actor[a].reused
    BY <1>0, <1>1, <2>0, <2>1 DEF Record
  <2>3. actor' = [actor EXCEPT ![a] = r]
    BY DEF PrepareWakes
  <2> HIDE DEF r
  <2> QED BY <1>0, <2>2, <2>3, ActorKeeps
<1>4. DriverTypeOK'
  BY <1>0, <1>1, <1>3 DEF DriverTypeOK, DriverTypes, ActorTypes, TurnTypes, LaunchTypes, OtherTypes
<1>5. SetupTrue'
  BY <1>1, <1>2, <1>3, SetupKeeps DEF SessionInv, Within, SameLocals, SameDriver
<1>6. TurnTrue'
  BY <1>0, <1>1, <1>2, <1>3 DEF SessionInv, TurnTrue, SetupTrue, Active, OnlyActor, SameLocals
<1>7. RoundTrue'
  BY <1>0, <1>1, <1>2, <1>3 DEF SessionInv, RoundTrue, TurnTrue, SetupTrue, InRound, FieldTypes,
     OnlyActor, SameLocals
<1>8. NamedTrue'
  BY <1>0, <1>1, <1>2, <1>3 DEF SessionInv, NamedTrue, NamedP, NamedR, FieldTypes, Before,
     Within, OnlyActor, SameLocals
<1>9. TurnHand'
  BY <1>0, <1>1, <1>2, <1>3 DEF SessionInv, TurnHand, GoneP, GoneR, FieldTypes
<1>10. \A b \in Actors : SetupHand(b)'
  BY <1>0, <1>1, <1>2, <1>3 DEF SessionInv, SetupHand, GoneP, GoneR, FieldTypes, OnlyActor,
     SameLocals
<1>11. WatchTrue'
  BY <1>0, <1>1, <1>2, <1>3 DEF SessionInv, WatchTrue
<1>12. CloseTrue'
  BY <1>0, <1>1, <1>2, <1>3 DEF SessionInv, CloseTrue, GoneP, GoneR, Settled, InSetup, Within,
     Unwatched, FieldTypes, OnlyActor, SameLocals
<1>13. EvictTrue'
  BY <1>0, <1>1, <1>2, <1>3 DEF SessionInv, EvictTrue, Unwatched
<1>14. OwnedTrue'
  BY <1>0, <1>1, <1>2, <1>3 DEF SessionInv, OwnedTrue, OwnsP, OwnsR, GoneP, GoneR, FieldTypes,
     OnlyActor, SameLocals
<1>15. ToolTrue'
  BY <1>0, <1>1, <1>2, <1>3 DEF SessionInv, ToolTrue, FieldTypes
<1> QED BY <1>4, <1>5, <1>6, <1>7, <1>8, <1>9, <1>10, <1>11, <1>12, <1>13, <1>14, <1>15 DEF
   SessionInv

LEMMA WakesNot ==
    ASSUME SessionInv, NEW a \in Actors, PrepareWakes(a), proc[actor[a].client] # "up"
    PROVE  SessionInv'
<1> USE DEF Someone, Anything, Launches
<1>0. FieldTypes /\ DriverTypeOK /\ Callers \subseteq Actors /\ Nobody \notin Actors
  BY Fields, ActorsAssumption DEF SessionInv, Actors
<1>1. /\ UNCHANGED <<d, turn, relay, call, proc, holds, watcher, closer, evictor>>
      /\ actor[a].pc = "reusing" /\ actor[a].prev = d.client /\ actor[a].prevRelay = d.relay
      /\ actor[a].client = d.client
  BY DEF PrepareWakes, SessionInv, SetupHand
<1>2. /\ InSetup(a) /\ d.setup = a /\ actor[a].setup /\ d.current = Nobody
      /\ \A b \in Actors : InSetup(b) => b = a
      /\ (a \in Callers => turn[a].settle = "none") /\ evictor.pc = "no"
  BY <1>1, SetupIs DEF Within
<1>3. /\ ActorTypes' /\ OnlyActor(a) /\ actor'[a].pc = "retiringOld" /\ actor'[a].client = Nobody
      /\ actor'[a].prev = actor[a].prev /\ actor'[a].prevRelay = actor[a].prevRelay
      /\ actor'[a].setup = actor[a].setup /\ actor'[a].turn = actor[a].turn
      /\ actor'[a].batch = actor[a].batch
      /\ actor'[a].reused = FALSE
  <2> DEFINE r == [actor[a] EXCEPT !.pc = "retiringOld", !.client = Nobody, !.reused = FALSE]
  <2>1. actor[a] \in Record
    BY <1>0 DEF DriverTypeOK, ActorTypes, Record
  <2> HIDE DEF Anything, Someone, Launches
  <2>0. "retiringOld" \in Places /\ Nobody \in Anything
    BY DEF Places, Within, After, Anything
  <2>2. /\ r \in Record /\ r.pc = "retiringOld" /\ r.client = Nobody /\ r.prev = actor[a].prev
        /\ r.prevRelay = actor[a].prevRelay /\ r.setup = actor[a].setup /\ r.turn = actor[a].turn
        /\ r.batch = actor[a].batch /\ r.reused = FALSE
    BY <1>0, <1>1, <2>0, <2>1 DEF Record
  <2>3. actor' = [actor EXCEPT ![a] = r]
    BY DEF PrepareWakes
  <2> HIDE DEF r
  <2> QED BY <1>0, <2>2, <2>3, ActorKeeps
<1>4. DriverTypeOK'
  BY <1>0, <1>1, <1>3 DEF DriverTypeOK, DriverTypes, ActorTypes, TurnTypes, LaunchTypes, OtherTypes
<1>5. SetupTrue'
  BY <1>1, <1>2, <1>3, SetupKeeps DEF SessionInv, Within, SameLocals, SameDriver
<1>6. TurnTrue'
  BY <1>0, <1>1, <1>2, <1>3 DEF SessionInv, TurnTrue, SetupTrue, Active, OnlyActor, SameLocals
<1>7. RoundTrue'
  BY <1>0, <1>1, <1>2, <1>3 DEF SessionInv, RoundTrue, TurnTrue, SetupTrue, InRound, FieldTypes,
     OnlyActor, SameLocals
<1>8. NamedTrue'
  BY <1>0, <1>1, <1>2, <1>3 DEF SessionInv, NamedTrue, NamedP, NamedR, FieldTypes, Before,
     Within, OnlyActor, SameLocals
<1>9. TurnHand'
  BY <1>0, <1>1, <1>2, <1>3 DEF SessionInv, TurnHand, GoneP, GoneR, FieldTypes
<1>10. \A b \in Actors : SetupHand(b)'
  BY <1>0, <1>1, <1>2, <1>3 DEF SessionInv, SetupHand, GoneP, GoneR, FieldTypes, OnlyActor,
     SameLocals
<1>11. WatchTrue'
  BY <1>0, <1>1, <1>2, <1>3 DEF SessionInv, WatchTrue
<1>12. CloseTrue'
  BY <1>0, <1>1, <1>2, <1>3 DEF SessionInv, CloseTrue, GoneP, GoneR, Settled, InSetup, Within,
     Unwatched, FieldTypes, OnlyActor, SameLocals
<1>13. EvictTrue'
  BY <1>0, <1>1, <1>2, <1>3 DEF SessionInv, EvictTrue, Unwatched
<1>14. OwnedTrue'
  BY <1>0, <1>1, <1>2, <1>3 DEF SessionInv, OwnedTrue, OwnsP, OwnsR, GoneP, GoneR, FieldTypes,
     OnlyActor, SameLocals
<1>15. ToolTrue'
  BY <1>0, <1>1, <1>2, <1>3 DEF SessionInv, ToolTrue, FieldTypes
<1> QED BY <1>4, <1>5, <1>6, <1>7, <1>8, <1>9, <1>10, <1>11, <1>12, <1>13, <1>14, <1>15 DEF
   SessionInv

LEMMA Fails ==
    ASSUME SessionInv, NEW a \in Actors, PrepareFails(a) \/ StartFails(a)
    PROVE  SessionInv'
<1> USE DEF Someone, Anything, Launches
<1>0. FieldTypes /\ DriverTypeOK /\ Callers \subseteq Actors /\ Nobody \notin Actors
  BY Fields, ActorsAssumption DEF SessionInv, Actors
<1>1. /\ UNCHANGED <<d, turn, relay, call, proc, holds, watcher, closer, evictor>>
      /\ actor[a].pc \in {"listening", "acquiring", "draining", "starting", "refreshed"}
  BY DEF PrepareFails, StartFails
<1>2. /\ InSetup(a) /\ d.setup = a /\ actor[a].setup /\ d.current = Nobody
      /\ \A b \in Actors : InSetup(b) => b = a
      /\ (a \in Callers => turn[a].settle = "none") /\ evictor.pc = "no"
  BY <1>1, SetupIs DEF Within
<1>3. /\ ActorTypes' /\ OnlyActor(a) /\ actor'[a].pc = "failing" /\ SameLocals(a)
  BY <1>0, GoesOn DEF PrepareFails, StartFails, Places, Within
<1>4. DriverTypeOK'
  BY <1>0, <1>1, <1>3 DEF DriverTypeOK, DriverTypes, ActorTypes, TurnTypes, LaunchTypes, OtherTypes
<1>5. SetupTrue'
  BY <1>1, <1>2, <1>3, SetupKeeps DEF SessionInv, Within, SameLocals, SameDriver
<1>6. TurnTrue'
  BY <1>0, <1>1, <1>2, <1>3 DEF SessionInv, TurnTrue, SetupTrue, Active, OnlyActor, SameLocals
<1>7. RoundTrue'
  BY <1>0, <1>1, <1>2, <1>3 DEF SessionInv, RoundTrue, TurnTrue, SetupTrue, InRound, FieldTypes,
     OnlyActor, SameLocals
<1>8. NamedTrue'
  BY <1>0, <1>1, <1>2, <1>3 DEF SessionInv, NamedTrue, NamedP, NamedR, FieldTypes, Before,
     Within, OnlyActor, SameLocals
<1>9. TurnHand'
  BY <1>0, <1>1, <1>2, <1>3 DEF SessionInv, TurnHand, GoneP, GoneR, FieldTypes
<1>10. \A b \in Actors : SetupHand(b)'
  BY <1>0, <1>1, <1>2, <1>3 DEF SessionInv, SetupHand, GoneP, GoneR, FieldTypes, OnlyActor,
     SameLocals
<1>11. WatchTrue'
  BY <1>0, <1>1, <1>2, <1>3 DEF SessionInv, WatchTrue
<1>12. CloseTrue'
  BY <1>0, <1>1, <1>2, <1>3 DEF SessionInv, CloseTrue, GoneP, GoneR, Settled, InSetup, Within,
     Unwatched, FieldTypes, OnlyActor, SameLocals
<1>13. EvictTrue'
  BY <1>0, <1>1, <1>2, <1>3 DEF SessionInv, EvictTrue, Unwatched
<1>14. OwnedTrue'
  BY <1>0, <1>1, <1>2, <1>3 DEF SessionInv, OwnedTrue, OwnsP, OwnsR, GoneP, GoneR, FieldTypes,
     OnlyActor, SameLocals
<1>15. ToolTrue'
  BY <1>0, <1>1, <1>2, <1>3 DEF SessionInv, ToolTrue, FieldTypes
<1> QED BY <1>4, <1>5, <1>6, <1>7, <1>8, <1>9, <1>10, <1>11, <1>12, <1>13, <1>14, <1>15 DEF
   SessionInv

LEMMA RetiresOld ==
    ASSUME SessionInv, NEW a \in Actors, PrepareRetiresOld(a)
    PROVE  SessionInv'
<1> USE DEF Someone, Anything, Launches
<1>0. FieldTypes /\ DriverTypeOK /\ Callers \subseteq Actors /\ Nobody \notin Actors
  BY Fields, ActorsAssumption DEF SessionInv, Actors
<1>1. PICK q \in Anything, p \in Anything : q = actor[a].prevRelay /\ p = actor[a].prev
  BY <1>0 DEF FieldTypes
<1>2. /\ UNCHANGED <<turn, call, holds, watcher, closer, evictor>> /\ actor[a].pc = "retiringOld"
      /\ NamedR(q) /\ NamedP(p) /\ actor[a].client = Nobody
      /\ actor[a].prevRelay = q /\ actor[a].prev = p
      /\ d.client \in {Nobody, p} /\ d.relay \in {Nobody, q}
  BY <1>1 DEF PrepareRetiresOld, SessionInv, NamedTrue, SetupHand
<1>3. /\ InSetup(a) /\ d.setup = a /\ actor[a].setup /\ d.current = Nobody
      /\ \A b \in Actors : InSetup(b) => b = a
      /\ (a \in Callers => turn[a].settle = "none") /\ evictor.pc = "no"
  BY <1>2, SetupIs DEF Within
<1>4. /\ LaunchTypes' /\ Waning /\ GoneR(q)' /\ GoneP(p)'
      /\ \A l \in Launches \ {q} : relay'[l] = relay[l]
      /\ \A l \in Launches \ {p} : proc'[l] = proc[l]
  <2>1. closeRelay(q) /\ release(p)
    BY <1>1 DEF PrepareRetiresOld
  <2> QED BY <1>0, <1>2, <2>1, ReleaseIs
<1>5. \A x \in Anything : /\ (GoneP(x) => GoneP(x)') /\ (GoneR(x) => GoneR(x)')
                          /\ (NamedP(x) => NamedP(x)') /\ (NamedR(x) => NamedR(x)')
  BY <1>4, WaneIs
<1>6. DriverTypes' /\ SameDriver
  <2>1. \E failed \in MayFail : noteCleanup(failed)
    BY DEF PrepareRetiresOld
  <2> QED BY <1>0, <2>1, NoteIs
<1>7. PICK x \in {"failing", "listening"} : Goes(a, x)
  BY DEF PrepareRetiresOld
<1>8. /\ ActorTypes' /\ OnlyActor(a) /\ actor'[a].pc = x /\ x \in {"failing", "listening"}
      /\ SameLocals(a)
  BY <1>0, <1>7, GoesOn DEF Places, Within
<1>9. DriverTypeOK'
  BY <1>0, <1>2, <1>4, <1>6, <1>8 DEF DriverTypeOK, DriverTypes, ActorTypes, TurnTypes,
     LaunchTypes, OtherTypes
<1>10. SetupTrue'
  BY <1>2, <1>3, <1>6, <1>8, SetupKeeps DEF SessionInv, Within, SameLocals, SameDriver
<1>11. TurnTrue'
  BY <1>0, <1>2, <1>3, <1>4, <1>5, <1>6, <1>8 DEF SessionInv, TurnTrue, SetupTrue, Active,
     OnlyActor, SameLocals, SameDriver
<1>12. RoundTrue'
  BY <1>0, <1>2, <1>3, <1>4, <1>5, <1>6, <1>8 DEF SessionInv, RoundTrue, TurnTrue, SetupTrue,
     InRound, FieldTypes, OnlyActor, SameLocals, SameDriver
<1>13. NamedTrue'
  BY <1>0, <1>2, <1>3, <1>4, <1>5, <1>6, <1>8 DEF SessionInv, NamedTrue, NamedP, NamedR,
     FieldTypes, Before, Within, OnlyActor, SameLocals, SameDriver, Waning
<1>14. TurnHand'
  BY <1>0, <1>2, <1>3, <1>4, <1>5, <1>6, <1>8 DEF SessionInv, TurnHand, GoneP, GoneR, FieldTypes,
     SameDriver
<1>15. \A b \in Actors : SetupHand(b)'
  BY <1>0, <1>2, <1>3, <1>4, <1>5, <1>6, <1>8 DEF SessionInv, SetupHand, GoneP, GoneR,
     FieldTypes, OnlyActor, SameLocals, SameDriver
<1>16. WatchTrue'
  BY <1>0, <1>2, <1>3, <1>4, <1>5, <1>6, <1>8 DEF SessionInv, WatchTrue, SameDriver, Waning
<1>17. CloseTrue'
  BY <1>0, <1>2, <1>3, <1>4, <1>5, <1>6, <1>8 DEF SessionInv, CloseTrue, GoneP, GoneR, Settled,
     InSetup, Within, Unwatched, FieldTypes, OnlyActor, SameLocals, SameDriver
<1>18. EvictTrue'
  BY <1>0, <1>2, <1>3, <1>4, <1>5, <1>6, <1>8 DEF SessionInv, EvictTrue, Unwatched, SameDriver
<1>19. OwnedTrue'
  BY <1>0, <1>2, <1>3, <1>4, <1>5, <1>6, <1>8 DEF SessionInv, OwnedTrue, OwnsP, OwnsR, GoneP,
     GoneR, FieldTypes, OnlyActor, SameLocals, SameDriver, Waning
<1>20. ToolTrue'
  BY <1>0, <1>2, <1>3, <1>4, <1>5, <1>6, <1>8 DEF SessionInv, ToolTrue, FieldTypes, SameDriver,
     Waning
<1> QED BY <1>9, <1>10, <1>11, <1>12, <1>13, <1>14, <1>15, <1>16, <1>17, <1>18, <1>19, <1>20 DEF
   SessionInv

LEMMA Listens ==
    ASSUME SessionInv, NEW a \in Actors, PrepareListens(a)
    PROVE  SessionInv'
<1> USE DEF Someone, Anything, Launches
<1>0. FieldTypes /\ DriverTypeOK /\ Callers \subseteq Actors /\ Nobody \notin Actors
  BY Fields, ActorsAssumption DEF SessionInv, Actors
<1>1. relay' = [relay EXCEPT ![a] = "open"] /\ d' = [d EXCEPT !.relay = a]
  BY DEF PrepareListens
<1>2. /\ UNCHANGED <<turn, call, proc, holds, watcher, closer, evictor>>
      /\ actor[a].pc = "listening" /\ actor[a].client = Nobody /\ relay[a] = "none"
      /\ GoneR(d.relay)
  BY DEF PrepareListens, SessionInv, NamedTrue, SetupHand
<1>3. /\ InSetup(a) /\ d.setup = a /\ actor[a].setup /\ d.current = Nobody
      /\ \A b \in Actors : InSetup(b) => b = a
      /\ (a \in Callers => turn[a].settle = "none") /\ evictor.pc = "no"
  BY <1>2, SetupIs DEF Within
<1>4. /\ DriverTypes' /\ d'.state = d.state /\ d'.closed = d.closed /\ d'.client = d.client
      /\ d'.relay = a /\ d'.current = d.current /\ d'.setup = d.setup
  BY <1>0, <1>1, DriverIs DEF DriverTypes, States
<1>5. LaunchTypes' /\ relay'[a] = "open" /\ \A l \in Launches \ {a} : relay'[l] = relay[l]
  BY <1>0, <1>1, <1>2 DEF DriverTypeOK, LaunchTypes
<1>6. /\ ActorTypes' /\ OnlyActor(a) /\ actor'[a].pc = "acquiring" /\ SameLocals(a)
  BY <1>0, GoesOn DEF PrepareListens, Places, Within
<1>7. DriverTypeOK'
  BY <1>0, <1>2, <1>4, <1>5, <1>6 DEF DriverTypeOK, DriverTypes, ActorTypes, TurnTypes,
     LaunchTypes, OtherTypes
<1>8. SetupTrue'
  BY <1>2, <1>3, <1>4, <1>6, SetupKeeps DEF SessionInv, Within, SameLocals, SameDriver
<1>9. TurnTrue'
  BY <1>0, <1>2, <1>3, <1>4, <1>5, <1>6 DEF SessionInv, TurnTrue, SetupTrue, Active, OnlyActor,
     SameLocals
<1>10. RoundTrue'
  BY <1>0, <1>2, <1>3, <1>4, <1>5, <1>6 DEF SessionInv, RoundTrue, TurnTrue, SetupTrue, InRound,
     FieldTypes, OnlyActor, SameLocals
<1>11. NamedTrue'
  BY <1>0, <1>2, <1>3, <1>4, <1>5, <1>6 DEF SessionInv, NamedTrue, NamedP, NamedR, FieldTypes,
     Before, Within, OnlyActor, SameLocals
<1>12. TurnHand'
  BY <1>0, <1>2, <1>3, <1>4, <1>5, <1>6 DEF SessionInv, TurnHand, GoneP, GoneR, FieldTypes,
     NamedTrue, NamedR
<1>13. \A b \in Actors : SetupHand(b)'
  <2> SUFFICES ASSUME NEW b \in Actors PROVE SetupHand(b)'
    OBVIOUS
  <2>1. CASE b # a
    <3>1. actor'[b] = actor[b] /\ actor[b].pc \notin Within
      BY <1>2, <1>3, <1>4, <1>5, <1>6, <2>1 DEF OnlyActor, InSetup
    <3> QED BY <3>1 DEF SetupHand, Within
  <2>2. CASE b = a
    BY <1>0, <1>2, <1>3, <1>4, <1>5, <1>6, <2>2 DEF SessionInv, SetupHand, GoneP, GoneR,
       FieldTypes, SameLocals
  <2> QED BY <2>1, <2>2
<1>14. WatchTrue'
  BY <1>0, <1>2, <1>3, <1>4, <1>5, <1>6 DEF SessionInv, WatchTrue
<1>15. CloseTrue'
  BY <1>0, <1>2, <1>3, <1>4, <1>5, <1>6 DEF SessionInv, CloseTrue, GoneP, GoneR, Settled,
     InSetup, Within, Unwatched, FieldTypes, OnlyActor, SameLocals, NamedTrue, NamedR
<1>16. EvictTrue'
  BY <1>0, <1>2, <1>3, <1>4, <1>5, <1>6 DEF SessionInv, EvictTrue, Unwatched
<1>17. OwnedTrue'
  BY <1>0, <1>2, <1>3, <1>4, <1>5, <1>6 DEF SessionInv, OwnedTrue, OwnsP, OwnsR, GoneP, GoneR,
     FieldTypes, OnlyActor, SameLocals
<1>18. ToolTrue'
  BY <1>0, <1>2, <1>3, <1>4, <1>5, <1>6 DEF SessionInv, ToolTrue, FieldTypes
<1> QED BY <1>7, <1>8, <1>9, <1>10, <1>11, <1>12, <1>13, <1>14, <1>15, <1>16, <1>17, <1>18 DEF
   SessionInv

LEMMA Acquires ==
    ASSUME SessionInv, NEW a \in Actors, PrepareAcquires(a)
    PROVE  SessionInv'
<1> USE DEF Someone, Anything, Launches
<1>0. FieldTypes /\ DriverTypeOK /\ Callers \subseteq Actors /\ Nobody \notin Actors
  BY Fields, ActorsAssumption DEF SessionInv, Actors
<1>1. /\ proc' = [proc EXCEPT ![a] = "up"]
      /\ actor' = [actor EXCEPT ![a].pc = "draining", ![a].client = a]
  BY DEF PrepareAcquires
<1>2. /\ UNCHANGED <<d, turn, relay, call, holds, watcher, closer, evictor>>
      /\ actor[a].pc = "acquiring" /\ actor[a].client = Nobody /\ proc[a] = "none"
      /\ watcher[a].pc = "off" /\ a \in Anything
  BY DEF PrepareAcquires, SessionInv, NamedTrue, SetupHand
<1>3. /\ InSetup(a) /\ d.setup = a /\ actor[a].setup /\ d.current = Nobody
      /\ \A b \in Actors : InSetup(b) => b = a
      /\ (a \in Callers => turn[a].settle = "none") /\ evictor.pc = "no"
  BY <1>2, SetupIs DEF Within
<1>4. LaunchTypes' /\ proc'[a] = "up" /\ \A l \in Launches \ {a} : proc'[l] = proc[l]
  BY <1>0, <1>1, <1>2 DEF DriverTypeOK, LaunchTypes
<1>5. /\ ActorTypes' /\ OnlyActor(a) /\ actor'[a].pc = "draining" /\ actor'[a].client = a
      /\ actor'[a].prev = actor[a].prev /\ actor'[a].prevRelay = actor[a].prevRelay
      /\ actor'[a].setup = actor[a].setup /\ actor'[a].turn = actor[a].turn
      /\ actor'[a].batch = actor[a].batch
      /\ actor'[a].reused = actor[a].reused
  <2> DEFINE r == [actor[a] EXCEPT !.pc = "draining", !.client = a]
  <2>1. actor[a] \in Record
    BY <1>0 DEF DriverTypeOK, ActorTypes, Record
  <2> HIDE DEF Anything, Someone, Launches
  <2>0. "draining" \in Places /\ Nobody \in Anything
    BY DEF Places, Within, After, Anything
  <2>2. /\ r \in Record /\ r.pc = "draining" /\ r.client = a /\ r.prev = actor[a].prev
        /\ r.prevRelay = actor[a].prevRelay /\ r.setup = actor[a].setup /\ r.turn = actor[a].turn
        /\ r.batch = actor[a].batch /\ r.reused = actor[a].reused
    BY <1>2, <2>0, <2>1 DEF Record
  <2>3. actor' = [actor EXCEPT ![a] = r]
    BY <1>1
  <2> HIDE DEF r
  <2> QED BY <1>0, <2>2, <2>3, ActorKeeps
<1>6. DriverTypeOK'
  BY <1>0, <1>2, <1>4, <1>5 DEF DriverTypeOK, DriverTypes, ActorTypes, TurnTypes, LaunchTypes,
     OtherTypes
<1>7. SetupTrue'
  BY <1>2, <1>3, <1>5, SetupKeeps DEF SessionInv, Within, SameLocals, SameDriver
<1>8. TurnTrue'
  BY <1>0, <1>2, <1>3, <1>4, <1>5 DEF SessionInv, TurnTrue, SetupTrue, Active, OnlyActor,
     SameLocals
<1>9. RoundTrue'
  BY <1>0, <1>2, <1>3, <1>4, <1>5 DEF SessionInv, RoundTrue, TurnTrue, SetupTrue, InRound,
     FieldTypes, OnlyActor, SameLocals
<1>10. NamedTrue'
  BY <1>0, <1>2, <1>3, <1>4, <1>5 DEF SessionInv, NamedTrue, NamedP, NamedR, FieldTypes, Before,
     Within, OnlyActor, SameLocals
<1>11. TurnHand'
  BY <1>0, <1>2, <1>3, <1>4, <1>5 DEF SessionInv, TurnHand, GoneP, GoneR, FieldTypes, NamedTrue,
     NamedP
<1>12. \A b \in Actors : SetupHand(b)'
  BY <1>0, <1>2, <1>3, <1>4, <1>5 DEF SessionInv, SetupHand, GoneP, GoneR, FieldTypes, OnlyActor,
     SameLocals, NamedTrue, NamedP
<1>13. WatchTrue'
  BY <1>0, <1>2, <1>3, <1>4, <1>5 DEF SessionInv, WatchTrue
<1>14. CloseTrue'
  BY <1>0, <1>2, <1>3, <1>4, <1>5 DEF SessionInv, CloseTrue, GoneP, GoneR, Settled, InSetup,
     Within, Unwatched, FieldTypes, OnlyActor, SameLocals, NamedTrue, NamedP
<1>15. EvictTrue'
  BY <1>0, <1>2, <1>3, <1>4, <1>5 DEF SessionInv, EvictTrue, Unwatched
<1>16. OwnedTrue'
  BY SMTT(30), <1>0, <1>2, <1>3, <1>4, <1>5 DEF SessionInv, OwnedTrue, OwnsP, OwnsR, GoneP, GoneR,
     FieldTypes, OnlyActor, SameLocals
<1>17. ToolTrue'
  BY <1>0, <1>2, <1>3, <1>4, <1>5 DEF SessionInv, ToolTrue, FieldTypes
<1> QED BY <1>6, <1>7, <1>8, <1>9, <1>10, <1>11, <1>12, <1>13, <1>14, <1>15, <1>16, <1>17 DEF
   SessionInv

LEMMA Publishes ==
    ASSUME SessionInv, NEW a \in Actors, PreparePublishes(a)
    PROVE  SessionInv'
<1> USE DEF Someone, Anything, Launches
<1>0. FieldTypes /\ DriverTypeOK /\ Callers \subseteq Actors /\ Nobody \notin Actors
  BY Fields, ActorsAssumption DEF SessionInv, Actors
<1>1. d' = [d EXCEPT !.client = actor[a].client, !.known = TRUE]
  BY DEF PreparePublishes
<1>2. /\ UNCHANGED <<turn, relay, call, proc, holds, closer, evictor>>
      /\ actor[a].pc = "draining" /\ ~d.closed /\ (d.client = actor[a].client \/ GoneP(d.client))
      /\ (actor[a].reused \/ actor[a].client = a) /\ NamedP(actor[a].client)
      /\ actor[a].client \in Anything
  BY <1>0 DEF PreparePublishes, SessionInv, NamedTrue, SetupHand, FieldTypes
<1>3. /\ InSetup(a) /\ d.setup = a /\ actor[a].setup /\ d.current = Nobody
      /\ \A b \in Actors : InSetup(b) => b = a
      /\ (a \in Callers => turn[a].settle = "none") /\ evictor.pc = "no"
      /\ closer.pc = "no"
  BY <1>2, SetupIs DEF Within, SessionInv, SetupTrue
<1>4. /\ DriverTypes' /\ d'.state = d.state /\ d'.closed = d.closed /\ d'.client = actor[a].client
      /\ d'.relay = d.relay /\ d'.current = d.current /\ d'.setup = d.setup
  BY <1>0, <1>1, <1>2, DriverIs DEF DriverTypes, States
<1>5. /\ OtherTypes' /\ \A l \in Launches \ {a} : watcher'[l] = watcher[l]
      /\ watcher'[a].pc \in {watcher[a].pc, "watching"} /\ watcher'[a].relay = watcher[a].relay
      /\ (actor[a].reused => watcher'[a] = watcher[a])
  <2> DEFINE r == [watcher[a] EXCEPT !.pc = "watching"]
  <2>1. watcher' = watcher \/ (~actor[a].reused /\ watcher' = [watcher EXCEPT ![a] = r])
    BY DEF PreparePublishes
  <2>2. r \in [pc : {"off", "watching", "aborting", "closing", "done"}, current : Someone, relay : Anything]
        /\ r.pc = "watching" /\ r.relay = watcher[a].relay
    BY <1>0 DEF DriverTypeOK, OtherTypes
  <2> HIDE DEF r
  <2> QED BY <1>0, <1>2, <2>1, <2>2 DEF DriverTypeOK, OtherTypes
<1>6. PICK x \in {"refreshed", "starting"} : Goes(a, x)
  BY DEF PreparePublishes
<1>7. /\ ActorTypes' /\ OnlyActor(a) /\ actor'[a].pc = x /\ x \in {"refreshed", "starting"}
      /\ SameLocals(a)
  BY <1>0, <1>6, GoesOn DEF Places, Within
<1>8. DriverTypeOK'
  BY <1>0, <1>2, <1>4, <1>5, <1>7 DEF DriverTypeOK, DriverTypes, ActorTypes, TurnTypes,
     LaunchTypes, OtherTypes
<1>9. SetupTrue'
  BY <1>2, <1>3, <1>4, <1>7, SetupKeeps DEF SessionInv, Within, SameLocals, SameDriver
<1>10. TurnTrue'
  BY <1>0, <1>2, <1>3, <1>4, <1>5, <1>7 DEF SessionInv, TurnTrue, SetupTrue, Active, OnlyActor,
     SameLocals
<1>11. RoundTrue'
  BY <1>0, <1>2, <1>3, <1>4, <1>5, <1>7 DEF SessionInv, RoundTrue, TurnTrue, SetupTrue, InRound,
     FieldTypes, OnlyActor, SameLocals
<1>12. NamedTrue'
  BY <1>0, <1>2, <1>3, <1>4, <1>5, <1>7 DEF SessionInv, NamedTrue, NamedP, NamedR, FieldTypes,
     Before, Within, OnlyActor, SameLocals
<1>13. TurnHand'
  BY <1>0, <1>2, <1>3, <1>4, <1>5, <1>7 DEF SessionInv, TurnHand, GoneP, GoneR, FieldTypes
<1>14. \A b \in Actors : SetupHand(b)'
  <2> SUFFICES ASSUME NEW b \in Actors PROVE SetupHand(b)'
    OBVIOUS
  <2>1. CASE b # a
    <3>1. actor'[b] = actor[b] /\ actor[b].pc \notin Within
      BY <1>2, <1>3, <1>4, <1>5, <1>7, <2>1 DEF OnlyActor, InSetup
    <3> QED BY <3>1 DEF SetupHand, Within
  <2>2. CASE b = a
    BY <1>0, <1>2, <1>3, <1>4, <1>5, <1>7, <2>2 DEF SessionInv, SetupHand, GoneP, GoneR,
       FieldTypes, SameLocals
  <2> QED BY <2>1, <2>2
<1>15. WatchTrue'
  BY <1>0, <1>2, <1>3, <1>4, <1>5, <1>7 DEF SessionInv, WatchTrue
<1>16. CloseTrue'
  BY <1>0, <1>2, <1>3, <1>4, <1>5, <1>7 DEF SessionInv, CloseTrue, GoneP, GoneR, Settled,
     InSetup, Within, Unwatched, FieldTypes, OnlyActor, SameLocals
<1>17. EvictTrue'
  BY <1>0, <1>2, <1>3, <1>4, <1>5, <1>7 DEF SessionInv, EvictTrue, Unwatched
<1>18. OwnedTrue'
  <2>1. ASSUME NEW l \in Launches, proc[l] = "up", OwnsP(l) PROVE OwnsP(l)'
    BY <1>0, <1>2, <1>4, <1>5, <1>7, <2>1 DEF OwnsP, GoneP, FieldTypes, OnlyActor, SameLocals
  <2>2. ASSUME NEW l \in Launches, OwnsR(l) PROVE OwnsR(l)'
    <3>1. \A k \in Launches : watcher[k].pc = "closing" => watcher'[k] = watcher[k]
      BY <1>2, <1>3, <1>5 DEF SessionInv, NamedTrue
    <3> QED BY <1>0, <1>2, <1>4, <1>7, <2>2, <3>1 DEF OwnsR, OnlyActor, SameLocals
  <2> QED BY <1>2, <2>1, <2>2 DEF SessionInv, OwnedTrue
<1>19. ToolTrue'
  BY <1>0, <1>2, <1>3, <1>4, <1>5, <1>7 DEF SessionInv, ToolTrue, FieldTypes
<1> QED BY <1>8, <1>9, <1>10, <1>11, <1>12, <1>13, <1>14, <1>15, <1>16, <1>17, <1>18, <1>19 DEF
   SessionInv

LEMMA TakesRelay ==
    ASSUME SessionInv, NEW a \in Actors, DiscardTakes(a)
    PROVE  SessionInv'
<1> USE DEF Someone, Anything, Launches
<1>0. FieldTypes /\ DriverTypeOK /\ Callers \subseteq Actors /\ Nobody \notin Actors
  BY Fields, ActorsAssumption DEF SessionInv, Actors
<1>1. /\ d' = [d EXCEPT !.relay = Nobody]
      /\ actor' = [actor EXCEPT ![a].pc = "discarding", ![a].prevRelay = d.relay]
  BY DEF DiscardTakes
<1>2. /\ UNCHANGED <<turn, relay, call, proc, holds, watcher, closer, evictor>>
      /\ actor[a].pc = "failing" /\ d.relay \in Anything
  BY <1>0 DEF DiscardTakes, FieldTypes
<1>3. /\ InSetup(a) /\ d.setup = a /\ actor[a].setup /\ d.current = Nobody
      /\ \A b \in Actors : InSetup(b) => b = a
      /\ (a \in Callers => turn[a].settle = "none") /\ evictor.pc = "no"
  BY <1>2, SetupIs DEF Within
<1>4. /\ DriverTypes' /\ d'.state = d.state /\ d'.closed = d.closed /\ d'.client = d.client
      /\ d'.relay = Nobody /\ d'.current = d.current /\ d'.setup = d.setup
  BY <1>0, <1>1, DriverIs DEF DriverTypes, States
<1>5. /\ ActorTypes' /\ OnlyActor(a) /\ actor'[a].pc = "discarding"
      /\ actor'[a].client = actor[a].client
      /\ actor'[a].prev = actor[a].prev /\ actor'[a].prevRelay = d.relay
      /\ actor'[a].setup = actor[a].setup /\ actor'[a].turn = actor[a].turn
      /\ actor'[a].batch = actor[a].batch
      /\ actor'[a].reused = actor[a].reused
  <2> DEFINE r == [actor[a] EXCEPT !.pc = "discarding", !.prevRelay = d.relay]
  <2>1. actor[a] \in Record
    BY <1>0 DEF DriverTypeOK, ActorTypes, Record
  <2> HIDE DEF Anything, Someone, Launches
  <2>0. "discarding" \in Places /\ Nobody \in Anything
    BY DEF Places, Within, After, Anything
  <2>2. /\ r \in Record /\ r.pc = "discarding" /\ r.client = actor[a].client
        /\ r.prev = actor[a].prev
        /\ r.prevRelay = d.relay /\ r.setup = actor[a].setup /\ r.turn = actor[a].turn
        /\ r.batch = actor[a].batch /\ r.reused = actor[a].reused
    BY <1>2, <2>0, <2>1 DEF Record
  <2>3. actor' = [actor EXCEPT ![a] = r]
    BY <1>1
  <2> HIDE DEF r
  <2> QED BY <1>0, <2>2, <2>3, ActorKeeps
<1>6. DriverTypeOK'
  BY <1>0, <1>2, <1>4, <1>5 DEF DriverTypeOK, DriverTypes, ActorTypes, TurnTypes, LaunchTypes,
     OtherTypes
<1>7. SetupTrue'
  BY <1>2, <1>3, <1>4, <1>5, SetupKeeps DEF SessionInv, Within, SameLocals, SameDriver
<1>8. TurnTrue'
  BY <1>0, <1>2, <1>3, <1>4, <1>5 DEF SessionInv, TurnTrue, SetupTrue, Active, OnlyActor,
     SameLocals
<1>9. RoundTrue'
  BY <1>0, <1>2, <1>3, <1>4, <1>5 DEF SessionInv, RoundTrue, TurnTrue, SetupTrue, InRound,
     FieldTypes, OnlyActor, SameLocals
<1>10. NamedTrue'
  BY <1>0, <1>2, <1>3, <1>4, <1>5 DEF SessionInv, NamedTrue, NamedP, NamedR, FieldTypes, Before,
     Within, OnlyActor, SameLocals
<1>11. TurnHand'
  BY <1>0, <1>2, <1>3, <1>4, <1>5 DEF SessionInv, TurnHand, GoneP, GoneR, FieldTypes
<1>12. \A b \in Actors : SetupHand(b)'
  <2> SUFFICES ASSUME NEW b \in Actors PROVE SetupHand(b)'
    OBVIOUS
  <2>1. CASE b # a
    <3>1. actor'[b] = actor[b] /\ actor[b].pc \notin Within
      BY <1>2, <1>3, <1>4, <1>5, <2>1 DEF OnlyActor, InSetup
    <3> QED BY <3>1 DEF SetupHand, Within
  <2>2. CASE b = a
    BY <1>0, <1>2, <1>3, <1>4, <1>5, <2>2 DEF SessionInv, SetupHand, GoneP, GoneR, FieldTypes,
       SameLocals
  <2> QED BY <2>1, <2>2
<1>13. WatchTrue'
  BY <1>0, <1>2, <1>3, <1>4, <1>5 DEF SessionInv, WatchTrue
<1>14. CloseTrue'
  BY <1>0, <1>2, <1>3, <1>4, <1>5 DEF SessionInv, CloseTrue, GoneP, GoneR, Settled, InSetup,
     Within, Unwatched, FieldTypes, OnlyActor, SameLocals
<1>15. EvictTrue'
  BY <1>0, <1>2, <1>3, <1>4, <1>5 DEF SessionInv, EvictTrue, Unwatched
<1>16. OwnedTrue'
  BY <1>0, <1>2, <1>3, <1>4, <1>5 DEF SessionInv, OwnedTrue, OwnsP, OwnsR, GoneP, GoneR,
     FieldTypes, OnlyActor, SameLocals
<1>17. ToolTrue'
  BY <1>0, <1>2, <1>3, <1>4, <1>5 DEF SessionInv, ToolTrue, FieldTypes
<1> QED BY <1>6, <1>7, <1>8, <1>9, <1>10, <1>11, <1>12, <1>13, <1>14, <1>15, <1>16, <1>17 DEF
   SessionInv

LEMMA DiscardsAll ==
    ASSUME SessionInv, NEW a \in Actors, DiscardCloses(a)
    PROVE  SessionInv'
<1> USE DEF Someone, Anything, Launches
<1>0. FieldTypes /\ DriverTypeOK /\ Callers \subseteq Actors /\ Nobody \notin Actors
  BY Fields, ActorsAssumption DEF SessionInv, Actors
<1>1. PICK q \in Anything, p \in Anything : q = actor[a].prevRelay /\ p = actor[a].client
  BY <1>0 DEF FieldTypes
<1>2. /\ UNCHANGED <<turn, call, holds, watcher, closer, evictor>> /\ actor[a].pc = "discarding"
      /\ NamedR(q) /\ NamedP(p) /\ d.relay = Nobody /\ (d.client = p \/ GoneP(d.client))
      /\ actor[a].prevRelay = q /\ actor[a].client = p
  BY <1>1 DEF DiscardCloses, SessionInv, NamedTrue, SetupHand
<1>3. /\ InSetup(a) /\ d.setup = a /\ actor[a].setup /\ d.current = Nobody
      /\ \A b \in Actors : InSetup(b) => b = a
      /\ (a \in Callers => turn[a].settle = "none") /\ evictor.pc = "no"
  BY <1>2, SetupIs DEF Within
<1>4. /\ LaunchTypes' /\ Waning /\ GoneR(q)' /\ GoneP(p)'
      /\ \A l \in Launches \ {q} : relay'[l] = relay[l]
      /\ \A l \in Launches \ {p} : proc'[l] = proc[l]
  <2>1. closeRelay(q) /\ release(p)
    BY <1>1 DEF DiscardCloses
  <2> QED BY <1>0, <1>2, <2>1, ReleaseIs
<1>5. \A x \in Anything : /\ (GoneP(x) => GoneP(x)') /\ (GoneR(x) => GoneR(x)')
                          /\ (NamedP(x) => NamedP(x)') /\ (NamedR(x) => NamedR(x)')
  BY <1>4, WaneIs
<1>6. DriverTypes' /\ SameDriver
  <2>1. \E failed \in MayFail : noteCleanup(failed)
    BY DEF DiscardCloses
  <2> QED BY <1>0, <2>1, NoteIs
<1>7. /\ ActorTypes' /\ OnlyActor(a) /\ actor'[a].pc = "resetting" /\ SameLocals(a)
  BY <1>0, GoesOn DEF DiscardCloses, Places, Within
<1>8. DriverTypeOK'
  BY <1>0, <1>2, <1>4, <1>6, <1>7 DEF DriverTypeOK, DriverTypes, ActorTypes, TurnTypes,
     LaunchTypes, OtherTypes
<1>9. SetupTrue'
  BY <1>2, <1>3, <1>6, <1>7, SetupKeeps DEF SessionInv, Within, SameLocals, SameDriver
<1>10. TurnTrue'
  BY <1>0, <1>2, <1>3, <1>4, <1>5, <1>6, <1>7 DEF SessionInv, TurnTrue, SetupTrue, Active,
     OnlyActor, SameLocals, SameDriver
<1>11. RoundTrue'
  BY <1>0, <1>2, <1>3, <1>4, <1>5, <1>6, <1>7 DEF SessionInv, RoundTrue, TurnTrue, SetupTrue,
     InRound, FieldTypes, OnlyActor, SameLocals, SameDriver
<1>12. NamedTrue'
  BY <1>0, <1>2, <1>3, <1>4, <1>5, <1>6, <1>7 DEF SessionInv, NamedTrue, NamedP, NamedR,
     FieldTypes, Before, Within, OnlyActor, SameLocals, SameDriver, Waning
<1>13. TurnHand'
  BY <1>0, <1>2, <1>3, <1>4, <1>5, <1>6, <1>7 DEF SessionInv, TurnHand, GoneP, GoneR, FieldTypes,
     SameDriver
<1>14. \A b \in Actors : SetupHand(b)'
  BY <1>0, <1>2, <1>3, <1>4, <1>5, <1>6, <1>7 DEF SessionInv, SetupHand, GoneP, GoneR,
     FieldTypes, OnlyActor, SameLocals, SameDriver
<1>15. WatchTrue'
  BY <1>0, <1>2, <1>3, <1>4, <1>5, <1>6, <1>7 DEF SessionInv, WatchTrue, SameDriver, Waning
<1>16. CloseTrue'
  BY <1>0, <1>2, <1>3, <1>4, <1>5, <1>6, <1>7 DEF SessionInv, CloseTrue, GoneP, GoneR, Settled,
     InSetup, Within, Unwatched, FieldTypes, OnlyActor, SameLocals, SameDriver
<1>17. EvictTrue'
  BY <1>0, <1>2, <1>3, <1>4, <1>5, <1>6, <1>7 DEF SessionInv, EvictTrue, Unwatched, SameDriver
<1>18. OwnedTrue'
  BY <1>0, <1>2, <1>3, <1>4, <1>5, <1>6, <1>7 DEF SessionInv, OwnedTrue, OwnsP, OwnsR, GoneP,
     GoneR, FieldTypes, OnlyActor, SameLocals, SameDriver, Waning
<1>19. ToolTrue'
  BY <1>0, <1>2, <1>3, <1>4, <1>5, <1>6, <1>7 DEF SessionInv, ToolTrue, FieldTypes, SameDriver,
     Waning
<1> QED BY <1>8, <1>9, <1>10, <1>11, <1>12, <1>13, <1>14, <1>15, <1>16, <1>17, <1>18, <1>19 DEF
   SessionInv

LEMMA Resets ==
    ASSUME SessionInv, NEW a \in Actors, DiscardResets(a)
    PROVE  SessionInv'
<1> USE DEF Someone, Anything, Launches
<1>0. FieldTypes /\ DriverTypeOK /\ Callers \subseteq Actors /\ Nobody \notin Actors
  BY Fields, ActorsAssumption DEF SessionInv, Actors
<1>1. d' = [d EXCEPT !.client = Nobody, !.current = Nobody, !.snapshot = Nobody,
                      !.fresh = FALSE, !.state = IF d.closed THEN @ ELSE "unstarted"]
  BY DEF DiscardResets
<1>2. /\ UNCHANGED <<turn, relay, call, proc, holds, watcher, closer, evictor>>
      /\ actor[a].pc = "resetting" /\ d.relay = Nobody /\ GoneP(d.client)
  BY DEF DiscardResets, SessionInv, SetupHand
<1>3. /\ InSetup(a) /\ d.setup = a /\ actor[a].setup /\ d.current = Nobody
      /\ \A b \in Actors : InSetup(b) => b = a
      /\ (a \in Callers => turn[a].settle = "none") /\ evictor.pc = "no"
  BY <1>2, SetupIs DEF Within
<1>4. /\ DriverTypes' /\ d'.state = (IF d.closed THEN d.state ELSE "unstarted")
      /\ d'.closed = d.closed /\ d'.client = Nobody
      /\ d'.relay = d.relay /\ d'.current = Nobody /\ d'.setup = d.setup
  BY <1>0, <1>1, DriverIs DEF DriverTypes, States
<1>5. /\ ActorTypes' /\ OnlyActor(a) /\ actor'[a].pc = "discarded" /\ SameLocals(a)
  BY <1>0, GoesOn DEF DiscardResets, Places, After
<1>6. DriverTypeOK'
  BY <1>0, <1>2, <1>4, <1>5 DEF DriverTypeOK, DriverTypes, ActorTypes, TurnTypes, LaunchTypes,
     OtherTypes
<1>7. SetupTrue'
  BY <1>0, <1>2, <1>3, <1>4, <1>5 DEF SessionInv, SetupTrue, InSetup, Within, OnlyActor,
     SameLocals
<1>8. TurnTrue'
  BY <1>0, <1>2, <1>3, <1>4, <1>5 DEF SessionInv, TurnTrue, SetupTrue, Active, OnlyActor,
     SameLocals
<1>9. RoundTrue'
  BY <1>0, <1>2, <1>3, <1>4, <1>5 DEF SessionInv, RoundTrue, TurnTrue, SetupTrue, InRound,
     FieldTypes, OnlyActor, SameLocals
<1>10. NamedTrue'
  BY <1>0, <1>2, <1>3, <1>4, <1>5 DEF SessionInv, NamedTrue, NamedP, NamedR, FieldTypes, Before,
     Within, OnlyActor, SameLocals
<1>11. TurnHand'
  BY <1>0, <1>2, <1>3, <1>4, <1>5 DEF SessionInv, TurnHand, GoneP, GoneR, FieldTypes
<1>12. \A b \in Actors : SetupHand(b)'
  BY <1>0, <1>2, <1>3, <1>4, <1>5 DEF SessionInv, SetupHand, GoneP, GoneR, FieldTypes, OnlyActor,
     SameLocals, InSetup, Within
<1>13. WatchTrue'
  BY <1>0, <1>2, <1>3, <1>4, <1>5 DEF SessionInv, WatchTrue
<1>14. CloseTrue'
  BY <1>0, <1>2, <1>3, <1>4, <1>5 DEF SessionInv, CloseTrue, GoneP, GoneR, Settled, InSetup,
     Within, Unwatched, FieldTypes, OnlyActor, SameLocals
<1>15. EvictTrue'
  BY <1>0, <1>2, <1>3, <1>4, <1>5 DEF SessionInv, EvictTrue, Unwatched
<1>16. OwnedTrue'
  BY <1>0, <1>2, <1>3, <1>4, <1>5 DEF SessionInv, OwnedTrue, OwnsP, OwnsR, GoneP, GoneR,
     FieldTypes, OnlyActor, SameLocals
<1>17. ToolTrue'
  BY <1>0, <1>2, <1>3, <1>4, <1>5 DEF SessionInv, ToolTrue, FieldTypes
<1> QED BY <1>6, <1>7, <1>8, <1>9, <1>10, <1>11, <1>12, <1>13, <1>14, <1>15, <1>16, <1>17 DEF
   SessionInv

----------------------------------------------------------------------------
(* The start of a turn, and the watch of a process.                        *)

LEMMA Begins ==
    ASSUME SessionInv, NEW c \in Callers, StartBegins(c)
    PROVE  SessionInv'
<1> USE DEF Someone, Anything, Launches
<1>0. FieldTypes /\ DriverTypeOK /\ Callers \subseteq Actors /\ Nobody \notin Actors
  BY Fields, ActorsAssumption DEF SessionInv, Actors
<1>1. PICK l \in Anything, k \in Someone, n \in Nat :
         /\ l = d.client
         /\ turn' = [turn EXCEPT ![c] = [@ EXCEPT !.settle = "open", !.prompt = "running",
                                                 !.client = l, !.relay = d.relay,
                                                 !.base = k, !.count = n]]
         /\ holds' = [holds EXCEPT ![l] = c]
         /\ d' = [d EXCEPT !.client = l, !.current = c, !.outcome = Nobody,
                           !.state = "prompting", !.fresh = FALSE]
  <2>1. actor[c].client = d.client
    BY <1>0 DEF StartBegins, SessionInv, SetupHand
  <2>2. Base(c) \in Someone /\ actor[c].count \in Nat
    BY <1>0 DEF DriverTypeOK, ActorTypes, Base
  <2>3. d.client \in Anything
    BY <1>0 DEF FieldTypes
  <2> QED BY <2>1, <2>2, <2>3 DEF StartBegins
<1>2. /\ UNCHANGED <<relay, call, proc, watcher, closer, evictor>>
      /\ actor[c].pc = "starting" /\ ~d.closed /\ actor[c].client = d.client
  BY <1>0 DEF StartBegins, SessionInv, SetupHand
<1>3. /\ InSetup(c) /\ d.setup = c /\ actor[c].setup /\ d.current = Nobody
      /\ \A b \in Actors : InSetup(b) => b = c
      /\ (c \in Callers => turn[c].settle = "none") /\ evictor.pc = "no"
      /\ closer.pc = "no"
  BY <1>0, <1>2, SetupIs DEF Within, SessionInv, SetupTrue
<1>4. /\ DriverTypes' /\ d'.state = "prompting" /\ d'.closed = d.closed /\ d'.client = d.client
      /\ d'.relay = d.relay /\ d'.current = c /\ d'.setup = d.setup
  BY <1>0, <1>1, DriverIs DEF DriverTypes, States
<1>5. /\ ActorTypes' /\ OnlyActor(c) /\ actor'[c].pc = "round" /\ actor'[c].turn = c
      /\ actor'[c].batch = 0 /\ actor'[c].client = Nobody /\ actor'[c].prev = Nobody
      /\ actor'[c].prevRelay = Nobody
  BY <1>0, GetsIs DEF StartBegins
<1>6. /\ TurnTypes' /\ OnlyTurn(c) /\ turn'[c].settle = "open" /\ turn'[c].prompt = "running"
      /\ turn'[c].client = d.client /\ turn'[c].relay = d.relay
  <2> DEFINE r == [turn[c] EXCEPT !.settle = "open", !.prompt = "running", !.client = l,
                                 !.relay = d.relay, !.base = k, !.count = n]
  <2> HIDE DEF Anything, Someone, Launches
  <2>1. turn[c] \in TurnRecord /\ d.relay \in Anything
    BY <1>0, TurnIs DEF FieldTypes
  <2>2. /\ r \in TurnRecord /\ r.settle = "open" /\ r.prompt = "running" /\ r.client = l
        /\ r.relay = d.relay
    BY <2>1 DEF TurnRecord
  <2>3. turn' = [turn EXCEPT ![c] = r]
    BY <1>1
  <2> HIDE DEF r
  <2> QED BY <1>0, <1>1, <2>2, <2>3, TurnKeeps
<1>7. LaunchTypes'
  BY <1>0, <1>1, <1>2 DEF DriverTypeOK, LaunchTypes
<1>8. \A b1 \in Callers : InRound(b1) => actor[b1].turn # c
  BY <1>0, <1>3 DEF SessionInv, RoundTrue, InRound
<1>9. DriverTypeOK'
  BY <1>0, <1>2, <1>4, <1>5, <1>6, <1>7 DEF DriverTypeOK, OtherTypes
<1>10. SetupTrue'
  BY <1>0, <1>2, <1>3, <1>4, <1>5, <1>6, <1>7, <1>8 DEF SessionInv, SetupTrue, InSetup, Within,
     OnlyActor, SameLocals
<1>11. TurnTrue'
  BY <1>0, <1>2, <1>3, <1>4, <1>5, <1>6, <1>7, <1>8 DEF SessionInv, TurnTrue, SetupTrue, Active,
     OnlyActor, SameLocals, OnlyTurn
<1>12. RoundTrue'
  BY <1>0, <1>2, <1>3, <1>4, <1>5, <1>6, <1>7, <1>8 DEF SessionInv, RoundTrue, TurnTrue,
     SetupTrue, InRound, FieldTypes, OnlyActor, SameLocals, OnlyTurn
<1>13. NamedTrue'
  BY <1>0, <1>2, <1>3, <1>4, <1>5, <1>6, <1>7, <1>8 DEF SessionInv, NamedTrue, NamedP, NamedR,
     FieldTypes, Before, Within, OnlyActor, SameLocals, OnlyTurn
<1>14. TurnHand'
  BY <1>0, <1>2, <1>3, <1>4, <1>5, <1>6, <1>7, <1>8 DEF SessionInv, TurnHand, GoneP, GoneR,
     FieldTypes, OnlyTurn
<1>15. \A b \in Actors : SetupHand(b)'
  BY <1>0, <1>2, <1>3, <1>4, <1>5, <1>6, <1>7, <1>8 DEF SessionInv, SetupHand, GoneP, GoneR,
     FieldTypes, OnlyActor, SameLocals, InSetup, Within
<1>16. WatchTrue'
  BY <1>0, <1>2, <1>3, <1>4, <1>5, <1>6, <1>7, <1>8 DEF SessionInv, WatchTrue
<1>17. CloseTrue'
  BY <1>0, <1>2, <1>3, <1>4, <1>5, <1>6, <1>7, <1>8 DEF SessionInv, CloseTrue, GoneP, GoneR,
     Settled, InSetup, Within, Unwatched, FieldTypes, OnlyActor, SameLocals, OnlyTurn
<1>18. EvictTrue'
  BY <1>0, <1>2, <1>3, <1>4, <1>5, <1>6, <1>7, <1>8 DEF SessionInv, EvictTrue, Unwatched
<1>19. OwnedTrue'
  BY SMTT(30), <1>0, <1>2, <1>3, <1>4, <1>5, <1>6, <1>7, <1>8 DEF SessionInv, OwnedTrue, OwnsP, OwnsR,
     GoneP, GoneR, FieldTypes, OnlyActor, SameLocals, OnlyTurn
<1>20. ToolTrue'
  BY <1>0, <1>2, <1>3, <1>4, <1>5, <1>6, <1>7, <1>8 DEF SessionInv, ToolTrue, FieldTypes,
     OnlyTurn
<1> QED BY <1>9, <1>10, <1>11, <1>12, <1>13, <1>14, <1>15, <1>16, <1>17, <1>18, <1>19, <1>20 DEF
   SessionInv

LEMMA ModelsEnd ==
    ASSUME SessionInv, NEW a \in Refreshers, ModelsEnds(a)
    PROVE  SessionInv'
<1> USE DEF Someone, Anything, Launches
<1>0. FieldTypes /\ DriverTypeOK /\ Callers \subseteq Actors /\ Nobody \notin Actors
  BY Fields, ActorsAssumption DEF SessionInv, Actors
<1>1. d' = [d EXCEPT !.state = "idle", !.fresh = TRUE] /\ a \in Actors
  BY DEF ModelsEnds, Actors
<1>2. /\ UNCHANGED <<turn, relay, call, proc, holds, watcher, closer, evictor>>
      /\ actor[a].pc = "refreshed" /\ ~d.closed /\ a \in Actors
      /\ d.client = actor[a].client
  BY <1>1 DEF ModelsEnds, SessionInv, SetupHand
<1>3. /\ InSetup(a) /\ d.setup = a /\ actor[a].setup /\ d.current = Nobody
      /\ \A b \in Actors : InSetup(b) => b = a
      /\ (a \in Callers => turn[a].settle = "none") /\ evictor.pc = "no"
      /\ closer.pc = "no"
  BY <1>2, SetupIs DEF Within, SessionInv, SetupTrue
<1>4. /\ DriverTypes' /\ d'.state = "idle" /\ d'.closed = d.closed /\ d'.client = d.client
      /\ d'.relay = d.relay /\ d'.current = d.current /\ d'.setup = d.setup
  BY <1>0, <1>1, DriverIs DEF DriverTypes, States
<1>5. /\ ActorTypes' /\ OnlyActor(a) /\ actor'[a].pc = "over" /\ actor'[a].client = Nobody
      /\ actor'[a].prev = Nobody /\ actor'[a].prevRelay = Nobody
  BY <1>0, <1>1, EndsIs DEF ModelsEnds
<1>6. DriverTypeOK'
  BY <1>0, <1>2, <1>4, <1>5 DEF DriverTypeOK, DriverTypes, ActorTypes, TurnTypes, LaunchTypes,
     OtherTypes
<1>7. SetupTrue'
  BY <1>0, <1>2, <1>3, <1>4, <1>5 DEF SessionInv, SetupTrue, InSetup, Within, OnlyActor,
     SameLocals
<1>8. TurnTrue'
  BY <1>0, <1>2, <1>3, <1>4, <1>5 DEF SessionInv, TurnTrue, SetupTrue, Active, OnlyActor,
     SameLocals
<1>9. RoundTrue'
  BY <1>0, <1>2, <1>3, <1>4, <1>5 DEF SessionInv, RoundTrue, TurnTrue, SetupTrue, InRound,
     FieldTypes, OnlyActor, SameLocals
<1>10. NamedTrue'
  BY <1>0, <1>2, <1>3, <1>4, <1>5 DEF SessionInv, NamedTrue, NamedP, NamedR, FieldTypes, Before,
     Within, OnlyActor, SameLocals
<1>11. TurnHand'
  BY <1>0, <1>2, <1>3, <1>4, <1>5 DEF SessionInv, TurnHand, GoneP, GoneR, FieldTypes
<1>12. \A b \in Actors : SetupHand(b)'
  BY <1>0, <1>2, <1>3, <1>4, <1>5 DEF SessionInv, SetupHand, GoneP, GoneR, FieldTypes, OnlyActor,
     SameLocals, InSetup, Within
<1>13. WatchTrue'
  BY <1>0, <1>2, <1>3, <1>4, <1>5 DEF SessionInv, WatchTrue
<1>14. CloseTrue'
  BY <1>0, <1>2, <1>3, <1>4, <1>5 DEF SessionInv, CloseTrue, GoneP, GoneR, Settled, InSetup,
     Within, Unwatched, FieldTypes, OnlyActor, SameLocals
<1>15. EvictTrue'
  BY <1>0, <1>2, <1>3, <1>4, <1>5 DEF SessionInv, EvictTrue, Unwatched
<1>16. OwnedTrue'
  BY <1>0, <1>2, <1>3, <1>4, <1>5 DEF SessionInv, OwnedTrue, OwnsP, OwnsR, GoneP, GoneR,
     FieldTypes, OnlyActor, SameLocals
<1>17. ToolTrue'
  BY <1>0, <1>2, <1>3, <1>4, <1>5 DEF SessionInv, ToolTrue, FieldTypes
<1> QED BY <1>6, <1>7, <1>8, <1>9, <1>10, <1>11, <1>12, <1>13, <1>14, <1>15, <1>16, <1>17 DEF
   SessionInv

WatchRecord == [pc : {"off", "watching", "aborting", "closing", "done"}, current : Someone,
                relay : Anything]

LEMMA WatcherKeeps ==
    ASSUME DriverTypeOK, NEW l \in Launches, NEW r \in WatchRecord,
           watcher' = [watcher EXCEPT ![l] = r], UNCHANGED <<closer, evictor>>
    PROVE  OtherTypes' /\ watcher'[l] = r /\ \A k \in Launches \ {l} : watcher'[k] = watcher[k]
BY DEF DriverTypeOK, OtherTypes, WatchRecord

LEMMA WatchWakes ==
    ASSUME SessionInv, NEW l \in Launches, WatcherWakes(l)
    PROVE  SessionInv'
<1> USE DEF Someone, Anything, Launches
<1>0. FieldTypes /\ DriverTypeOK /\ Callers \subseteq Actors /\ Nobody \notin Actors
  BY Fields, ActorsAssumption DEF SessionInv, Actors
<1>1. PICK t \in Someone : /\ watcher' = [watcher EXCEPT ![l].pc = "aborting", ![l].current = t]
                           /\ turn' = IF t = Nobody THEN turn ELSE aborted(t)
  BY <1>0 DEF WatcherWakes, FieldTypes
<1>2. /\ UNCHANGED <<d, actor, relay, call, proc, holds, closer, evictor>>
      /\ watcher[l].pc = "watching" /\ proc[l] \in {"dead", "released"}
  BY <1>0 DEF WatcherWakes, SessionInv, NamedTrue, DriverTypeOK, LaunchTypes
<1>3. TurnTypes' /\ SameTurns
  <2>1. CASE t = Nobody
    BY <1>0, <1>1, <2>1 DEF DriverTypeOK, TurnTypes, SameTurns
  <2>2. CASE t \in Callers
    BY <1>0, <1>1, <2>2, AbortedIs
  <2> QED BY <2>1, <2>2
<1>4. /\ OtherTypes' /\ \A k \in Launches \ {l} : watcher'[k] = watcher[k]
      /\ watcher'[l].pc = "aborting" /\ watcher'[l].relay = watcher[l].relay
  <2> DEFINE r == [watcher[l] EXCEPT !.pc = "aborting", !.current = t]
  <2>1. watcher[l] \in WatchRecord
    BY <1>0 DEF DriverTypeOK, OtherTypes, WatchRecord
  <2>2. r \in WatchRecord /\ r.pc = "aborting" /\ r.relay = watcher[l].relay
    BY <1>0, <1>2, <2>1 DEF WatchRecord
  <2>3. watcher' = [watcher EXCEPT ![l] = r]
    BY <1>1
  <2> HIDE DEF r
  <2> QED BY <1>0, <1>0, <1>2, <2>2, <2>3, WatcherKeeps
<1>5. DriverTypeOK'
  BY <1>0, <1>2, <1>3, <1>4 DEF DriverTypeOK, DriverTypes, ActorTypes, TurnTypes, LaunchTypes,
     OtherTypes
<1>6. SetupTrue'
  BY <1>0, <1>2, <1>3, <1>4 DEF SessionInv, SetupTrue, InSetup, Within
<1>7. TurnTrue'
  BY <1>0, <1>2, <1>3, <1>4 DEF SessionInv, TurnTrue, SetupTrue, Active, SameTurns
<1>8. RoundTrue'
  BY <1>0, <1>2, <1>3, <1>4 DEF SessionInv, RoundTrue, TurnTrue, SetupTrue, InRound, FieldTypes,
     SameTurns
<1>9. NamedTrue'
  BY <1>0, <1>2, <1>3, <1>4 DEF SessionInv, NamedTrue, NamedP, NamedR, FieldTypes, Before,
     Within, SameTurns
<1>10. TurnHand'
  BY <1>0, <1>2, <1>3, <1>4 DEF SessionInv, TurnHand, GoneP, GoneR, FieldTypes, SameTurns
<1>11. \A b \in Actors : SetupHand(b)'
  BY <1>0, <1>2, <1>3, <1>4 DEF SessionInv, SetupHand, GoneP, GoneR, FieldTypes
<1>12. WatchTrue'
  BY <1>0, <1>2, <1>3, <1>4 DEF SessionInv, WatchTrue
<1>13. CloseTrue'
  BY <1>0, <1>2, <1>3, <1>4 DEF SessionInv, CloseTrue, GoneP, GoneR, Settled, InSetup, Within,
     Unwatched, FieldTypes, SameTurns
<1>14. EvictTrue'
  BY <1>0, <1>2, <1>3, <1>4 DEF SessionInv, EvictTrue, Unwatched
<1>15. OwnedTrue'
  BY SMTT(30), <1>0, <1>2, <1>3, <1>4 DEF SessionInv, OwnedTrue, OwnsP, OwnsR, GoneP, GoneR, FieldTypes,
     SameTurns
<1>16. ToolTrue'
  BY <1>0, <1>2, <1>3, <1>4 DEF SessionInv, ToolTrue, FieldTypes, SameTurns
<1> QED BY <1>5, <1>6, <1>7, <1>8, <1>9, <1>10, <1>11, <1>12, <1>13, <1>14, <1>15, <1>16 DEF
   SessionInv

LEMMA WatchClears ==
    ASSUME SessionInv, NEW l \in Launches, WatcherClears(l), d.client = l /\ d.state = "idle"
    PROVE  SessionInv'
<1> USE DEF Someone, Anything, Launches
<1>0. FieldTypes /\ DriverTypeOK /\ Callers \subseteq Actors /\ Nobody \notin Actors
  BY Fields, ActorsAssumption DEF SessionInv, Actors
<1>1. /\ d' = [d EXCEPT !.client = Nobody, !.relay = Nobody, !.snapshot = Nobody,
                        !.fresh = FALSE, !.state = "unstarted"]
      /\ watcher' = [watcher EXCEPT ![l].pc = "closing", ![l].relay = d.relay]
  BY DEF WatcherClears
<1>2. /\ UNCHANGED <<actor, turn, relay, call, proc, holds, closer, evictor>>
      /\ watcher[l].pc = "aborting" /\ proc[l] \in {"dead", "released"} /\ ~d.closed
      /\ d.relay \in Anything /\ d.client = l /\ d.state = "idle"
  BY <1>0 DEF WatcherClears, SessionInv, WatchTrue, SetupTrue, FieldTypes
<1>3. /\ d.current = Nobody /\ closer.pc = "no" /\ evictor.pc = "no"
      /\ \A b \in Actors : ~InSetup(b)
  BY <1>2, RestIs
<1>4. /\ DriverTypes' /\ d'.state = "unstarted" /\ d'.closed = d.closed /\ d'.client = Nobody
      /\ d'.relay = Nobody /\ d'.current = d.current /\ d'.setup = d.setup
  BY <1>0, <1>1, DriverIs DEF DriverTypes, States
<1>5. /\ OtherTypes' /\ \A k \in Launches \ {l} : watcher'[k] = watcher[k]
      /\ watcher'[l].pc = "closing" /\ watcher'[l].relay = d.relay
  <2> DEFINE r == [watcher[l] EXCEPT !.pc = "closing", !.relay = d.relay]
  <2>1. watcher[l] \in WatchRecord
    BY <1>0 DEF DriverTypeOK, OtherTypes, WatchRecord
  <2>2. r \in WatchRecord /\ r.pc = "closing" /\ r.relay = d.relay
    BY <1>2, <2>1 DEF WatchRecord
  <2>3. watcher' = [watcher EXCEPT ![l] = r]
    BY <1>1
  <2> HIDE DEF r
  <2> QED BY <1>0, <1>2, <2>2, <2>3, WatcherKeeps
<1>6. DriverTypeOK'
  BY <1>0, <1>2, <1>4, <1>5 DEF DriverTypeOK, DriverTypes, ActorTypes, TurnTypes, LaunchTypes,
     OtherTypes
<1>7. SetupTrue'
  BY <1>0, <1>2, <1>3, <1>4, <1>5 DEF SessionInv, SetupTrue, InSetup, Within
<1>8. TurnTrue'
  BY <1>0, <1>2, <1>3, <1>4, <1>5 DEF SessionInv, TurnTrue, SetupTrue, Active
<1>9. RoundTrue'
  BY <1>0, <1>2, <1>3, <1>4, <1>5 DEF SessionInv, RoundTrue, TurnTrue, SetupTrue, InRound,
     FieldTypes
<1>10. NamedTrue'
  BY <1>0, <1>2, <1>3, <1>4, <1>5 DEF SessionInv, NamedTrue, NamedP, NamedR, FieldTypes, Before,
     Within
<1>11. TurnHand'
  BY <1>0, <1>2, <1>3, <1>4, <1>5 DEF SessionInv, TurnHand, GoneP, GoneR, FieldTypes
<1>12. \A b \in Actors : SetupHand(b)'
  BY <1>0, <1>2, <1>3, <1>4, <1>5 DEF SessionInv, SetupHand, GoneP, GoneR, FieldTypes, InSetup,
     Within
<1>13. WatchTrue'
  BY <1>0, <1>2, <1>3, <1>4, <1>5 DEF SessionInv, WatchTrue
<1>14. CloseTrue'
  BY <1>0, <1>2, <1>3, <1>4, <1>5 DEF SessionInv, CloseTrue, GoneP, GoneR, Settled, InSetup,
     Within, Unwatched, FieldTypes
<1>15. EvictTrue'
  BY <1>0, <1>2, <1>3, <1>4, <1>5 DEF SessionInv, EvictTrue, Unwatched
<1>16. OwnedTrue'
  BY <1>0, <1>2, <1>3, <1>4, <1>5, SMTT(30) DEF SessionInv, OwnedTrue, OwnsP, OwnsR, GoneP, GoneR,
     FieldTypes
<1>17. ToolTrue'
  BY <1>0, <1>2, <1>3, <1>4, <1>5 DEF SessionInv, ToolTrue, FieldTypes
<1> QED BY <1>6, <1>7, <1>8, <1>9, <1>10, <1>11, <1>12, <1>13, <1>14, <1>15, <1>16, <1>17 DEF
   SessionInv

LEMMA WatchEnds ==
    ASSUME SessionInv, NEW l \in Launches, WatcherClears(l), ~(d.client = l /\ d.state = "idle")
    PROVE  SessionInv'
<1> USE DEF Someone, Anything, Launches
<1>0. FieldTypes /\ DriverTypeOK /\ Callers \subseteq Actors /\ Nobody \notin Actors
  BY Fields, ActorsAssumption DEF SessionInv, Actors
<1>1. /\ UNCHANGED <<d, actor, turn, relay, call, proc, holds, closer, evictor>>
      /\ watcher[l].pc = "aborting"
  BY DEF WatcherClears
<1>2. /\ OtherTypes' /\ \A k \in Launches \ {l} : watcher'[k] = watcher[k]
      /\ watcher'[l].pc = "done" /\ watcher'[l].relay = watcher[l].relay
  <2> DEFINE r == [watcher[l] EXCEPT !.pc = "done"]
  <2>1. watcher[l] \in WatchRecord
    BY <1>0 DEF DriverTypeOK, OtherTypes, WatchRecord
  <2>2. r \in WatchRecord /\ r.pc = "done" /\ r.relay = watcher[l].relay
    BY <1>1, <2>1 DEF WatchRecord
  <2>3. watcher' = [watcher EXCEPT ![l] = r]
    BY DEF WatcherClears
  <2> HIDE DEF r
  <2> QED BY <1>0, <1>1, <2>2, <2>3, WatcherKeeps
<1>3. DriverTypeOK'
  BY <1>0, <1>1, <1>2 DEF DriverTypeOK, DriverTypes, ActorTypes, TurnTypes, LaunchTypes, OtherTypes
<1>4. SetupTrue'
  BY <1>0, <1>1, <1>2 DEF SessionInv, SetupTrue, InSetup, Within
<1>5. TurnTrue'
  BY <1>0, <1>1, <1>2 DEF SessionInv, TurnTrue, SetupTrue, Active
<1>6. RoundTrue'
  BY <1>0, <1>1, <1>2 DEF SessionInv, RoundTrue, TurnTrue, SetupTrue, InRound, FieldTypes
<1>7. NamedTrue'
  BY <1>0, <1>1, <1>2 DEF SessionInv, NamedTrue, NamedP, NamedR, FieldTypes, Before, Within
<1>8. TurnHand'
  BY <1>0, <1>1, <1>2 DEF SessionInv, TurnHand, GoneP, GoneR, FieldTypes
<1>9. \A b \in Actors : SetupHand(b)'
  BY <1>0, <1>1, <1>2 DEF SessionInv, SetupHand, GoneP, GoneR, FieldTypes
<1>10. WatchTrue'
  BY <1>0, <1>1, <1>2 DEF SessionInv, WatchTrue
<1>11. CloseTrue'
  BY <1>0, <1>1, <1>2 DEF SessionInv, CloseTrue, GoneP, GoneR, Settled, InSetup, Within,
     Unwatched, FieldTypes
<1>12. EvictTrue'
  BY <1>0, <1>1, <1>2 DEF SessionInv, EvictTrue, Unwatched
<1>13. OwnedTrue'
  BY <1>0, <1>1, <1>2 DEF SessionInv, OwnedTrue, OwnsP, OwnsR, GoneP, GoneR, FieldTypes
<1>14. ToolTrue'
  BY <1>0, <1>1, <1>2 DEF SessionInv, ToolTrue, FieldTypes
<1> QED BY <1>3, <1>4, <1>5, <1>6, <1>7, <1>8, <1>9, <1>10, <1>11, <1>12, <1>13, <1>14 DEF
   SessionInv

LEMMA WatchCloses ==
    ASSUME SessionInv, NEW l \in Launches, WatcherCloses(l)
    PROVE  SessionInv'
<1> USE DEF Someone, Anything, Launches
<1>0. FieldTypes /\ DriverTypeOK /\ Callers \subseteq Actors /\ Nobody \notin Actors
  BY Fields, ActorsAssumption DEF SessionInv, Actors
<1>1. PICK q \in Anything : q = watcher[l].relay
  BY <1>0 DEF FieldTypes
<1>2. /\ UNCHANGED <<actor, turn, call, proc, holds, closer, evictor>>
      /\ watcher[l].pc = "closing" /\ watcher[l].relay = q /\ NamedR(q)
  BY <1>1 DEF WatcherCloses, SessionInv, NamedTrue
<1>3. /\ LaunchTypes' /\ Waning /\ GoneR(q)'
      /\ \A k \in Launches \ {q} : relay'[k] = relay[k]
  <2>1. closeRelay(q)
    BY <1>1 DEF WatcherCloses
  <2> QED BY <1>0, <1>2, <2>1, ReleaseIs DEF NamedP
<1>4. \A x \in Anything : /\ (GoneP(x) => GoneP(x)') /\ (GoneR(x) => GoneR(x)')
                          /\ (NamedP(x) => NamedP(x)') /\ (NamedR(x) => NamedR(x)')
  BY <1>3, WaneIs
<1>5. DriverTypes' /\ SameDriver
  <2>1. \E failed \in MayFail : noteCleanup(failed)
    BY DEF WatcherCloses
  <2> QED BY <1>0, <2>1, NoteIs
<1>6. /\ OtherTypes' /\ \A k \in Launches \ {l} : watcher'[k] = watcher[k]
      /\ watcher'[l].pc = "done" /\ watcher'[l].relay = watcher[l].relay
  <2> DEFINE r == [watcher[l] EXCEPT !.pc = "done"]
  <2>1. watcher[l] \in WatchRecord
    BY <1>0 DEF DriverTypeOK, OtherTypes, WatchRecord
  <2>2. r \in WatchRecord /\ r.pc = "done" /\ r.relay = watcher[l].relay
    BY <1>2, <2>1 DEF WatchRecord
  <2>3. watcher' = [watcher EXCEPT ![l] = r]
    BY DEF WatcherCloses
  <2> HIDE DEF r
  <2> QED BY <1>0, <1>2, <2>2, <2>3, WatcherKeeps
<1>7. DriverTypeOK'
  BY <1>0, <1>2, <1>3, <1>5, <1>6 DEF DriverTypeOK, DriverTypes, ActorTypes, TurnTypes,
     LaunchTypes, OtherTypes
<1>8. SetupTrue'
  BY <1>0, <1>2, <1>3, <1>4, <1>5, <1>6 DEF SessionInv, SetupTrue, InSetup, Within, SameDriver
<1>9. TurnTrue'
  BY <1>0, <1>2, <1>3, <1>4, <1>5, <1>6 DEF SessionInv, TurnTrue, SetupTrue, Active, SameDriver
<1>10. RoundTrue'
  BY <1>0, <1>2, <1>3, <1>4, <1>5, <1>6 DEF SessionInv, RoundTrue, TurnTrue, SetupTrue, InRound,
     FieldTypes, SameDriver
<1>11. NamedTrue'
  BY <1>0, <1>2, <1>3, <1>4, <1>5, <1>6 DEF SessionInv, NamedTrue, NamedP, NamedR, FieldTypes,
     Before, Within, SameDriver, Waning
<1>12. TurnHand'
  BY <1>0, <1>2, <1>3, <1>4, <1>5, <1>6 DEF SessionInv, TurnHand, GoneP, GoneR, FieldTypes,
     SameDriver
<1>13. \A b \in Actors : SetupHand(b)'
  BY <1>0, <1>2, <1>3, <1>4, <1>5, <1>6 DEF SessionInv, SetupHand, GoneP, GoneR, FieldTypes,
     SameDriver
<1>14. WatchTrue'
  BY <1>0, <1>2, <1>3, <1>4, <1>5, <1>6 DEF SessionInv, WatchTrue, SameDriver, Waning
<1>15. CloseTrue'
  BY <1>0, <1>2, <1>3, <1>4, <1>5, <1>6 DEF SessionInv, CloseTrue, GoneP, GoneR, Settled,
     InSetup, Within, Unwatched, FieldTypes, SameDriver
<1>16. EvictTrue'
  BY <1>0, <1>2, <1>3, <1>4, <1>5, <1>6 DEF SessionInv, EvictTrue, Unwatched, SameDriver
<1>17. OwnedTrue'
  BY <1>0, <1>2, <1>3, <1>4, <1>5, <1>6 DEF SessionInv, OwnedTrue, OwnsP, OwnsR, GoneP, GoneR,
     FieldTypes, SameDriver, Waning
<1>18. ToolTrue'
  BY <1>0, <1>2, <1>3, <1>4, <1>5, <1>6 DEF SessionInv, ToolTrue, FieldTypes, SameDriver, Waning
<1> QED BY <1>7, <1>8, <1>9, <1>10, <1>11, <1>12, <1>13, <1>14, <1>15, <1>16, <1>17, <1>18 DEF
   SessionInv

LEMMA WatchSteps ==
    ASSUME SessionInv, NEW l \in Launches, WatcherStep(l)
    PROVE  SessionInv'
BY WatchWakes, WatchClears, WatchEnds, WatchCloses DEF WatcherStep

----------------------------------------------------------------------------
(* Close and CloseIdle.                                                    *)

CloseRecord == [pc : {"no", "aborting", "joining", "done"}, setup : Anything, current : Someone,
                client : Anything, relay : Anything]
EvictRecord == [pc : {"no", "closing", "joining", "done"}, client : Anything, relay : Anything]

LEMMA CloseStarts ==
    ASSUME SessionInv, CloseBegins
    PROVE  SessionInv'
<1> USE DEF Someone, Anything, Launches
<1>0. FieldTypes /\ DriverTypeOK /\ Callers \subseteq Actors /\ Nobody \notin Actors
  BY Fields, ActorsAssumption DEF SessionInv, Actors
<1>1. /\ closer' = [pc |-> "aborting", setup |-> d.setup, current |-> d.current,
                    client |-> d.client, relay |-> d.relay]
      /\ d' = [d EXCEPT !.closed = TRUE, !.state = "closed"]
  BY DEF CloseBegins
<1>2. /\ UNCHANGED <<actor, relay, call, proc, holds, watcher, evictor>> /\ closer.pc = "no"
      /\ closer.client = Nobody /\ closer.relay = Nobody
  BY DEF CloseBegins, SessionInv, CloseTrue
<1>3. /\ DriverTypes' /\ d'.state = "closed" /\ d'.closed = TRUE /\ d'.client = d.client
      /\ d'.relay = d.relay /\ d'.current = d.current /\ d'.setup = d.setup
  BY <1>0, <1>1, DriverIs DEF DriverTypes, States
<1>4. /\ OtherTypes' /\ closer'.pc = "aborting" /\ closer'.setup = d.setup
      /\ closer'.current = d.current
      /\ closer'.client = d.client /\ closer'.relay = d.relay
  BY <1>0, <1>1, <1>2 DEF DriverTypeOK, OtherTypes, FieldTypes
<1>5. TurnTypes' /\ SameTurns
  <2>1. CASE d.current = Nobody
    BY <1>0, <2>1 DEF CloseBegins, DriverTypeOK, TurnTypes, SameTurns
  <2>2. CASE d.current \in Callers
    BY <1>0, <2>2, AbortedIs DEF CloseBegins
  <2> QED BY <1>0, <2>1, <2>2 DEF FieldTypes
<1>6. \A a \in Actors : InSetup(a) => evictor.pc = "no"
  BY <1>2 DEF SessionInv, SetupTrue
<1>7. DriverTypeOK'
  BY <1>0, <1>2, <1>3, <1>4, <1>5 DEF DriverTypeOK, DriverTypes, ActorTypes, TurnTypes,
     LaunchTypes, OtherTypes
<1>8. SetupTrue'
  BY <1>0, <1>2, <1>3, <1>4, <1>5, <1>6 DEF SessionInv, SetupTrue, InSetup, Within
<1>9. TurnTrue'
  BY <1>0, <1>2, <1>3, <1>4, <1>5, <1>6 DEF SessionInv, TurnTrue, SetupTrue, Active, SameTurns
<1>10. RoundTrue'
  BY <1>0, <1>2, <1>3, <1>4, <1>5, <1>6 DEF SessionInv, RoundTrue, TurnTrue, SetupTrue, InRound,
     FieldTypes, SameTurns
<1>11. NamedTrue'
  BY <1>0, <1>2, <1>3, <1>4, <1>5, <1>6 DEF SessionInv, NamedTrue, NamedP, NamedR, FieldTypes,
     Before, Within, SameTurns
<1>12. TurnHand'
  BY <1>0, <1>2, <1>3, <1>4, <1>5, <1>6 DEF SessionInv, TurnHand, GoneP, GoneR, FieldTypes,
     SameTurns
<1>13. \A b \in Actors : SetupHand(b)'
  BY <1>0, <1>2, <1>3, <1>4, <1>5, <1>6 DEF SessionInv, SetupHand, GoneP, GoneR, FieldTypes
<1>14. WatchTrue'
  BY <1>0, <1>2, <1>3, <1>4, <1>5, <1>6 DEF SessionInv, WatchTrue
<1>15. CloseTrue'
  BY <1>0, <1>2, <1>3, <1>4, <1>5, <1>6 DEF SessionInv, CloseTrue, GoneP, GoneR, Settled,
     InSetup, Within, Unwatched, FieldTypes, SameTurns
<1>16. EvictTrue'
  BY <1>0, <1>2, <1>3, <1>4, <1>5, <1>6 DEF SessionInv, EvictTrue, Unwatched
<1>17. OwnedTrue'
  BY <1>0, <1>2, <1>3, <1>4, <1>5, <1>6 DEF SessionInv, OwnedTrue, OwnsP, OwnsR, GoneP, GoneR,
     FieldTypes, SameTurns
<1>18. ToolTrue'
  BY <1>0, <1>2, <1>3, <1>4, <1>5, <1>6 DEF SessionInv, ToolTrue, FieldTypes, SameTurns
<1> QED BY <1>7, <1>8, <1>9, <1>10, <1>11, <1>12, <1>13, <1>14, <1>15, <1>16, <1>17, <1>18 DEF
   SessionInv

LEMMA CloseGoesOn ==
    ASSUME SessionInv, CloseReleases
    PROVE  SessionInv'
<1> USE DEF Someone, Anything, Launches
<1>0. FieldTypes /\ DriverTypeOK /\ Callers \subseteq Actors /\ Nobody \notin Actors
  BY Fields, ActorsAssumption DEF SessionInv, Actors
<1>1. PICK q \in Anything, p \in Anything : q = closer.relay /\ p = closer.client
  BY <1>0 DEF FieldTypes
<1>2. /\ UNCHANGED <<actor, turn, call, holds, watcher, evictor>> /\ closer.pc = "aborting"
      /\ Settled(closer.current) /\ closer.relay = q /\ closer.client = p /\ NamedR(q) /\ NamedP(p)
  BY <1>1 DEF CloseReleases, SessionInv, NamedTrue
<1>3. /\ LaunchTypes' /\ Waning /\ GoneR(q)' /\ GoneP(p)'
      /\ \A l \in Launches \ {q} : relay'[l] = relay[l]
      /\ \A l \in Launches \ {p} : proc'[l] = proc[l]
  <2>1. closeRelay(q) /\ release(p)
    BY <1>1 DEF CloseReleases
  <2> QED BY <1>0, <1>2, <2>1, ReleaseIs
<1>4. \A x \in Anything : /\ (GoneP(x) => GoneP(x)') /\ (GoneR(x) => GoneR(x)')
                          /\ (NamedP(x) => NamedP(x)') /\ (NamedR(x) => NamedR(x)')
  BY <1>3, WaneIs
<1>5. DriverTypes' /\ SameDriver
  <2>1. \E failed \in MayFail : noteCleanup(failed)
    BY DEF CloseReleases
  <2> QED BY <1>0, <2>1, NoteIs
<1>6. /\ OtherTypes' /\ closer'.pc = "joining" /\ closer'.setup = closer.setup
      /\ closer'.current = closer.current
      /\ closer'.client = closer.client /\ closer'.relay = closer.relay
  <2>1. closer \in CloseRecord /\ closer' = [closer EXCEPT !.pc = "joining"]
    BY <1>0 DEF CloseReleases, DriverTypeOK, OtherTypes, CloseRecord
  <2> QED BY <1>0, <1>2, <2>1 DEF DriverTypeOK, OtherTypes, CloseRecord
<1>7. DriverTypeOK'
  BY <1>0, <1>2, <1>3, <1>5, <1>6 DEF DriverTypeOK, DriverTypes, ActorTypes, TurnTypes,
     LaunchTypes, OtherTypes
<1>8. SetupTrue'
  BY <1>0, <1>2, <1>3, <1>4, <1>5, <1>6 DEF SessionInv, SetupTrue, InSetup, Within, SameDriver
<1>9. TurnTrue'
  BY <1>0, <1>2, <1>3, <1>4, <1>5, <1>6 DEF SessionInv, TurnTrue, SetupTrue, Active, SameDriver
<1>10. RoundTrue'
  BY <1>0, <1>2, <1>3, <1>4, <1>5, <1>6 DEF SessionInv, RoundTrue, TurnTrue, SetupTrue, InRound,
     FieldTypes, SameDriver
<1>11. NamedTrue'
  BY <1>0, <1>2, <1>3, <1>4, <1>5, <1>6 DEF SessionInv, NamedTrue, NamedP, NamedR, FieldTypes,
     Before, Within, SameDriver, Waning
<1>12. TurnHand'
  BY <1>0, <1>2, <1>3, <1>4, <1>5, <1>6 DEF SessionInv, TurnHand, GoneP, GoneR, FieldTypes,
     SameDriver
<1>13. \A b \in Actors : SetupHand(b)'
  BY <1>0, <1>2, <1>3, <1>4, <1>5, <1>6 DEF SessionInv, SetupHand, GoneP, GoneR, FieldTypes,
     SameDriver
<1>14. WatchTrue'
  BY <1>0, <1>2, <1>3, <1>4, <1>5, <1>6 DEF SessionInv, WatchTrue, SameDriver, Waning
<1>15. CloseTrue'
  BY <1>0, <1>2, <1>3, <1>4, <1>5, <1>6 DEF SessionInv, CloseTrue, GoneP, GoneR, Settled,
     InSetup, Within, Unwatched, FieldTypes, SameDriver
<1>16. EvictTrue'
  BY <1>0, <1>2, <1>3, <1>4, <1>5, <1>6 DEF SessionInv, EvictTrue, Unwatched, SameDriver
<1>17. OwnedTrue'
  BY <1>0, <1>2, <1>3, <1>4, <1>5, <1>6 DEF SessionInv, OwnedTrue, OwnsP, OwnsR, GoneP, GoneR,
     FieldTypes, SameDriver, Waning
<1>18. ToolTrue'
  BY <1>0, <1>2, <1>3, <1>4, <1>5, <1>6 DEF SessionInv, ToolTrue, FieldTypes, SameDriver, Waning
<1> QED BY <1>7, <1>8, <1>9, <1>10, <1>11, <1>12, <1>13, <1>14, <1>15, <1>16, <1>17, <1>18 DEF
   SessionInv

LEMMA CloseEnds ==
    ASSUME SessionInv, CloseReturns
    PROVE  SessionInv'
<1> USE DEF Someone, Anything, Launches
<1>0. FieldTypes /\ DriverTypeOK /\ Callers \subseteq Actors /\ Nobody \notin Actors
  BY Fields, ActorsAssumption DEF SessionInv, Actors
<1>1. /\ UNCHANGED <<d, actor, turn, relay, call, proc, holds, watcher, evictor>>
      /\ closer.pc = "joining" /\ evictor.pc \in {"no", "done"} /\ Unwatched
  BY DEF CloseReturns
<1>2. \A a \in Actors : ~InSetup(a)
  BY <1>0, <1>1 DEF CloseReturns, SessionInv, SetupTrue
<1>3. /\ OtherTypes' /\ closer'.pc = "done" /\ closer'.setup = closer.setup
      /\ closer'.current = closer.current
      /\ closer'.client = closer.client /\ closer'.relay = closer.relay
  <2>1. closer \in CloseRecord /\ closer' = [closer EXCEPT !.pc = "done"]
    BY <1>0 DEF CloseReturns, DriverTypeOK, OtherTypes, CloseRecord
  <2> QED BY <1>0, <1>1, <2>1 DEF DriverTypeOK, OtherTypes, CloseRecord
<1>4. DriverTypeOK'
  BY <1>0, <1>1, <1>3 DEF DriverTypeOK, DriverTypes, ActorTypes, TurnTypes, LaunchTypes, OtherTypes
<1>5. SetupTrue'
  BY <1>0, <1>1, <1>2, <1>3 DEF SessionInv, SetupTrue, InSetup, Within
<1>6. TurnTrue'
  BY <1>0, <1>1, <1>2, <1>3 DEF SessionInv, TurnTrue, SetupTrue, Active
<1>7. RoundTrue'
  BY <1>0, <1>1, <1>2, <1>3 DEF SessionInv, RoundTrue, TurnTrue, SetupTrue, InRound, FieldTypes
<1>8. NamedTrue'
  BY <1>0, <1>1, <1>2, <1>3 DEF SessionInv, NamedTrue, NamedP, NamedR, FieldTypes, Before, Within
<1>9. TurnHand'
  BY <1>0, <1>1, <1>2, <1>3 DEF SessionInv, TurnHand, GoneP, GoneR, FieldTypes
<1>10. \A b \in Actors : SetupHand(b)'
  BY <1>0, <1>1, <1>2, <1>3 DEF SessionInv, SetupHand, GoneP, GoneR, FieldTypes
<1>11. WatchTrue'
  BY <1>0, <1>1, <1>2, <1>3 DEF SessionInv, WatchTrue
<1>12. CloseTrue'
  BY <1>0, <1>1, <1>2, <1>3 DEF SessionInv, CloseTrue, GoneP, GoneR, Settled, InSetup, Within,
     Unwatched, FieldTypes
<1>13. EvictTrue'
  BY <1>0, <1>1, <1>2, <1>3 DEF SessionInv, EvictTrue, Unwatched
<1>14. OwnedTrue'
  BY <1>0, <1>1, <1>2, <1>3 DEF SessionInv, OwnedTrue, OwnsP, OwnsR, GoneP, GoneR, FieldTypes
<1>15. ToolTrue'
  BY <1>0, <1>1, <1>2, <1>3 DEF SessionInv, ToolTrue, FieldTypes
<1> QED BY <1>4, <1>5, <1>6, <1>7, <1>8, <1>9, <1>10, <1>11, <1>12, <1>13, <1>14, <1>15 DEF
   SessionInv

LEMMA EvictStarts ==
    ASSUME SessionInv, EvictBegins
    PROVE  SessionInv'
<1> USE DEF Someone, Anything, Launches
<1>0. FieldTypes /\ DriverTypeOK /\ Callers \subseteq Actors /\ Nobody \notin Actors
  BY Fields, ActorsAssumption DEF SessionInv, Actors
<1>1. /\ evictor' = [pc |-> "closing", client |-> d.client, relay |-> d.relay]
      /\ d' = [d EXCEPT !.closed = TRUE, !.state = "closed", !.client = Nobody, !.relay = Nobody]
  BY DEF EvictBegins
<1>2. /\ UNCHANGED <<actor, turn, relay, call, proc, holds, watcher, closer>> /\ evictor.pc = "no"
      /\ ~d.closed /\ d.state \in {"idle", "unstarted"}
  BY DEF EvictBegins
<1>3. /\ d.current = Nobody /\ closer.pc = "no" /\ \A b \in Actors : ~InSetup(b)
      /\ closer.client = Nobody /\ closer.relay = Nobody
  BY <1>2, RestIs DEF SessionInv, CloseTrue
<1>4. /\ DriverTypes' /\ d'.state = "closed" /\ d'.closed = TRUE /\ d'.client = Nobody
      /\ d'.relay = Nobody /\ d'.current = d.current /\ d'.setup = d.setup
  BY <1>0, <1>1, DriverIs DEF DriverTypes, States
<1>5. /\ OtherTypes' /\ evictor'.pc = "closing" /\ evictor'.client = d.client
      /\ evictor'.relay = d.relay
  BY <1>0, <1>1, <1>2 DEF DriverTypeOK, OtherTypes, FieldTypes
<1>6. DriverTypeOK'
  BY <1>0, <1>2, <1>4, <1>5 DEF DriverTypeOK, DriverTypes, ActorTypes, TurnTypes, LaunchTypes,
     OtherTypes
<1>7. SetupTrue'
  BY <1>0, <1>2, <1>3, <1>4, <1>5 DEF SessionInv, SetupTrue, InSetup, Within
<1>8. TurnTrue'
  BY <1>0, <1>2, <1>3, <1>4, <1>5 DEF SessionInv, TurnTrue, SetupTrue, Active
<1>9. RoundTrue'
  BY <1>0, <1>2, <1>3, <1>4, <1>5 DEF SessionInv, RoundTrue, TurnTrue, SetupTrue, InRound,
     FieldTypes
<1>10. NamedTrue'
  BY <1>0, <1>2, <1>3, <1>4, <1>5 DEF SessionInv, NamedTrue, NamedP, NamedR, FieldTypes, Before,
     Within
<1>11. TurnHand'
  BY <1>0, <1>2, <1>3, <1>4, <1>5 DEF SessionInv, TurnHand, GoneP, GoneR, FieldTypes
<1>12. \A b \in Actors : SetupHand(b)'
  BY <1>0, <1>2, <1>3, <1>4, <1>5 DEF SessionInv, SetupHand, GoneP, GoneR, FieldTypes, InSetup,
     Within
<1>13. WatchTrue'
  BY <1>0, <1>2, <1>3, <1>4, <1>5 DEF SessionInv, WatchTrue
<1>14. CloseTrue'
  BY <1>0, <1>2, <1>3, <1>4, <1>5 DEF SessionInv, CloseTrue, GoneP, GoneR, Settled, InSetup,
     Within, Unwatched, FieldTypes
<1>15. EvictTrue'
  BY <1>0, <1>2, <1>3, <1>4, <1>5 DEF SessionInv, EvictTrue, Unwatched
<1>16. OwnedTrue'
  BY <1>0, <1>2, <1>3, <1>4, <1>5 DEF SessionInv, OwnedTrue, OwnsP, OwnsR, GoneP, GoneR,
     FieldTypes
<1>17. ToolTrue'
  BY <1>0, <1>2, <1>3, <1>4, <1>5 DEF SessionInv, ToolTrue, FieldTypes
<1> QED BY <1>6, <1>7, <1>8, <1>9, <1>10, <1>11, <1>12, <1>13, <1>14, <1>15, <1>16, <1>17 DEF
   SessionInv

LEMMA EvictGoesOn ==
    ASSUME SessionInv, EvictReleases
    PROVE  SessionInv'
<1> USE DEF Someone, Anything, Launches
<1>0. FieldTypes /\ DriverTypeOK /\ Callers \subseteq Actors /\ Nobody \notin Actors
  BY Fields, ActorsAssumption DEF SessionInv, Actors
<1>1. PICK q \in Anything, p \in Anything : q = evictor.relay /\ p = evictor.client
  BY <1>0 DEF FieldTypes
<1>2. /\ UNCHANGED <<actor, turn, call, holds, watcher, closer>> /\ evictor.pc = "closing"
      /\ evictor.relay = q /\ evictor.client = p /\ NamedR(q) /\ NamedP(p)
  BY <1>1 DEF EvictReleases, SessionInv, NamedTrue
<1>3. /\ LaunchTypes' /\ Waning /\ GoneR(q)' /\ GoneP(p)'
      /\ \A l \in Launches \ {q} : relay'[l] = relay[l]
      /\ \A l \in Launches \ {p} : proc'[l] = proc[l]
  <2>1. closeRelay(q) /\ release(p)
    BY <1>1 DEF EvictReleases
  <2> QED BY <1>0, <1>2, <2>1, ReleaseIs
<1>4. \A x \in Anything : /\ (GoneP(x) => GoneP(x)') /\ (GoneR(x) => GoneR(x)')
                          /\ (NamedP(x) => NamedP(x)') /\ (NamedR(x) => NamedR(x)')
  BY <1>3, WaneIs
<1>5. DriverTypes' /\ SameDriver
  <2>1. \E failed \in MayFail : noteCleanup(failed)
    BY DEF EvictReleases
  <2> QED BY <1>0, <2>1, NoteIs
<1>6. /\ OtherTypes' /\ evictor'.pc = "joining" /\ evictor'.client = evictor.client
      /\ evictor'.relay = evictor.relay
  <2>1. evictor \in EvictRecord /\ evictor' = [evictor EXCEPT !.pc = "joining"]
    BY <1>0 DEF EvictReleases, DriverTypeOK, OtherTypes, EvictRecord
  <2> QED BY <1>0, <1>2, <2>1 DEF DriverTypeOK, OtherTypes, EvictRecord
<1>7. DriverTypeOK'
  BY <1>0, <1>2, <1>3, <1>5, <1>6 DEF DriverTypeOK, DriverTypes, ActorTypes, TurnTypes,
     LaunchTypes, OtherTypes
<1>8. SetupTrue'
  BY <1>0, <1>2, <1>3, <1>4, <1>5, <1>6 DEF SessionInv, SetupTrue, InSetup, Within, SameDriver
<1>9. TurnTrue'
  BY <1>0, <1>2, <1>3, <1>4, <1>5, <1>6 DEF SessionInv, TurnTrue, SetupTrue, Active, SameDriver
<1>10. RoundTrue'
  BY <1>0, <1>2, <1>3, <1>4, <1>5, <1>6 DEF SessionInv, RoundTrue, TurnTrue, SetupTrue, InRound,
     FieldTypes, SameDriver
<1>11. NamedTrue'
  BY <1>0, <1>2, <1>3, <1>4, <1>5, <1>6 DEF SessionInv, NamedTrue, NamedP, NamedR, FieldTypes,
     Before, Within, SameDriver, Waning
<1>12. TurnHand'
  BY <1>0, <1>2, <1>3, <1>4, <1>5, <1>6 DEF SessionInv, TurnHand, GoneP, GoneR, FieldTypes,
     SameDriver
<1>13. \A b \in Actors : SetupHand(b)'
  BY <1>0, <1>2, <1>3, <1>4, <1>5, <1>6 DEF SessionInv, SetupHand, GoneP, GoneR, FieldTypes,
     SameDriver
<1>14. WatchTrue'
  BY <1>0, <1>2, <1>3, <1>4, <1>5, <1>6 DEF SessionInv, WatchTrue, SameDriver, Waning
<1>15. CloseTrue'
  BY <1>0, <1>2, <1>3, <1>4, <1>5, <1>6 DEF SessionInv, CloseTrue, GoneP, GoneR, Settled,
     InSetup, Within, Unwatched, FieldTypes, SameDriver
<1>16. EvictTrue'
  BY <1>0, <1>2, <1>3, <1>4, <1>5, <1>6 DEF SessionInv, EvictTrue, Unwatched, SameDriver
<1>17. OwnedTrue'
  BY <1>0, <1>2, <1>3, <1>4, <1>5, <1>6 DEF SessionInv, OwnedTrue, OwnsP, OwnsR, GoneP, GoneR,
     FieldTypes, SameDriver, Waning
<1>18. ToolTrue'
  BY <1>0, <1>2, <1>3, <1>4, <1>5, <1>6 DEF SessionInv, ToolTrue, FieldTypes, SameDriver, Waning
<1> QED BY <1>7, <1>8, <1>9, <1>10, <1>11, <1>12, <1>13, <1>14, <1>15, <1>16, <1>17, <1>18 DEF
   SessionInv

LEMMA EvictEnds ==
    ASSUME SessionInv, EvictReturns
    PROVE  SessionInv'
<1> USE DEF Someone, Anything, Launches
<1>0. FieldTypes /\ DriverTypeOK /\ Callers \subseteq Actors /\ Nobody \notin Actors
  BY Fields, ActorsAssumption DEF SessionInv, Actors
<1>1. /\ UNCHANGED <<d, actor, turn, relay, call, proc, holds, watcher, closer>>
      /\ evictor.pc = "joining" /\ Unwatched
  BY DEF EvictReturns
<1>2. /\ OtherTypes' /\ evictor'.pc = "done" /\ evictor'.client = evictor.client
      /\ evictor'.relay = evictor.relay
  <2>1. evictor \in EvictRecord /\ evictor' = [evictor EXCEPT !.pc = "done"]
    BY <1>0 DEF EvictReturns, DriverTypeOK, OtherTypes, EvictRecord
  <2> QED BY <1>0, <1>1, <2>1 DEF DriverTypeOK, OtherTypes, EvictRecord
<1>3. DriverTypeOK'
  BY <1>0, <1>1, <1>2 DEF DriverTypeOK, DriverTypes, ActorTypes, TurnTypes, LaunchTypes, OtherTypes
<1>4. SetupTrue'
  BY <1>0, <1>1, <1>2 DEF SessionInv, SetupTrue, InSetup, Within
<1>5. TurnTrue'
  BY <1>0, <1>1, <1>2 DEF SessionInv, TurnTrue, SetupTrue, Active
<1>6. RoundTrue'
  BY <1>0, <1>1, <1>2 DEF SessionInv, RoundTrue, TurnTrue, SetupTrue, InRound, FieldTypes
<1>7. NamedTrue'
  BY <1>0, <1>1, <1>2 DEF SessionInv, NamedTrue, NamedP, NamedR, FieldTypes, Before, Within
<1>8. TurnHand'
  BY <1>0, <1>1, <1>2 DEF SessionInv, TurnHand, GoneP, GoneR, FieldTypes
<1>9. \A b \in Actors : SetupHand(b)'
  BY <1>0, <1>1, <1>2 DEF SessionInv, SetupHand, GoneP, GoneR, FieldTypes
<1>10. WatchTrue'
  BY <1>0, <1>1, <1>2 DEF SessionInv, WatchTrue
<1>11. CloseTrue'
  BY <1>0, <1>1, <1>2 DEF SessionInv, CloseTrue, GoneP, GoneR, Settled, InSetup, Within,
     Unwatched, FieldTypes
<1>12. EvictTrue'
  BY <1>0, <1>1, <1>2 DEF SessionInv, EvictTrue, Unwatched
<1>13. OwnedTrue'
  BY <1>0, <1>1, <1>2 DEF SessionInv, OwnedTrue, OwnsP, OwnsR, GoneP, GoneR, FieldTypes
<1>14. ToolTrue'
  BY <1>0, <1>1, <1>2 DEF SessionInv, ToolTrue, FieldTypes
<1> QED BY <1>3, <1>4, <1>5, <1>6, <1>7, <1>8, <1>9, <1>10, <1>11, <1>12, <1>13, <1>14 DEF
   SessionInv

----------------------------------------------------------------------------
(* The invariant holds.                                                    *)

LEMMA SessionInit == Init => SessionInv
<1> SUFFICES ASSUME Init PROVE SessionInv
  OBVIOUS
<1> USE DEF Init
<1>1. DriverTypes /\ LaunchTypes /\ OtherTypes
  BY DEF DriverTypes, LaunchTypes, OtherTypes, States, Someone, Anything
<1>2. ActorTypes
  <2>1. Locals \in Record
    BY DEF Locals, Record, Places, Before, Someone, Anything
  <2> QED BY <2>1 DEF ActorTypes, Record
<1>3. TurnTypes
  BY DEF TurnTypes, Someone, Anything
<1>4. SetupTrue /\ TurnTrue
  BY ActorsAssumption DEF SetupTrue, InSetup, Within, Locals, TurnTrue, Active
<1>5. RoundTrue /\ TurnHand
  BY ActorsAssumption DEF RoundTrue, InRound, Locals, TurnHand, GoneP, GoneR, Actors
<1>6. NamedTrue
  BY DEF NamedTrue, NamedP, NamedR, Locals, Launches
<1>7. \A a \in Actors : SetupHand(a)
  BY DEF SetupHand, Locals
<1>8. WatchTrue /\ CloseTrue /\ EvictTrue
  BY DEF WatchTrue, CloseTrue, EvictTrue
<1>9. OwnedTrue /\ ToolTrue
  BY DEF OwnedTrue, ToolTrue
<1> QED BY <1>1, <1>2, <1>3, <1>4, <1>5, <1>6, <1>7, <1>8, <1>9 DEF SessionInv, DriverTypeOK

LEMMA CallerSteps ==
    ASSUME SessionInv, NEW c \in Callers,
           \/ StartEnters(c) \/ StartBusy(c) \/ StartGivesUp(c) \/ StartStep(c)
           \/ HandlerStep(c) \/ TurnStep(c) \/ PromptStep(c)
    PROVE  SessionInv'
<1>1. CASE StartEnters(c) \/ StartBusy(c) \/ StartGivesUp(c)
  BY <1>1, StartQuiet
<1>2. CASE StartStep(c)
  BY <1>2, StartQuiet, AbortQuiet, Resumes, Begins DEF StartStep
<1>3. CASE HandlerStep(c)
  BY <1>3, StartQuiet, AbortQuiet, Seals, EndsResponse, FinishesFinal, FinishesTools
     DEF HandlerStep
<1>4. CASE TurnStep(c)
  BY <1>4, ClosesRelay, ClosesClient, AbortDone, CompleteDone DEF TurnStep
<1>5. CASE PromptStep(c)
  BY <1>5, FaultQuiet, Calls, Returns DEF PromptStep
<1> QED BY <1>1, <1>2, <1>3, <1>4, <1>5

LEMMA PrepareSteps ==
    ASSUME SessionInv, NEW a \in Actors, PrepareStep(a)
    PROVE  SessionInv'
<1>1. CASE PrepareWakes(a)
  BY <1>1, Wakes, WakesNot
<1>2. CASE PrepareRefused(a) \/ DiscardEnds(a)
  BY <1>2, ReturnQuiet
<1>3. CASE \/ PrepareReuses(a) \/ PrepareReplaces(a) \/ PrepareRetiresOld(a) \/ PrepareFails(a)
           \/ PrepareListens(a) \/ PrepareAcquires(a) \/ PreparePublishes(a) \/ StartFails(a)
  BY <1>3, Reuses, Replaces, RetiresOld, Fails, Listens, Acquires, Publishes
<1>4. CASE DiscardTakes(a) \/ DiscardCloses(a) \/ DiscardResets(a)
  BY <1>4, TakesRelay, DiscardsAll, Resets
<1> QED BY <1>1, <1>2, <1>3, <1>4 DEF PrepareStep

LEMMA SessionNext == SessionInv /\ [Next]_vars => SessionInv'
<1> SUFFICES ASSUME SessionInv, [Next]_vars PROVE SessionInv'
  OBVIOUS
<1>1. ASSUME NEW c \in Callers,
             \/ StartEnters(c) \/ StartBusy(c) \/ StartGivesUp(c) \/ StartStep(c)
             \/ HandlerStep(c) \/ TurnStep(c) \/ PromptStep(c)
      PROVE  SessionInv'
  BY <1>1, CallerSteps
<1>2. ASSUME NEW r \in Refreshers, ModelsEnters(r) \/ ModelsEnds(r) PROVE SessionInv'
  <2>1. r \in Actors
    BY DEF Actors
  <2> QED BY <1>2, <2>1, ReturnQuiet, ModelsEnd
<1>3. ASSUME NEW a \in Actors, PrepareStep(a) PROVE SessionInv'
  BY <1>3, PrepareSteps
<1>4. ASSUME NEW l \in Launches, WatcherStep(l) \/ RelayFails(l) \/ ProcessDies(l)
      PROVE  SessionInv'
  BY <1>4, WatchSteps, LossQuiet
<1>5. CASE CloseBegins \/ EvictBegins \/ CloseStep
  BY <1>5, CloseStarts, CloseGoesOn, CloseEnds, EvictStarts, EvictGoesOn, EvictEnds DEF CloseStep
<1>6. CASE UNCHANGED vars
  <2>1. UNCHANGED <<d, actor, turn, relay, call, proc, holds, watcher, closer, evictor>>
    BY <1>6 DEF vars
  <2>2. DriverTypeOK'
    BY <2>1 DEF SessionInv, DriverTypeOK, DriverTypes, ActorTypes, TurnTypes, LaunchTypes, OtherTypes
  <2>3. SetupTrue' /\ TurnTrue' /\ RoundTrue'
    BY <2>1 DEF SessionInv, SetupTrue, InSetup, TurnTrue, Active, RoundTrue, InRound
  <2>4. NamedTrue' /\ TurnHand' /\ \A a \in Actors : SetupHand(a)'
    BY <2>1 DEF SessionInv, NamedTrue, NamedP, NamedR, TurnHand, SetupHand, GoneP, GoneR
  <2>5. WatchTrue' /\ CloseTrue' /\ EvictTrue' /\ ToolTrue'
    BY <2>1 DEF SessionInv, WatchTrue, CloseTrue, Settled, Unwatched, InSetup, GoneP, GoneR,
         EvictTrue, ToolTrue
  <2>6. OwnedTrue'
    BY <2>1 DEF SessionInv, OwnedTrue, OwnsP, OwnsR
  <2> QED BY <2>2, <2>3, <2>4, <2>5, <2>6 DEF SessionInv
<1> QED BY <1>1, <1>2, <1>3, <1>4, <1>5, <1>6 DEF Next

LEMMA SessionAlways == Spec => []SessionInv
BY SessionInit, SessionNext, PTL DEF Spec

----------------------------------------------------------------------------
(* Theorems.                                                               *)

\* The driver serves one turn: at most one session/prompt runs, and while the driver is open its
\* current turn agrees with its state, however starts, retirements and late Finishes interleave.
THEOREM OneTurnHolds == Spec => []OneTurn
<1>1. SessionInv => OneTurn
  <2> SUFFICES ASSUME SessionInv PROVE OneTurn
    OBVIOUS
  <2> DEFINE running == {t \in Callers : turn[t].prompt = "running"}
  <2>1. running \subseteq {d.current}
    BY DEF SessionInv, TurnTrue
  <2>2. IsFiniteSet({d.current}) /\ Cardinality({d.current}) = 1
    BY FS_Singleton
  <2> HIDE DEF running
  <2>3. Cardinality(running) <= 1
    BY <2>1, <2>2, FS_Subset
  <2>4. ~d.closed => /\ d.current # Nobody <=> d.state \in {"prompting", "waiting"}
                     /\ d.state = "waiting" => turn[d.current].ids # 0
    BY DEF SessionInv, TurnTrue, RoundTrue
  <2> QED BY <2>3, <2>4 DEF OneTurn, running
<1> QED BY <1>1, SessionAlways, PTL

\* No process and no relay is ever without an owner that will retire it, however Start, the
\* watches, Close and CloseIdle interleave, and whatever fails.
THEOREM OwnedHolds == Spec => []Owned
<1>1. SessionInv => Owned
  <2> SUFFICES ASSUME SessionInv, NEW l \in Launches
               PROVE  /\ proc[l] = "up" => l \in OwnedProcs
                      /\ relay[l] \in {"open", "failed"} => l \in OwnedRelays
    BY DEF Owned
  <2>1. OwnsP(l) => l \in OwnedProcs
    BY DEF OwnsP, OwnedProcs, Preparing, Setting, Aborting
  <2>2. OwnsR(l) => l \in OwnedRelays
    BY DEF OwnsR, OwnedRelays, Preparing, Aborting
  <2> QED BY <2>1, <2>2 DEF SessionInv, OwnedTrue
<1> QED BY <1>1, SessionAlways, PTL

\* When Close or CloseIdle has returned, no process, relay, prompt or watch is left, also when a
\* setup was under way.
THEOREM CloseJoinsHolds == Spec => []CloseJoins
<1>1. SessionInv => CloseJoins
  <2> SUFFICES ASSUME SessionInv, closer.pc = "done" \/ evictor.pc = "done"
               PROVE  /\ \A l \in Launches : proc[l] # "up" /\ relay[l] \notin {"open", "failed"}
                      /\ \A t \in Callers : turn[t].prompt # "running"
                      /\ Unwatched
    BY DEF CloseJoins
  <2> USE DEF Launches, Anything, Someone
  <2>1. FieldTypes /\ Nobody \notin Actors /\ Callers \subseteq Actors
    BY Fields, ActorsAssumption DEF SessionInv, Actors
  <2>2. d.closed /\ \A a \in Actors : ~InSetup(a)
    BY DEF SessionInv, SetupTrue
  <2>3. d.current = Nobody
    BY <2>1 DEF SessionInv, CloseTrue, EvictTrue, TurnTrue, Active, Settled, FieldTypes
  <2>4. \A t \in Callers : ~Active(t) /\ turn[t].prompt # "running"
    BY <2>1, <2>3 DEF SessionInv, TurnTrue
  <2>5. Unwatched
    BY DEF SessionInv, CloseTrue, EvictTrue
  <2>6. /\ GoneP(d.client) /\ GoneR(d.relay)
        /\ closer.pc = "aborting" => closer.client = Nobody /\ closer.relay = Nobody
        /\ evictor.pc # "closing"
    BY <2>2 DEF SessionInv, CloseTrue, EvictTrue, GoneP, GoneR
  <2>7. ASSUME NEW l \in Launches PROVE proc[l] # "up" /\ relay[l] \notin {"open", "failed"}
    <3>1. OwnsP(l) => proc[l] # "up"
      BY <2>1, <2>2, <2>4, <2>6 DEF OwnsP, InSetup, Within, Active, GoneP
    <3>2. OwnsR(l) => relay[l] = "closed"
      BY <2>1, <2>2, <2>4, <2>5, <2>6 DEF OwnsR, InSetup, Within, Active, GoneR, Unwatched
    <3> QED BY <3>1, <3>2 DEF SessionInv, OwnedTrue
  <2> QED BY <2>4, <2>5, <2>7
<1> QED BY <1>1, SessionAlways, PTL

\* A call is answered by resume only.
LEMMA OnlyResumes ==
    ASSUME DriverTypeOK, Next, NEW l \in Launches, call[l] # "none", call'[l] = "none"
    PROVE  \E c \in Callers : StartResumes(c) /\ l = turn[d.current].relay
<1>0. call \in [Launches -> {"none", "queued", "sealed", "delivered"}]
  BY DEF DriverTypeOK, LaunchTypes
<1>1. call' # call
  OBVIOUS
<1>2. ASSUME NEW c \in Callers,
             \/ StartEnters(c) \/ StartBusy(c) \/ StartGivesUp(c) \/ TurnStep(c)
      PROVE  FALSE
  BY <1>1, <1>2 DEF StartEnters, StartBusy, StartGivesUp, TurnStep, AbortClosesRelay,
     AbortClosesClient, AbortSettles, CompleteSettles
<1>3. ASSUME NEW c \in Callers, StartStep(c) PROVE StartResumes(c)
  BY <1>1, <1>3 DEF StartStep, Leaves, StartReadsDelivery, StartAwaited, StartChecksBusy,
     StartOrdinary, StartToldOutcome, StartFindsExpired, StartAbandons, StartDenies, StartRetired,
     StartPlans, StartBegins
<1>4. ASSUME NEW c \in Callers, HandlerStep(c) PROVE FALSE
  <2>1. CASE NextSeals(c)
    BY <1>0, <2>1 DEF NextSeals
  <2>2. CASE FinishHandsOff(c)
    BY <1>0, <2>2 DEF FinishHandsOff
  <2> QED BY <1>1, <1>4, <2>1, <2>2 DEF HandlerStep, NextEnds, RoundCancels, FinishCompletes,
       FinishTooLate, RoundOver
<1>5. ASSUME NEW c \in Callers, PromptStep(c) PROVE FALSE
  <2>1. CASE ToolCall(c)
    BY <1>0, <2>1 DEF ToolCall
  <2> QED BY <1>1, <1>5, <2>1 DEF PromptStep, PromptReturns, PromptFails, PromptAborts, Expires,
       WatchAborts
<1>6. ASSUME NEW r \in Refreshers, ModelsEnters(r) \/ ModelsEnds(r) PROVE FALSE
  BY <1>1, <1>6 DEF ModelsEnters, ModelsEnds
<1>7. ASSUME NEW a \in Actors, PrepareStep(a) PROVE FALSE
  BY <1>1, <1>7 DEF PrepareStep, PrepareRefused, PrepareReuses, PrepareWakes, PrepareReplaces,
     PrepareRetiresOld, PrepareFails, PrepareListens, PrepareAcquires, PreparePublishes,
     StartFails, DiscardTakes, DiscardCloses, DiscardResets, DiscardEnds
<1>8. ASSUME NEW k \in Launches, WatcherStep(k) \/ RelayFails(k) \/ ProcessDies(k) PROVE FALSE
  BY <1>1, <1>8 DEF WatcherStep, WatcherWakes, WatcherClears, WatcherCloses, RelayFails,
     ProcessDies
<1>9. ~(CloseBegins \/ EvictBegins \/ CloseStep)
  BY <1>1 DEF CloseBegins, EvictBegins, CloseStep, CloseReleases, CloseReturns, EvictReleases,
     EvictReturns
<1>10. PICK c \in Callers : StartResumes(c)
  BY <1>2, <1>3, <1>4, <1>5, <1>6, <1>7, <1>8, <1>9 DEF Next
<1>11. l = turn[d.current].relay
  BY <1>0, <1>10 DEF StartResumes
<1> QED BY <1>10, <1>11

\* Results reach a suspended call only after the response that carried its batch was confirmed
\* delivered.
THEOREM ResolvedHolds == Spec => ResolvedAfterDelivery
<1> DEFINE P == \A l \in Launches :
                   call[l] # "none" /\ call'[l] = "none" =>
                      /\ call[l] = "delivered"
                      /\ \A t \in Callers : turn[t].relay = l => turn[t].delivery # "open"
<1>1. SessionInv /\ [Next]_vars => [P]_vars
  <2> SUFFICES ASSUME SessionInv, Next, NEW l \in Launches, call[l] # "none", call'[l] = "none"
               PROVE  /\ call[l] = "delivered"
                      /\ \A t \in Callers : turn[t].relay = l => turn[t].delivery # "open"
    OBVIOUS
  <2>1. PICK c \in Callers : StartResumes(c) /\ l = turn[d.current].relay
    BY OnlyResumes DEF SessionInv
  <2>2. call[l] = "delivered" /\ relay[l] = "open" /\ d.state = "waiting"
    BY <2>1 DEF StartResumes, Resumable, Takes
  <2>3. ~d.closed
    BY <2>2 DEF SessionInv, SetupTrue
  <2> QED BY <2>2, <2>3 DEF SessionInv, ToolTrue
<1> QED BY <1>1, SessionAlways, PTL DEF Spec, ResolvedAfterDelivery

----------------------------------------------------------------------------
(* What the backend session knows, when nobody calls Models.               *)

\* From the gate to its end Start holds startGate.
Gated == (Before \cup Within \cup {"discarded"}) \ {"outside"}
GateTrue == \A c \in Callers : actor[c].pc \in Gated => gate = c

\* Once Start has seen that the driver is not generating nobody else makes it generate.
CalmOf(c) ==
    ~d.closed =>
        /\ actor[c].pc \in {"routing", "retiring"} => d.state \in {"idle", "unstarted", "waiting"}
        /\ actor[c].pc = "retiring" /\ d.state = "waiting" => d.current = actor[c].turn
        /\ actor[c].pc \in {"planning", "preparing"} => d.state \in {"idle", "unstarted"}

\* The plan of a request is about the history that the driver has.
PlanOf(c) ==
    actor[c].pc = "preparing" /\ actor[c].reuse =>
        /\ actor[c].base # Nobody
        /\ d.closed \/ d.client = Nobody \/ d.snapshot = actor[c].base

\* The driver's backend session holds what its current turn asked, or the committed history.
HistoryTrue ==
    /\ d.current # Nobody => d.client # Nobody /\ holds[d.client] = d.current
    /\ d.current = Nobody /\ d.snapshot # Nobody /\ d.client # Nobody =>
          holds[d.client] = d.snapshot \/ \E a \in Actors : InSetup(a)

\* A launch is empty before its turn, and a reused one holds what the request extends.
BaseOf(a) ==
    /\ actor[a].pc \in Before \cup Within => holds[a] = Nobody
    /\ actor[a].pc \in Before \cup {"retiringOld", "listening", "acquiring"} => ~actor[a].reused
    /\ actor[a].pc \in {"reusing", "draining", "starting"} =>
          /\ actor[a].client # Nobody
          /\ actor[a].reused => holds[actor[a].client] = actor[a].base
          /\ ~actor[a].reused => actor[a].client = a

MatchInv ==
    /\ GateTrue /\ HistoryTrue /\ ~d.fresh
    /\ \A c \in Callers : CalmOf(c) /\ PlanOf(c) /\ BaseOf(c)

LEMMA ActorIs == ASSUME DriverTypeOK PROVE actor \in [Actors -> Record]
BY DEF DriverTypeOK, ActorTypes, Record

SameHistory ==
    /\ d'.state = d.state /\ d'.closed = d.closed /\ d'.client = d.client
    /\ d'.current = d.current /\ d'.snapshot = d.snapshot /\ d'.fresh = d.fresh

\* Whoever is not in Start, or returns from it, is not noticed.
LEMMA OffGate ==
    ASSUME MatchInv, Refreshers = {}, NEW c \in Callers, OnlyActor(c) \/ UNCHANGED actor,
           \/ UNCHANGED <<actor, gate>>
           \/ actor[c].pc \notin Gated /\ actor'[c].pc \notin Gated /\ UNCHANGED gate
           \/ /\ gate = c /\ actor[c].pc \in Gated \ Within /\ gate' = Nobody
              /\ actor'[c].pc \in After \ {"discarded"},
           actor' # actor => actor'[c].pc \in After \ {"discarded"},
           SameHistory, UNCHANGED holds
    PROVE  MatchInv'
<1>0. Actors = Callers /\ Nobody \notin Callers
  BY ActorsAssumption DEF Actors
<1>1. GateTrue'
  BY <1>0 DEF MatchInv, GateTrue, OnlyActor, Gated, After, Before, Within
<1>2. \A b \in Actors : InSetup(b) <=> InSetup(b)'
  BY <1>0 DEF InSetup, OnlyActor, Gated, After, Within
<1>3. HistoryTrue' /\ ~d'.fresh
  BY <1>2 DEF MatchInv, HistoryTrue, SameHistory
<1>4. ASSUME NEW b \in Callers PROVE (CalmOf(b) /\ PlanOf(b) /\ BaseOf(b))'
  <2>1. CASE actor'[b] = actor[b]
    BY <2>1 DEF MatchInv, CalmOf, PlanOf, BaseOf, SameHistory
  <2>2. CASE actor'[b] # actor[b]
    <3>1. actor'[b].pc \in After \ {"discarded"}
      BY <1>0, <2>2 DEF OnlyActor
    <3> QED BY <3>1 DEF CalmOf, PlanOf, BaseOf, After, Before, Within
  <2> QED BY <2>1, <2>2
<1> QED BY <1>1, <1>3, <1>4 DEF MatchInv

\* The one that is in Start moves.
LEMMA InGate ==
    ASSUME MatchInv, Refreshers = {}, NEW c \in Callers, OnlyActor(c),
           actor[c].pc \in Gated \/ gate = Nobody, gate' = c, UNCHANGED holds,
           ~d'.fresh, HistoryTrue', CalmOf(c)', PlanOf(c)', BaseOf(c)'
    PROVE  MatchInv'
<1>0. Actors = Callers /\ Nobody \notin Callers
  BY ActorsAssumption DEF Actors
<1>1. \A b \in Callers \ {c} : actor'[b] = actor[b] /\ actor[b].pc \notin Gated
  BY <1>0 DEF MatchInv, GateTrue, OnlyActor
<1>2. GateTrue'
  BY <1>1 DEF GateTrue
<1>3. \A b \in Callers \ {c} : (CalmOf(b) /\ PlanOf(b))'
  BY <1>1 DEF CalmOf, PlanOf, Gated, Before, Within
<1>4. ASSUME NEW b \in Callers \ {c} PROVE BaseOf(b)'
  <2>1. BaseOf(b)
    BY DEF MatchInv
  <2> QED BY <1>1, <2>1 DEF BaseOf, Gated, Before, Within
<1> QED BY <1>2, <1>3, <1>4 DEF MatchInv

\* The driver has lost its client, or is closed, while the actors rest.
LEMMA DriverMoves ==
    ASSUME MatchInv, UNCHANGED <<actor, gate, holds>>, ~d'.fresh, HistoryTrue',
           \/ d'.closed
           \/ /\ d'.closed = d.closed /\ d'.client = Nobody /\ d'.current = Nobody
              /\ d'.state \in {"idle", "unstarted"}
           \/ /\ d'.closed = d.closed /\ d'.state \in {"idle", "unstarted", "waiting"}
              /\ \A c \in Callers : actor[c].pc \notin {"planning", "preparing"}
              /\ d'.state = "waiting" => d'.current = d.current /\ d.state = "waiting"
    PROVE  MatchInv'
<1>1. GateTrue'
  BY DEF MatchInv, GateTrue
<1>2. ASSUME NEW c \in Callers PROVE (CalmOf(c) /\ PlanOf(c) /\ BaseOf(c))'
  BY DEF MatchInv, CalmOf, PlanOf, BaseOf
<1> QED BY <1>1, <1>2 DEF MatchInv

LEMMA MatchStill ==
    ASSUME MatchInv, UNCHANGED <<actor, gate, holds>>, SameHistory
    PROVE  MatchInv'
<1>1. \A b \in Actors : InSetup(b) <=> InSetup(b)'
  BY DEF InSetup
<1> QED BY <1>1 DEF MatchInv, GateTrue, HistoryTrue, CalmOf, PlanOf, BaseOf, SameHistory

\* Start has begun or resumed a turn.
LEMMA GateOpens ==
    ASSUME MatchInv, Refreshers = {}, NEW c \in Callers, OnlyActor(c), actor[c].pc \in Gated,
           actor'[c].pc \in After \ {"discarded"}, gate' = Nobody, ~d'.fresh, HistoryTrue',
           \A b \in Callers \ {c} : actor[b].pc = "outside" => holds'[b] = Nobody
    PROVE  MatchInv'
<1>0. Actors = Callers /\ Nobody \notin Callers
  BY ActorsAssumption DEF Actors
<1>1. \A b \in Callers \ {c} : actor'[b] = actor[b] /\ actor[b].pc \notin Gated
  BY <1>0 DEF MatchInv, GateTrue, OnlyActor
<1>2. \A b \in Callers : actor'[b].pc \notin Gated
  BY <1>1 DEF Gated, After, Before, Within
<1>3. \A b \in Callers : (CalmOf(b) /\ PlanOf(b))'
  BY <1>2 DEF CalmOf, PlanOf, Gated, Before, Within
<1>4. ASSUME NEW b \in Callers PROVE BaseOf(b)'
  <2>1. BaseOf(b)
    BY DEF MatchInv
  <2>2. actor'[b].pc \in Before \cup Within => b # c /\ actor[b].pc = "outside"
    BY <1>1, <1>2 DEF Gated, Before, Within, After
  <2> QED BY <1>1, <2>1, <2>2 DEF BaseOf, Before, Within
<1> QED BY <1>2, <1>3, <1>4 DEF MatchInv, GateTrue

LEMMA SetupMoves ==
    ASSUME SessionInv, MatchInv, Refreshers = {}, NEW c \in Callers, OnlyActor(c),
           actor[c].pc \in Within \cup {"preparing"}, actor'[c].pc \in Within,
           UNCHANGED <<gate, holds>>, ~d'.fresh, d'.current = Nobody,
           actor'[c].pc \in {"retiringOld", "listening", "acquiring"} => ~actor'[c].reused,
           actor'[c].pc \in {"reusing", "draining", "starting"} =>
              /\ actor'[c].client # Nobody
              /\ actor'[c].reused => holds[actor'[c].client] = actor'[c].base
              /\ ~actor'[c].reused => actor'[c].client = c
    PROVE  MatchInv'
<1>1. c \in Actors /\ actor[c].pc \in Gated /\ gate = c /\ holds[c] = Nobody
  BY DEF MatchInv, GateTrue, BaseOf, Gated, Before, Within, Actors
<1>2. HistoryTrue'
  BY <1>1 DEF HistoryTrue, InSetup
<1>3. CalmOf(c)' /\ PlanOf(c)'
  BY DEF CalmOf, PlanOf, Within
<1>4. BaseOf(c)'
  BY <1>1 DEF BaseOf, Before, Within
<1> QED BY <1>1, <1>2, <1>3, <1>4, InGate

LEMMA PlanIs ==
    ASSUME DriverTypeOK, NEW a \in Actors, NEW x \in Places, Goes(a, x)
    PROVE  /\ OnlyActor(a) /\ actor'[a].pc = x /\ SameLocals(a)
           /\ actor'[a].base = actor[a].base /\ actor'[a].reuse = actor[a].reuse
<1>1. ActorTypes' /\ OnlyActor(a) /\ actor'[a] = [actor[a] EXCEPT !.pc = x]
  BY GoesIs
<1>2. actor[a] \in Record
  BY ActorIs
<1> QED BY <1>1, <1>2 DEF Record, SameLocals

\* Steps of a turn, a watch or a close.
LEMMA MatchRests ==
    ASSUME SessionInv, MatchInv,
           \/ \E t \in Callers : AbortClosesRelay(t) \/ AbortClosesClient(t) \/ PromptStep(t)
           \/ \E l \in Launches : \/ WatcherWakes(l) \/ WatcherCloses(l) \/ RelayFails(l)
                                  \/ ProcessDies(l)
           \/ CloseStep
    PROVE  MatchInv'
<1>1. UNCHANGED <<actor, gate, holds>>
  BY DEF AbortClosesRelay, AbortClosesClient, PromptStep, ToolCall, PromptReturns, PromptFails,
     PromptAborts, Expires, WatchAborts, WatcherWakes, WatcherCloses, RelayFails, ProcessDies,
     CloseStep, CloseReleases, CloseReturns, EvictReleases, EvictReturns
<1>2. UNCHANGED d \/ \E failed \in MayFail : noteCleanup(failed)
  BY DEF AbortClosesRelay, AbortClosesClient, PromptStep, ToolCall, PromptReturns, PromptFails,
     PromptAborts, Expires, WatchAborts, WatcherWakes, WatcherCloses, RelayFails, ProcessDies,
     CloseStep, CloseReleases, CloseReturns, EvictReleases, EvictReturns
<1>3. SameHistory
  BY <1>2, DriverIs DEF SessionInv, noteCleanup, SameHistory
<1> QED BY <1>1, <1>3, MatchStill

LEMMA MatchSettles ==
    ASSUME SessionInv, MatchInv, NEW t \in Callers, AbortSettles(t) \/ CompleteSettles(t)
    PROVE  MatchInv'
<1>1. d.current = t /\ t # Nobody /\ UNCHANGED <<actor, gate, holds>> /\ DriverTypeOK
  BY ActorsAssumption DEF SessionInv, TurnTrue, Active, AbortSettles, CompleteSettles
<1>2. CASE AbortSettles(t)
  <2>1. /\ d'.closed = d.closed /\ d'.client = Nobody /\ d'.current = Nobody
        /\ d'.snapshot = Nobody /\ d'.fresh = d.fresh
        /\ ~d.closed => d'.state = "unstarted"
    BY <1>1, <1>2, DriverIs DEF AbortSettles
  <2>2. HistoryTrue' /\ ~d'.fresh
    BY <2>1 DEF HistoryTrue, MatchInv
  <2> QED BY <1>1, <2>1, <2>2, DriverMoves
<1>3. CASE CompleteSettles(t)
  <2>1. /\ d'.closed = d.closed /\ d'.client = d.client /\ d'.current = Nobody
        /\ d'.snapshot = t /\ d'.fresh = d.fresh
        /\ ~d.closed => d'.state = "idle"
    BY <1>1, <1>3, DriverIs DEF CompleteSettles
  <2>2. HistoryTrue' /\ ~d'.fresh
    BY <1>1, <2>1 DEF HistoryTrue, MatchInv
  <2>3. ~d.closed => \A c \in Callers : actor[c].pc \notin {"planning", "preparing"}
    BY <1>1 DEF MatchInv, CalmOf, SessionInv, TurnTrue
  <2> QED BY <1>1, <2>1, <2>2, <2>3, DriverMoves
<1> QED BY <1>2, <1>3

LEMMA MatchLoses ==
    ASSUME SessionInv, MatchInv,
           (\E l \in Launches : WatcherClears(l)) \/ CloseBegins \/ EvictBegins
    PROVE  MatchInv'
<1>0. UNCHANGED <<actor, gate, holds>> /\ DriverTypeOK
  BY DEF WatcherClears, CloseBegins, EvictBegins, SessionInv
<1>1. ASSUME NEW l \in Launches, WatcherClears(l) PROVE MatchInv'
  <2>1. CASE d.client = l /\ d.state = "idle"
    <3>1. /\ d'.closed = d.closed /\ d'.client = Nobody /\ d'.current = d.current
          /\ d'.snapshot = Nobody /\ d'.fresh = FALSE /\ d'.state = "unstarted"
      BY <1>0, <1>1, <2>1, DriverIs DEF WatcherClears
    <3>2. ~d.closed
      BY <2>1 DEF SessionInv, SetupTrue
    <3>3. d.current = Nobody
      BY <2>1, <3>2, RestIs
    <3>4. HistoryTrue'
      BY <3>1, <3>3 DEF HistoryTrue
    <3> QED BY <1>0, <3>1, <3>3, <3>4, DriverMoves
  <2>2. CASE ~(d.client = l /\ d.state = "idle")
    BY <1>0, <1>1, <2>2, MatchStill DEF WatcherClears, SameHistory
  <2> QED BY <2>1, <2>2
<1>2. CASE CloseBegins
  <2>1. /\ d'.closed /\ d'.client = d.client /\ d'.current = d.current
        /\ d'.snapshot = d.snapshot /\ d'.fresh = d.fresh
    BY <1>0, <1>2, DriverIs DEF CloseBegins
  <2>2. HistoryTrue' /\ ~d'.fresh
    BY <1>0, <2>1 DEF HistoryTrue, MatchInv, InSetup
  <2> QED BY <1>0, <2>1, <2>2, DriverMoves
<1>3. CASE EvictBegins
  <2>1. /\ d'.closed /\ d'.client = Nobody /\ d'.current = d.current /\ d'.fresh = d.fresh
    BY <1>0, <1>3, DriverIs DEF EvictBegins
  <2>2. d.current = Nobody
    BY <1>3, RestIs DEF EvictBegins
  <2>3. HistoryTrue' /\ ~d'.fresh
    BY <2>1, <2>2 DEF HistoryTrue, MatchInv
  <2> QED BY <1>0, <2>1, <2>3, DriverMoves
<1> QED BY <1>1, <1>2, <1>3

\* The end of a Start, and the steps of a round that leave the driver alone.
LEMMA MatchLeaves ==
    ASSUME SessionInv, MatchInv, Refreshers = {}, NEW c \in Callers, Ends(c),
           actor[c].pc \in (Gated \ Within) \cup {"outside", "settling"},
           IF actor[c].pc \in Gated THEN gate' = Nobody ELSE gate' = gate,
           d' = d \/ d' = [d EXCEPT !.outcome = Nobody], UNCHANGED holds
    PROVE  MatchInv'
<1>1. c \in Actors /\ DriverTypeOK
  BY DEF Actors, SessionInv
<1>2. OnlyActor(c) /\ actor'[c].pc = "over"
  BY <1>1, EndsIs
<1>3. SameHistory
  BY <1>1, DriverIs DEF SameHistory
<1>4. actor[c].pc \in Gated => gate = c
  BY DEF MatchInv, GateTrue
<1>5. "over" \in After \ {"discarded"} /\ "over" \notin Gated /\ "settling" \notin Gated
      /\ "outside" \notin Gated
  BY DEF After, Gated, Before, Within
<1> QED BY <1>2, <1>3, <1>4, <1>5, OffGate

LEMMA MatchReturns ==
    ASSUME SessionInv, MatchInv, Refreshers = {}, NEW c \in Callers,
           \/ StartBusy(c) \/ Leaves(c) \/ StartGivesUp(c) \/ StartToldOutcome(c)
           \/ StartFindsExpired(c) \/ RoundOver(c) \/ PrepareRefused(c) \/ DiscardEnds(c)
    PROVE  MatchInv'
<1>1. CASE StartBusy(c) \/ RoundOver(c)
  <2>1. /\ actor[c].pc \in {"outside", "settling"} /\ Ends(c) /\ UNCHANGED <<d, gate, holds>>
    BY <1>1 DEF StartBusy, RoundOver
  <2>2. actor[c].pc \notin Gated
    BY <2>1 DEF Gated, Before, Within
  <2> QED BY <2>1, <2>2, MatchLeaves
<1>2. CASE \/ Leaves(c) \/ StartGivesUp(c) \/ StartToldOutcome(c) \/ StartFindsExpired(c)
           \/ PrepareRefused(c) \/ DiscardEnds(c)
  <2>1. /\ actor[c].pc \in Gated \ Within /\ Ends(c) /\ UNCHANGED holds
        /\ d' = d \/ d' = [d EXCEPT !.outcome = Nobody]
        /\ gate' = Nobody \/ Ungate(c)
    BY <1>2 DEF Leaves, StartGivesUp, StartToldOutcome, StartFindsExpired, PrepareRefused,
       DiscardEnds, Return, Gated, Before, Within
  <2>2. gate = c
    BY <2>1 DEF MatchInv, GateTrue
  <2>3. gate' = Nobody
    BY <2>1, <2>2 DEF Ungate
  <2> QED BY <2>1, <2>3, MatchLeaves
<1> QED BY <1>1, <1>2

\* The rounds.
LEMMA MatchRounds ==
    ASSUME SessionInv, MatchInv, Refreshers = {}, NEW c \in Callers,
           \/ NextSeals(c) \/ NextEnds(c) \/ RoundCancels(c) \/ FinishCompletes(c)
           \/ FinishTooLate(c)
    PROVE  MatchInv'
<1>1. c \in Actors /\ DriverTypeOK
  BY DEF Actors, SessionInv
<1>2. UNCHANGED <<d, gate, holds>> /\ actor[c].pc \in {"round", "ended"}
  BY DEF NextSeals, NextEnds, RoundCancels, FinishCompletes, FinishTooLate
<1>3. OnlyActor(c) /\ actor'[c].pc \in {"round", "ended", "settling"}
  <2>1. CASE NextSeals(c)
    <3>1. actor' = [actor EXCEPT ![c].batch = turn[actor[c].turn].batches + 1]
      BY <2>1 DEF NextSeals
    <3>2. actor \in [Actors -> Record]
      BY <1>1, ActorIs
    <3> QED BY <1>1, <1>2, <3>1, <3>2 DEF OnlyActor, Record
  <2>2. CASE ~NextSeals(c)
    <3>1. Goes(c, "ended") \/ Goes(c, "settling")
      BY <2>2 DEF NextEnds, RoundCancels, FinishCompletes, FinishTooLate
    <3> QED BY <1>1, <3>1, PlanIs DEF Places, After
  <2> QED BY <2>1, <2>2
<1>4. \A x \in {"round", "ended", "settling"} : x \in After \ {"discarded"} /\ x \notin Gated
  BY DEF After, Gated, Before, Within
<1>5. SameHistory
  BY <1>2 DEF SameHistory
<1> QED BY <1>2, <1>3, <1>4, <1>5, OffGate

\* A Start goes on, with the driver as it is.
LEMMA MatchGoes ==
    ASSUME SessionInv, MatchInv, Refreshers = {}, NEW c \in Callers, OnlyActor(c),
           actor[c].pc \in Before, actor'[c].pc \in Before \ {"outside"},
           actor'[c].reused = actor[c].reused,
           actor[c].pc = "outside" => gate = Nobody, gate' = c, UNCHANGED holds, SameHistory,
           CalmOf(c)', PlanOf(c)'
    PROVE  MatchInv'
<1>0. Actors = Callers
  BY DEF Actors
<1>1. \A b \in Actors : InSetup(b) <=> InSetup(b)'
  BY <1>0 DEF InSetup, OnlyActor, Before, Within
<1>2. HistoryTrue' /\ ~d'.fresh
  BY <1>1 DEF MatchInv, HistoryTrue, SameHistory
<1>3. BaseOf(c)'
  BY DEF MatchInv, BaseOf, Before
<1>4. actor[c].pc \in Gated \/ gate = Nobody
  BY DEF Gated
<1> QED BY <1>2, <1>3, <1>4, InGate

LEMMA MatchStarts ==
    ASSUME SessionInv, MatchInv, Refreshers = {}, NEW c \in Callers,
           \/ StartEnters(c) \/ StartReadsDelivery(c) \/ StartAwaited(c)
           \/ StartChecksBusy(c) \/ StartOrdinary(c) \/ StartAbandons(c) \/ StartDenies(c)
           \/ StartRetired(c) \/ StartPlans(c)
    PROVE  MatchInv'
<1>1. c \in Actors /\ DriverTypeOK /\ actor \in [Actors -> Record]
  BY ActorIs DEF Actors, SessionInv
<1>2. actor[c].pc \in Gated => gate = c
  BY DEF MatchInv, GateTrue
<1>3. UNCHANGED holds
  BY DEF StartEnters, StartReadsDelivery, StartAwaited, StartChecksBusy, StartOrdinary,
     StartAbandons, StartDenies, StartRetired, StartPlans
<1>4. CASE StartEnters(c)
  <2>1. OnlyActor(c) /\ actor'[c].pc = "entered" /\ actor'[c].reused = actor[c].reused
    <3>1. CASE Goes(c, "entered")
      BY <1>1, <3>1, PlanIs DEF Places, Before, SameLocals
    <3>2. ASSUME NEW e \in Exposed, NEW kind \in {"results", "changed", "denial"},
                 actor' = [actor EXCEPT ![c].pc = "entered", ![c].kind = kind,
                                        ![c].about = e[1], ![c].number = e[2]]
          PROVE  OnlyActor(c) /\ actor'[c].pc = "entered" /\ actor'[c].reused = actor[c].reused
      BY <1>1, <3>2 DEF OnlyActor, Record
    <3> QED BY <1>4, <3>1, <3>2 DEF StartEnters
  <2>2. SameHistory /\ actor[c].pc = "outside" /\ gate = Nobody /\ gate' = c
    BY <1>4 DEF StartEnters, SameHistory
  <2>3. CalmOf(c)' /\ PlanOf(c)'
    BY <2>1 DEF CalmOf, PlanOf
  <2> QED BY <1>3, <2>1, <2>2, <2>3, MatchGoes DEF Before
<1>5. CASE StartReadsDelivery(c) \/ StartAwaited(c)
  <2>1. /\ OnlyActor(c) /\ actor'[c].pc \in {"awaiting", "checking"}
        /\ actor'[c].reused = actor[c].reused
    BY <1>1, <1>5 DEF StartReadsDelivery, StartAwaited, Goes, OnlyActor, Record
  <2>2. SameHistory /\ actor[c].pc \in {"entered", "awaiting"} /\ gate' = gate
    BY <1>5 DEF StartReadsDelivery, StartAwaited, SameHistory
  <2>3. CalmOf(c)' /\ PlanOf(c)'
    BY <2>1 DEF CalmOf, PlanOf
  <2>4. gate' = c
    BY <1>2, <2>2 DEF Gated, Before
  <2> QED BY <1>3, <2>1, <2>2, <2>3, <2>4, MatchGoes DEF Before
<1>6. CASE StartChecksBusy(c) \/ StartOrdinary(c) \/ StartRetired(c)
  <2>1. CASE Ends(c)
    <3>1. /\ actor[c].pc \in {"checking", "routing", "retiring"} /\ gate' = Nobody
          /\ d' = d \/ d' = [d EXCEPT !.outcome = Nobody]
      <4>1. ~Goes(c, "routing") /\ ~Goes(c, "planning")
        <5>1. actor'[c].pc = "over"
          BY <1>1, <2>1, EndsIs
        <5> QED BY <1>1, <5>1, PlanIs DEF Places, Before
      <4> QED BY <1>6, <4>1 DEF StartChecksBusy, StartOrdinary, StartRetired, Return
    <3>2. actor[c].pc \in Gated \ Within
      BY <3>1 DEF Gated, Before, Within
    <3> QED BY <1>3, <2>1, <3>1, <3>2, MatchLeaves
  <2>2. CASE ~Ends(c)
    <3>1. /\ actor[c].pc \in {"checking", "routing", "retiring"} /\ gate' = gate
          /\ \/ /\ Goes(c, "routing") /\ d.state \notin {"starting", "prompting"}
             \/ /\ Goes(c, "planning") /\ actor[c].pc = "routing" /\ d.state # "waiting"
             \/ /\ Goes(c, "planning") /\ actor[c].pc = "retiring" /\ Settled(actor[c].turn)
          /\ d' = d \/ d' = [d EXCEPT !.outcome = Nobody]
      BY <1>6, <2>2 DEF StartChecksBusy, StartOrdinary, StartRetired, Return
    <3>2. SameHistory
      BY <1>1, <3>1, DriverIs DEF SameHistory
    <3>3. /\ OnlyActor(c) /\ actor'[c].pc \in {"routing", "planning"}
          /\ actor'[c].reused = actor[c].reused
      BY <1>1, <3>1, PlanIs DEF Places, Before, SameLocals
    <3>4. gate' = c
      BY <1>2, <3>1 DEF Gated, Before
    <3>5. PlanOf(c)'
      BY <3>3 DEF PlanOf
    <3>6. CalmOf(c)'
      <4>1. CASE Goes(c, "routing")
        <5>1. actor'[c].pc = "routing"
          BY <1>1, <4>1, PlanIs DEF Places, Before
        <5>2. d.state \notin {"starting", "prompting"}
          <6>1. ~Goes(c, "planning")
            BY <1>1, <5>1, PlanIs DEF Places, Before
          <6> QED BY <3>1, <6>1
        <5>3. d.state \in States /\ (~d.closed => d.state # "closed")
          BY <1>1, DriverIs DEF SessionInv, SetupTrue
        <5> QED BY <3>2, <5>1, <5>2, <5>3 DEF CalmOf, SameHistory, States
      <4>2. CASE ~Goes(c, "routing")
        <5>1. actor'[c].pc = "planning"
          BY <1>1, <3>1, <4>2, PlanIs DEF Places, Before
        <5>2. CalmOf(c)
          BY DEF MatchInv
        <5>3. ~d.closed => d.state \in {"idle", "unstarted"}
          <6>1. CASE actor[c].pc = "routing"
            BY <3>1, <4>2, <5>2, <6>1 DEF CalmOf
          <6>2. CASE actor[c].pc = "retiring"
            <7>1. Settled(actor[c].turn) /\ actor[c].turn \in Someone
              BY <1>1, <3>1, <4>2, <6>2 DEF Record
            <7>2. ~d.closed => d.state # "waiting"
              BY <5>2, <6>2, <7>1 DEF CalmOf, Settled, SessionInv, TurnTrue, Active, Someone
            <7> QED BY <5>2, <6>2, <7>2 DEF CalmOf
          <6> QED BY <3>1, <4>2, <6>1, <6>2
        <5> QED BY <3>2, <5>1, <5>3 DEF CalmOf, SameHistory
      <4> QED BY <4>1, <4>2
    <3> QED BY <1>3, <3>1, <3>2, <3>3, <3>4, <3>5, <3>6, MatchGoes DEF Before
  <2> QED BY <2>1, <2>2
<1>7. CASE StartAbandons(c) \/ StartDenies(c)
  <2>1. /\ OnlyActor(c) /\ actor'[c].pc = "retiring"
        /\ d.state = "waiting" => actor'[c].turn = d.current
        /\ d.state \in {"waiting", "unstarted"} /\ actor'[c].reused = actor[c].reused
    BY <1>1, <1>7 DEF StartAbandons, StartDenies, Resumable, OnlyActor, Record
  <2>2. UNCHANGED <<d, gate>> /\ actor[c].pc = "routing"
    BY <1>7 DEF StartAbandons, StartDenies
  <2>3. gate' = c
    BY <1>2, <2>2 DEF Gated, Before
  <2>4. CalmOf(c)' /\ PlanOf(c)' /\ SameHistory
    BY <2>1, <2>2 DEF CalmOf, PlanOf, SameHistory
  <2> QED BY <1>3, <2>1, <2>2, <2>3, <2>4, MatchGoes DEF Before
<1>8. CASE StartPlans(c)
  <2>1. PICK base \in {Nobody, d.snapshot} :
          actor' = [actor EXCEPT ![c].pc = "preparing", ![c].base = base,
                                 ![c].reuse = d.fresh \/ base # Nobody]
    BY <1>8 DEF StartPlans
  <2>2. ~d.fresh
    BY DEF MatchInv
  <2>3. /\ OnlyActor(c) /\ actor'[c].pc = "preparing" /\ actor'[c].base = base
        /\ (actor'[c].reuse => base # Nobody) /\ actor'[c].reused = actor[c].reused
    BY <1>1, <2>1, <2>2 DEF OnlyActor, Record
  <2>4. UNCHANGED <<d, gate>> /\ actor[c].pc = "planning"
    BY <1>8 DEF StartPlans
  <2>5. gate' = c
    BY <1>2, <2>4 DEF Gated, Before
  <2>6. CalmOf(c)' /\ SameHistory
    BY <2>3, <2>4 DEF MatchInv, CalmOf, SameHistory
  <2>7. PlanOf(c)'
    BY <2>1, <2>3, <2>4 DEF PlanOf
  <2> QED BY <1>3, <2>3, <2>4, <2>5, <2>6, <2>7, MatchGoes DEF Before
<1> QED BY <1>4, <1>5, <1>6, <1>7, <1>8

LEMMA MatchPrepares ==
    ASSUME SessionInv, MatchInv, Refreshers = {}, NEW c \in Callers,
           \/ PrepareReuses(c) \/ PrepareReplaces(c)
    PROVE  MatchInv'
<1>1. c \in Actors /\ DriverTypeOK /\ actor \in [Actors -> Record]
  BY ActorIs DEF Actors, SessionInv
<1>2. /\ UNCHANGED <<gate, holds>> /\ actor[c].pc = "preparing" /\ ~d.closed
      /\ d.state \in {"idle", "unstarted"}
  BY DEF PrepareReuses, PrepareReplaces, Admitted
<1>3. d.current = Nobody /\ \A b \in Actors : ~InSetup(b)
  BY <1>2, RestIs
<1>4. d'.current = Nobody /\ ~d'.fresh
  BY <1>1, <1>3, DriverIs DEF PrepareReuses, PrepareReplaces, MatchInv
<1>5. CASE PrepareReuses(c)
  <2>1. /\ OnlyActor(c) /\ actor'[c].pc = "reusing" /\ actor'[c].client = d.client
        /\ actor'[c].reused /\ actor'[c].base = actor[c].base
    BY <1>1, <1>5 DEF PrepareReuses, OnlyActor, Record
  <2>2. actor[c].base # Nobody /\ d.snapshot = actor[c].base /\ d.client # Nobody
    BY <1>2, <1>5 DEF PrepareReuses, MatchInv, PlanOf
  <2>3. holds[d.client] = actor[c].base
    BY <1>3, <2>2 DEF MatchInv, HistoryTrue
  <2> QED BY <1>2, <1>4, <2>1, <2>2, <2>3, SetupMoves DEF Within
<1>6. CASE PrepareReplaces(c)
  <2>1. /\ OnlyActor(c) /\ actor'[c].pc = "retiringOld" /\ actor'[c].reused = actor[c].reused
    BY <1>1, <1>6 DEF PrepareReplaces, OnlyActor, Record
  <2>2. ~actor[c].reused
    BY <1>2 DEF MatchInv, BaseOf, Before
  <2> QED BY <1>2, <1>4, <2>1, <2>2, SetupMoves DEF Within
<1> QED BY <1>5, <1>6

LEMMA MatchSetup ==
    ASSUME SessionInv, MatchInv, Refreshers = {}, NEW c \in Callers,
           \/ PrepareWakes(c) \/ PrepareRetiresOld(c) \/ PrepareFails(c) \/ PrepareListens(c)
           \/ PrepareAcquires(c) \/ PreparePublishes(c) \/ StartFails(c) \/ DiscardTakes(c)
           \/ DiscardCloses(c)
    PROVE  MatchInv'
<1>1. c \in Actors /\ DriverTypeOK /\ actor \in [Actors -> Record] /\ Nobody \notin Actors
  BY ActorIs, ActorsAssumption DEF Actors, SessionInv
<1>2. /\ UNCHANGED <<gate, holds>> /\ actor[c].pc \in Within
  BY DEF PrepareWakes, PrepareRetiresOld, PrepareFails, PrepareListens, PrepareAcquires,
     PreparePublishes, StartFails, DiscardTakes, DiscardCloses, Within
<1>3. d.current = Nobody
  BY <1>1, <1>2, SetupIs
<1>4. d'.current = Nobody /\ ~d'.fresh
  <2>1. d \in [state : States, closed : BOOLEAN, client : Anything, relay : Anything,
               current : Someone, outcome : Someone, fresh : BOOLEAN, snapshot : Someone,
               cleanupErr : BOOLEAN, known : BOOLEAN, setup : Anything] /\ ~d.fresh
    BY <1>1, DriverIs DEF MatchInv
  <2>2. CASE PrepareRetiresOld(c) \/ DiscardCloses(c)
    <3>1. PICK failed \in MayFail : noteCleanup(failed)
      BY <2>2 DEF PrepareRetiresOld, DiscardCloses
    <3> QED BY <1>3, <2>1, <3>1 DEF noteCleanup
  <2>3. CASE PrepareListens(c) \/ DiscardTakes(c) \/ PreparePublishes(c)
    BY <1>3, <2>1, <2>3 DEF PrepareListens, DiscardTakes, PreparePublishes
  <2>4. CASE PrepareWakes(c) \/ PrepareFails(c) \/ PrepareAcquires(c) \/ StartFails(c)
    BY <1>3, <2>1, <2>4 DEF PrepareWakes, PrepareFails, PrepareAcquires, StartFails
  <2> QED BY <2>2, <2>3, <2>4
<1>5. BaseOf(c)
  BY DEF MatchInv
<1>6. CASE PrepareWakes(c)
  <2>1. CASE proc[actor[c].client] = "up"
    <3>1. /\ OnlyActor(c) /\ actor'[c].pc = "draining" /\ actor'[c].client = actor[c].client
          /\ actor'[c].reused = actor[c].reused /\ actor'[c].base = actor[c].base
      BY <1>1, <1>6, <2>1 DEF PrepareWakes, OnlyActor, Record
    <3>2. actor[c].pc = "reusing"
      BY <1>6 DEF PrepareWakes
    <3> QED BY <1>2, <1>4, <1>5, <3>1, <3>2, SetupMoves DEF BaseOf, Within
  <2>2. CASE proc[actor[c].client] # "up"
    <3>1. OnlyActor(c) /\ actor'[c].pc = "retiringOld" /\ ~actor'[c].reused
      BY <1>1, <1>6, <2>2 DEF PrepareWakes, OnlyActor, Record
    <3> QED BY <1>2, <1>4, <3>1, SetupMoves DEF Within
  <2> QED BY <2>1, <2>2
<1>7. CASE \/ PrepareRetiresOld(c) \/ PrepareFails(c) \/ PrepareListens(c) \/ StartFails(c)
           \/ DiscardCloses(c)
  <2>1. PICK x \in {"failing", "listening", "acquiring", "resetting"} :
            /\ Goes(c, x)
            /\ x \in {"listening", "acquiring"} => actor[c].pc \in {"retiringOld", "listening"}
    BY <1>7 DEF PrepareRetiresOld, PrepareFails, PrepareListens, StartFails, DiscardCloses
  <2>2. /\ OnlyActor(c) /\ actor'[c].pc = x /\ actor'[c].reused = actor[c].reused
    BY <1>1, <2>1, PlanIs DEF Places, Within, SameLocals
  <2>3. x \in {"listening", "acquiring"} => ~actor[c].reused
    BY <1>5, <2>1 DEF BaseOf
  <2> QED BY <1>2, <1>4, <2>2, <2>3, SetupMoves DEF Within
<1>8. CASE DiscardTakes(c)
  <2>1. OnlyActor(c) /\ actor'[c].pc = "discarding"
    BY <1>1, <1>8 DEF DiscardTakes, OnlyActor, Record
  <2> QED BY <1>2, <1>4, <2>1, SetupMoves DEF Within
<1>9. CASE PrepareAcquires(c)
  <2>1. /\ OnlyActor(c) /\ actor'[c].pc = "draining" /\ actor'[c].client = c
        /\ actor'[c].reused = actor[c].reused
    BY <1>1, <1>9 DEF PrepareAcquires, OnlyActor, Record
  <2>2. ~actor[c].reused
    BY <1>5, <1>9 DEF PrepareAcquires, BaseOf
  <2> QED BY <1>1, <1>2, <1>4, <2>1, <2>2, SetupMoves DEF Within
<1>10. CASE PreparePublishes(c)
  <2>1. Goes(c, "starting") /\ actor[c].pc = "draining"
    BY <1>10 DEF PreparePublishes
  <2>2. /\ OnlyActor(c) /\ actor'[c].pc = "starting" /\ SameLocals(c)
        /\ actor'[c].base = actor[c].base
    BY <1>1, <2>1, PlanIs DEF Places, Within
  <2> QED BY <1>2, <1>4, <1>5, <2>1, <2>2, SetupMoves DEF BaseOf, SameLocals, Within
<1> QED BY <1>6, <1>7, <1>8, <1>9, <1>10

LEMMA MatchResets ==
    ASSUME SessionInv, MatchInv, Refreshers = {}, NEW c \in Callers, DiscardResets(c)
    PROVE  MatchInv'
<1>1. c \in Actors /\ DriverTypeOK /\ actor[c].pc = "resetting" /\ UNCHANGED <<gate, holds>>
  BY DEF DiscardResets, Actors, SessionInv
<1>2. OnlyActor(c) /\ actor'[c].pc = "discarded"
  BY <1>1, PlanIs DEF DiscardResets, Places, After
<1>3. d'.client = Nobody /\ d'.current = Nobody /\ ~d'.fresh
  BY <1>1, DriverIs DEF DiscardResets
<1>4. actor[c].pc \in Gated /\ gate = c
  BY <1>1 DEF MatchInv, GateTrue, Gated, Within
<1>5. HistoryTrue' /\ CalmOf(c)' /\ PlanOf(c)' /\ BaseOf(c)'
  BY <1>2, <1>3 DEF HistoryTrue, CalmOf, PlanOf, BaseOf, Before, Within
<1> QED BY <1>1, <1>2, <1>3, <1>4, <1>5, InGate

LEMMA MatchHandsOff ==
    ASSUME SessionInv, MatchInv, Refreshers = {}, NEW c \in Callers, FinishHandsOff(c)
    PROVE  MatchInv'
<1>0. Actors = Callers /\ DriverTypeOK
  BY DEF Actors, SessionInv
<1>1. /\ UNCHANGED <<gate, holds>> /\ actor[c].pc = "ended" /\ ~d.closed /\ d.state = "prompting"
      /\ d' = [d EXCEPT !.state = "waiting"] /\ d.current = actor[c].turn
  <2>1. /\ UNCHANGED <<gate, holds>> /\ actor[c].pc = "ended" /\ ~d.closed
        /\ d' = [d EXCEPT !.state = "waiting"] /\ d.current = actor[c].turn
    BY DEF FinishHandsOff
  <2> QED BY <2>1 DEF SessionInv, RoundTrue, InRound
<1>2. OnlyActor(c) /\ actor'[c].pc \in {"over", "settling"}
  BY <1>0, EndsIs, PlanIs DEF FinishHandsOff, Places, After
<1>3. /\ d'.closed = d.closed /\ d'.client = d.client /\ d'.current = d.current
      /\ d'.snapshot = d.snapshot /\ ~d'.fresh
  BY <1>0, <1>1, DriverIs DEF MatchInv
<1>4. GateTrue'
  BY <1>0, <1>1, <1>2 DEF MatchInv, GateTrue, OnlyActor, Gated, Before, Within
<1>5. HistoryTrue'
  <2>1. \A b \in Actors : InSetup(b) <=> InSetup(b)'
    BY <1>1, <1>2 DEF InSetup, OnlyActor, Within
  <2> QED BY <1>1, <1>3, <2>1 DEF MatchInv, HistoryTrue
<1>6. ASSUME NEW b \in Callers PROVE (CalmOf(b) /\ PlanOf(b) /\ BaseOf(b))'
  <2>1. CASE b = c
    BY <1>2, <2>1 DEF CalmOf, PlanOf, BaseOf, Before, Within
  <2>2. CASE b # c
    <3>1. actor'[b] = actor[b] /\ CalmOf(b) /\ PlanOf(b) /\ BaseOf(b)
      BY <1>0, <1>2, <2>2 DEF OnlyActor, MatchInv
    <3>2. actor[b].pc \notin {"routing", "retiring", "planning", "preparing"}
      BY <1>1, <3>1 DEF CalmOf
    <3> QED BY <1>1, <3>1, <3>2 DEF CalmOf, PlanOf, BaseOf
  <2> QED BY <2>1, <2>2
<1> QED BY <1>3, <1>4, <1>5, <1>6 DEF MatchInv

LEMMA MatchResumes ==
    ASSUME SessionInv, MatchInv, Refreshers = {}, NEW c \in Callers, StartResumes(c)
    PROVE  MatchInv'
<1>0. Actors = Callers /\ DriverTypeOK /\ FieldTypes
  BY Fields DEF Actors, SessionInv
<1>1. /\ UNCHANGED holds /\ actor[c].pc = "routing" /\ gate' = Nobody
      /\ d' = [d EXCEPT !.state = "prompting"] /\ GetsRound(c, d.current) /\ d.current \in Callers
  BY <1>0 DEF StartResumes, Resumable, Answers, FieldTypes, Someone
<1>2. OnlyActor(c) /\ actor'[c].pc = "round"
  BY <1>0, <1>1, GetsIs
<1>3. /\ d'.client = d.client /\ d'.current = d.current /\ ~d'.fresh /\ d.current # Nobody
  BY <1>0, <1>1, DriverIs, ActorsAssumption DEF MatchInv
<1>4. HistoryTrue'
  BY <1>1, <1>3 DEF MatchInv, HistoryTrue
<1>5. \A b \in Callers \ {c} : actor[b].pc = "outside" => holds'[b] = Nobody
  BY <1>1 DEF MatchInv, BaseOf, Before
<1> QED BY <1>1, <1>2, <1>3, <1>4, <1>5, GateOpens DEF Gated, Before, After

\* The session that the prompt goes to holds what it builds on.
LEMMA BeginsOn ==
    ASSUME SessionInv, MatchInv, Refreshers = {}, NEW c \in Callers, StartBegins(c)
    PROVE  /\ actor[c].client \in Actors /\ holds[actor[c].client] = Base(c)
           /\ d'.client = actor[c].client /\ d'.current = c /\ turn'[c].base = Base(c)
           /\ holds' = [holds EXCEPT ![actor[c].client] = c] /\ ~d'.fresh
<1>1. c \in Actors /\ DriverTypeOK /\ FieldTypes /\ actor[c].pc = "starting"
  BY Fields DEF Actors, SessionInv, StartBegins
<1>2. actor[c].client # Nobody /\ actor[c].client \in Anything
  BY <1>1 DEF MatchInv, BaseOf, FieldTypes
<1>3. holds[actor[c].client] = Base(c)
  BY <1>1 DEF MatchInv, BaseOf, Base, Within
<1>4. d'.client = actor[c].client /\ d'.current = c /\ ~d'.fresh
  BY <1>1, DriverIs DEF StartBegins
<1>5. turn'[c].base = Base(c)
  <2>1. turn[c] \in TurnRecord
    BY <1>1, TurnIs
  <2>2. turn \in [Callers -> TurnRecord]
    BY <1>1 DEF DriverTypeOK, TurnTypes, TurnRecord
  <2> QED BY <2>1, <2>2 DEF StartBegins, TurnRecord
<1> QED BY <1>2, <1>3, <1>4, <1>5 DEF StartBegins, Anything, Launches

LEMMA MatchBegins ==
    ASSUME SessionInv, MatchInv, Refreshers = {}, NEW c \in Callers, StartBegins(c)
    PROVE  MatchInv'
<1>1. /\ c \in Actors /\ DriverTypeOK /\ actor[c].pc = "starting" /\ gate' = Nobody
      /\ GetsRound(c, c)
  BY DEF Actors, SessionInv, StartBegins
<1>2. OnlyActor(c) /\ actor'[c].pc = "round"
  BY <1>1, GetsIs
<1>3. PICK l \in Actors : l = actor[c].client
  BY BeginsOn
<1>4. /\ d'.client = l /\ d'.current = c /\ ~d'.fresh /\ holds' = [holds EXCEPT ![l] = c]
      /\ holds \in [Actors -> Someone] /\ l # Nobody /\ c # Nobody
  BY <1>1, <1>3, BeginsOn, ActorsAssumption DEF DriverTypeOK, LaunchTypes, Launches, Actors
<1>5. HistoryTrue'
  BY <1>4 DEF HistoryTrue
<1>6. ASSUME NEW b \in Callers \ {c}, actor[b].pc = "outside" PROVE holds'[b] = Nobody
  <2>1. b \in Actors /\ proc[b] = "none" /\ proc[l] # "none"
    BY <1>1, <1>3, <1>4, <1>6 DEF SessionInv, NamedTrue, NamedP, Before, Actors
  <2>2. holds[b] = Nobody
    BY <1>6 DEF MatchInv, BaseOf, Before
  <2> QED BY <1>4, <2>1, <2>2
<1>7. actor[c].pc \in Gated /\ "round" \in After \ {"discarded"}
  BY <1>1 DEF Gated, Within, After
<1> QED BY <1>1, <1>2, <1>4, <1>5, <1>6, <1>7, GateOpens

LEMMA MatchNext ==
    ASSUME SessionInv, MatchInv, Refreshers = {}, [Next]_vars
    PROVE  MatchInv'
<1>0. Actors = Callers
  BY DEF Actors
<1>1. ASSUME NEW c \in Callers,
             StartEnters(c) \/ StartBusy(c) \/ StartGivesUp(c) \/ StartStep(c)
      PROVE  MatchInv'
  BY <1>1, MatchStarts, MatchReturns, MatchResumes, MatchBegins DEF StartStep
<1>2. ASSUME NEW c \in Callers, HandlerStep(c) PROVE MatchInv'
  BY <1>2, MatchRounds, MatchHandsOff, MatchReturns DEF HandlerStep
<1>3. ASSUME NEW c \in Callers, TurnStep(c) \/ PromptStep(c) PROVE MatchInv'
  BY <1>3, MatchRests, MatchSettles DEF TurnStep
<1>4. ASSUME NEW a \in Actors, PrepareStep(a) PROVE MatchInv'
  BY <1>0, <1>4, MatchPrepares, MatchSetup, MatchResets, MatchReturns DEF PrepareStep
<1>5. ASSUME NEW l \in Launches, WatcherStep(l) \/ RelayFails(l) \/ ProcessDies(l) PROVE MatchInv'
  BY <1>5, MatchRests, MatchLoses DEF WatcherStep
<1>6. CASE CloseBegins \/ EvictBegins \/ CloseStep
  BY <1>6, MatchRests, MatchLoses
<1>7. CASE UNCHANGED vars
  BY <1>7, MatchStill DEF vars, SameHistory
<1> QED BY <1>1, <1>2, <1>3, <1>4, <1>5, <1>6, <1>7 DEF Next

LEMMA MatchInit == Init => MatchInv
BY DEF Init, MatchInv, GateTrue, HistoryTrue, CalmOf, PlanOf, BaseOf, Locals, Gated, Actors,
   Launches

\* A turn begins in Start only.
LEMMA OnlyBegins ==
    ASSUME SessionInv, Refreshers = {}, Next, d'.current # d.current, d'.current # Nobody
    PROVE  \E c \in Callers : StartBegins(c)
<1>0. DriverTypeOK
  BY DEF SessionInv
<1>1. d \in [state : States, closed : BOOLEAN, client : Anything, relay : Anything,
             current : Someone, outcome : Someone, fresh : BOOLEAN, snapshot : Someone,
             cleanupErr : BOOLEAN, known : BOOLEAN, setup : Anything]
  BY <1>0, DriverIs
<1>2. ASSUME \E failed \in MayFail : noteCleanup(failed) PROVE FALSE
  BY <1>1, <1>2 DEF noteCleanup
<1>3. ASSUME NEW c \in Callers, StartEnters(c) \/ StartBusy(c) \/ StartGivesUp(c) \/ StartStep(c)
      PROVE  StartBegins(c)
  BY <1>1, <1>3 DEF StartEnters, StartBusy, StartGivesUp, StartStep, Leaves, StartReadsDelivery,
     StartAwaited, StartChecksBusy, StartOrdinary, StartResumes, StartToldOutcome,
     StartFindsExpired, StartAbandons, StartDenies, StartRetired, StartPlans
<1>4. ASSUME NEW c \in Callers, HandlerStep(c) \/ PromptStep(c) PROVE FALSE
  BY <1>1, <1>4 DEF HandlerStep, NextSeals, NextEnds, RoundCancels, FinishCompletes,
     FinishHandsOff, FinishTooLate, RoundOver, PromptStep, ToolCall, PromptReturns, PromptFails,
     PromptAborts, Expires, WatchAborts
<1>5. ASSUME NEW c \in Callers, TurnStep(c) PROVE FALSE
  BY <1>1, <1>2, <1>5 DEF TurnStep, AbortClosesRelay, AbortClosesClient, AbortSettles,
     CompleteSettles
<1>6. ASSUME NEW a \in Actors, PrepareStep(a) PROVE FALSE
  <2>1. CASE PrepareRetiresOld(a) \/ DiscardCloses(a)
    BY <1>2, <2>1 DEF PrepareRetiresOld, DiscardCloses
  <2>2. CASE ~(PrepareRetiresOld(a) \/ DiscardCloses(a))
    BY <1>1, <1>6, <2>2 DEF PrepareStep, PrepareRefused, PrepareReuses, PrepareWakes,
       PrepareReplaces, PrepareFails, PrepareListens, PrepareAcquires, PreparePublishes,
       StartFails, DiscardTakes, DiscardResets, DiscardEnds
  <2> QED BY <2>1, <2>2
<1>7. ASSUME NEW l \in Launches, WatcherStep(l) \/ RelayFails(l) \/ ProcessDies(l) PROVE FALSE
  BY <1>1, <1>2, <1>7 DEF WatcherStep, WatcherWakes, WatcherClears, WatcherCloses, RelayFails,
     ProcessDies
<1>8. ~(CloseBegins \/ EvictBegins \/ CloseStep)
  BY <1>1, <1>2 DEF CloseBegins, EvictBegins, CloseStep, CloseReleases, CloseReturns,
     EvictReleases, EvictReturns
<1> QED BY <1>3, <1>4, <1>5, <1>6, <1>7, <1>8 DEF Next

\* Without a Models caller a prompt goes to a backend session that holds exactly the history it
\* builds on: a delta to the session of the committed turn, a full history to an empty session.
THEOREM MatchHolds == ASSUME Refreshers = {} PROVE Spec => PromptMatchesSession
<1> DEFINE P == d'.current # d.current /\ d'.current # Nobody =>
                  holds[d'.client] = turn'[d'.current].base
<1>1. SessionInv /\ MatchInv /\ [Next]_vars => [P]_vars
  <2> SUFFICES ASSUME SessionInv, MatchInv, Next, d'.current # d.current, d'.current # Nobody
               PROVE  holds[d'.client] = turn'[d'.current].base
    OBVIOUS
  <2>1. PICK c \in Callers : StartBegins(c)
    BY OnlyBegins
  <2> QED BY <2>1, BeginsOn
<1>2. SessionInv /\ MatchInv /\ [Next]_vars => MatchInv'
  BY MatchNext
<1> QED BY <1>1, <1>2, MatchInit, SessionAlways, PTL DEF Spec, PromptMatchesSession

----------------------------------------------------------------------------
(* Nobody waits for nobody.                                                *)

\* A turn that is being retired, or was.
Ending(t) == t # Nobody => turn[t].settle \notin {"none", "open"}

\* Somebody handles a response of the turn, or its prompt is suspended in a call or about to fail.
Attended(t) ==
    \/ \E c \in Callers : InRound(c) /\ actor[c].turn = t
    \/ /\ turn[t].prompt # "ok" /\ turn[t].delivery # "open"
       /\ relay[turn[t].relay] # "open" \/ call[turn[t].relay] # "none"

TurnWaits(t) ==
    /\ turn[t].settle # "none" => turn[t].prompt # "none" /\ turn[t].relay # Nobody
    /\ turn[t].settle = "open" => Attended(t)

\* Whoever waits for a turn waits for one that is being retired, or for a delivery that was opened;
\* Close waits for a setup that runs.
Joined == Within \cup {"discarded"}
ActorWaits(a) ==
    /\ actor[a].pc = "awaiting" => actor[a].turn # Nobody /\ turn[actor[a].turn].delivery # "nil"
    /\ actor[a].pc \in {"retiring", "settling"} => Ending(actor[a].turn)
    /\ actor[a].setup => actor[a].pc \in Joined

WaitTrue ==
    /\ \A t \in Callers : TurnWaits(t)
    /\ \A a \in Actors : ActorWaits(a)
    /\ \A l \in Launches : watcher[l].pc = "aborting" => Ending(watcher[l].current)
    /\ Ending(closer.current)

\* Where a process can be prompted there is a relay for it.
Linked == {"reusing", "acquiring", "draining", "starting", "refreshed"}
RelayTrue ==
    /\ \A a \in Actors : actor[a].pc \in Linked => d.relay # Nobody
    /\ d.client # Nobody /\ (\A a \in Actors : ~InSetup(a)) => d.relay # Nobody

\* Who waits for a turn goes on waiting for what will come.
TurnLives(t) ==
    /\ turn[t].settle \notin {"none", "open"} => turn'[t].settle \notin {"none", "open"}
    /\ turn[t].delivery # "nil" => turn'[t].delivery # "nil"

\* A turn goes on, if it has been begun.
TurnFades(t) ==
    /\ turn'[t].settle \in {"none", "open"} => turn'[t].settle = turn[t].settle
    /\ turn[t].settle = "none" => turn'[t].settle = "none"
    /\ turn'[t].prompt = "ok" => turn[t].prompt = "ok"
    /\ turn[t].prompt # "none" => turn'[t].prompt # "none"
    /\ turn'[t].delivery = "open" => turn[t].delivery = "open"
    /\ turn[t].delivery # "nil" => turn'[t].delivery # "nil"
    /\ turn'[t].relay = turn[t].relay

\* No relay is opened and no call answered.
CallsStay ==
    \A l \in Launches : relay[l] # "open" \/ call[l] # "none" => relay'[l] # "open" \/ call'[l] # "none"

LEMMA TurnStays ==
    ASSUME DriverTypeOK, NEW t \in Callers, TurnWaits(t), TurnFades(t), CallsStay,
           \A c \in Callers : InRound(c) /\ actor[c].turn = t =>
               (InRound(c)' /\ actor'[c].turn = t) \/ turn'[t].settle # "open"
    PROVE  TurnWaits(t)'
<1> USE DEF TurnWaits, TurnFades
<1>1. turn'[t].settle # "none" => turn[t].settle # "none"
  OBVIOUS
<1>2. ASSUME turn'[t].settle = "open" PROVE Attended(t)'
  <2>1. turn[t].settle = "open" /\ turn[t].relay \in Launches /\ turn'[t].relay = turn[t].relay
    BY <1>2, Fields DEF FieldTypes, Anything
  <2>2. CASE \E c \in Callers : InRound(c) /\ actor[c].turn = t
    BY <1>2, <2>2 DEF Attended
  <2>3. CASE /\ turn[t].prompt # "ok" /\ turn[t].delivery # "open"
             /\ relay[turn[t].relay] # "open" \/ call[turn[t].relay] # "none"
    BY <2>1, <2>3 DEF Attended, CallsStay
  <2> QED BY <2>1, <2>2, <2>3 DEF Attended
<1> QED BY <1>1, <1>2

\* One actor, the turns, and the watches and Close, which may begin to wait for a turn that ends.
LEMMA WaitFrame ==
    ASSUME SessionInv, WaitTrue, \A t \in Callers : TurnWaits(t)', \A t \in Callers : TurnLives(t),
           NEW a \in Actors, UNCHANGED actor \/ (OnlyActor(a) /\ ActorWaits(a)'),
           \A l \in Launches : watcher'[l].pc = "aborting" =>
               watcher'[l] = watcher[l] \/ Ending(watcher[l].current)',
           closer'.current = closer.current \/ Ending(closer.current)'
    PROVE  WaitTrue'
<1>1. DriverTypeOK /\ FieldTypes
  BY Fields DEF SessionInv
<1>2. \A x \in Someone : Ending(x) => (x # Nobody => turn'[x].settle \notin {"none", "open"})
  BY DEF Ending, TurnLives, Someone
<1>3. ASSUME NEW b \in Actors PROVE ActorWaits(b)'
  <2>1. CASE actor'[b] # actor[b]
    BY <2>1 DEF OnlyActor
  <2>2. CASE actor'[b] = actor[b]
    <3>1. actor[b].turn \in Someone /\ ActorWaits(b)
      BY <1>1 DEF FieldTypes, WaitTrue
    <3>2. Ending(actor[b].turn) => Ending(actor[b].turn)'
      BY <1>2, <2>2, <3>1 DEF Ending
    <3>3. actor[b].turn # Nobody /\ turn[actor[b].turn].delivery # "nil" => turn'[actor[b].turn].delivery # "nil"
      BY <3>1 DEF TurnLives, Someone
    <3> QED BY <2>2, <3>1, <3>2, <3>3 DEF ActorWaits
  <2> QED BY <2>1, <2>2
<1>4. ASSUME NEW l \in Launches, watcher'[l].pc = "aborting" PROVE Ending(watcher[l].current)'
  BY <1>1, <1>2, <1>4 DEF WaitTrue, FieldTypes, Ending
<1>5. Ending(closer.current)'
  BY <1>1, <1>2 DEF WaitTrue, FieldTypes, Ending
<1> QED BY <1>3, <1>4, <1>5 DEF WaitTrue

LEMMA FadesLives == ASSUME \A t \in Callers : TurnFades(t) PROVE \A t \in Callers : TurnLives(t)
BY DEF TurnFades, TurnLives

\* An actor goes on that was in no round, or leaves the round of a turn that it has retired.
LEMMA ActorGoes ==
    ASSUME SessionInv, WaitTrue, NEW a \in Actors, UNCHANGED actor \/ (OnlyActor(a) /\ ActorWaits(a)'),
           UNCHANGED <<watcher, closer>>, \A t \in Callers : TurnFades(t), CallsStay,
           InRound(a) => \/ InRound(a)' /\ actor'[a].turn = actor[a].turn
                         \/ turn'[actor[a].turn].settle # "open"
    PROVE  WaitTrue'
<1>1. DriverTypeOK /\ Callers \subseteq Actors
  BY DEF SessionInv, Actors
<1>2. ASSUME NEW c \in Callers, NEW t \in Callers, InRound(c), actor[c].turn = t
      PROVE  (InRound(c)' /\ actor'[c].turn = t) \/ turn'[t].settle # "open"
  BY <1>1, <1>2 DEF OnlyActor, InRound
<1>3. \A t \in Callers : TurnWaits(t)'
  BY <1>1, <1>2, TurnStays DEF WaitTrue
<1> QED BY <1>3, FadesLives, WaitFrame

\* An actor that does not wait for a turn afterwards.
LEMMA EndWaits ==
    ASSUME DriverTypeOK, NEW a \in Actors, Ends(a)
    PROVE  OnlyActor(a) /\ ActorWaits(a)' /\ actor'[a].pc = "over"
<1>1. [Locals EXCEPT !.pc = "over"].setup = FALSE
  BY DEF Locals
<1>2. OnlyActor(a) /\ actor'[a].pc = "over" /\ actor'[a].setup = FALSE
  BY <1>1, ActorKeeps, OverIs DEF Ends
<1> QED BY <1>2 DEF ActorWaits

LEMMA RoundWaits ==
    ASSUME DriverTypeOK, NEW c \in Actors, NEW t \in Callers, GetsRound(c, t)
    PROVE  OnlyActor(c) /\ ActorWaits(c)' /\ actor'[c].pc = "round" /\ actor'[c].turn = t
<1>1. [Locals EXCEPT !.pc = "round", !.turn = t].setup = FALSE
  BY DEF Locals
<1>2. OnlyActor(c) /\ actor'[c].pc = "round" /\ actor'[c].turn = t
  BY GetsIs
<1>3. actor'[c] = [Locals EXCEPT !.pc = "round", !.turn = t]
  BY ActorIs DEF GetsRound
<1> QED BY <1>1, <1>2, <1>3 DEF ActorWaits

LEMMA GoWaits ==
    ASSUME DriverTypeOK, NEW a \in Actors, ActorWaits(a), actor[a].pc \notin Joined,
           NEW x \in Places \ {"awaiting", "retiring", "settling"}, Goes(a, x)
    PROVE  OnlyActor(a) /\ ActorWaits(a)' /\ actor'[a].pc = x /\ actor'[a].turn = actor[a].turn
BY GoesOn DEF ActorWaits, SameLocals

\* Steps of one actor that is in no round, which touch nothing but its locals and the driver.
LEMMA LocalWaits ==
    ASSUME SessionInv, WaitTrue, NEW a \in Actors, ~InRound(a), OnlyActor(a), ActorWaits(a)',
           UNCHANGED <<turn, relay, call, watcher, closer>>
    PROVE  WaitTrue'
<1>1. \A t \in Callers : TurnFades(t)
  BY DEF TurnFades
<1>2. CallsStay
  BY DEF CallsStay
<1> QED BY <1>1, <1>2, ActorGoes

\* The steps of a setup: there is no turn to wait for.
LEMMA SetupWaits ==
    ASSUME SessionInv, WaitTrue, NEW a \in Actors, d.current = Nobody, OnlyActor(a), ActorWaits(a)',
           UNCHANGED <<turn, closer>>, watcher' = watcher \/ watcher' = [watcher EXCEPT ![a].pc = "watching"]
    PROVE  WaitTrue'
<1>1. DriverTypeOK /\ Nobody \notin Callers
  BY ActorsAssumption DEF SessionInv
<1>2. \A t \in Callers : TurnLives(t)
  BY DEF TurnLives
<1>3. \A t \in Callers : TurnWaits(t)'
  BY <1>1 DEF WaitTrue, TurnWaits, SessionInv, TurnTrue, Active
<1>4. \A l \in Launches : watcher'[l].pc = "aborting" => watcher'[l] = watcher[l]
  BY <1>1 DEF DriverTypeOK, OtherTypes
<1> QED BY <1>2, <1>3, <1>4, WaitFrame

LEMMA EntersIs ==
    ASSUME NEW c \in Callers, StartEnters(c)
    PROVE  UNCHANGED <<d, turn, relay, call, watcher, closer>> /\ actor[c].pc = "outside"
BY Zenon DEF StartEnters

\* A request or a Models caller that has no setup and no round goes on, or returns.
LEMMA StartLocal ==
    ASSUME SessionInv, WaitTrue, NEW c \in Callers,
           \/ StartEnters(c) \/ StartBusy(c) \/ Leaves(c) \/ StartReadsDelivery(c)
           \/ StartGivesUp(c) \/ StartAwaited(c) \/ StartChecksBusy(c) \/ StartOrdinary(c)
           \/ StartToldOutcome(c) \/ StartFindsExpired(c) \/ StartRetired(c) \/ StartPlans(c)
           \/ RoundOver(c)
    PROVE  /\ OnlyActor(c) /\ ActorWaits(c)' /\ ~InRound(c) /\ ~InSetup(c) /\ ~InSetup(c)'
           /\ d'.client = d.client /\ d'.relay = d.relay /\ UNCHANGED <<turn, relay, call, watcher, closer>>
<1>1. c \in Actors /\ DriverTypeOK /\ FieldTypes /\ actor \in [Actors -> Record] /\ ActorWaits(c)
  BY Fields, ActorIs DEF Actors, SessionInv, WaitTrue
<1>4. /\ UNCHANGED <<turn, relay, call, watcher, closer>> /\ actor[c].pc \in Before \cup {"settling"}
      /\ d'.client = d.client /\ d'.relay = d.relay
  <2>1. CASE StartEnters(c)
    BY <2>1, EntersIs DEF Before
  <2>4. CASE StartReadsDelivery(c)
    BY <2>4 DEF StartReadsDelivery, Before
  <2>5. CASE StartPlans(c)
    BY <2>5 DEF StartPlans, Before
  <2>2. CASE StartFindsExpired(c) \/ StartRetired(c)
    BY <1>1, <2>2, DriverIs DEF StartFindsExpired, StartRetired, Before
  <2>3. CASE \/ StartBusy(c) \/ Leaves(c) \/ StartGivesUp(c) \/ StartAwaited(c) \/ StartChecksBusy(c)
             \/ StartOrdinary(c) \/ StartToldOutcome(c) \/ RoundOver(c)
    BY <2>3 DEF StartBusy, Leaves, StartGivesUp, StartAwaited, StartChecksBusy, StartOrdinary,
       StartToldOutcome, RoundOver, Before
  <2> QED BY <2>1, <2>2, <2>3, <2>4, <2>5
<1>5. ~InRound(c) /\ ~InSetup(c) /\ actor[c].pc \notin Joined /\ ~actor[c].setup
  BY <1>1, <1>4 DEF InRound, InSetup, Before, Within, Joined, ActorWaits
<1>6. OnlyActor(c) /\ ActorWaits(c)' /\ ~InSetup(c)'
  <2>1. CASE Ends(c)
    BY <1>1, <2>1, EndWaits DEF InSetup, Within
  <2>2. ASSUME NEW x \in {"entered", "checking", "routing", "planning"}, Goes(c, x)
        PROVE  OnlyActor(c) /\ ActorWaits(c)' /\ ~InSetup(c)'
    <3>1. x \in Places \ {"awaiting", "retiring", "settling"} /\ x \notin Within
      BY DEF Places, Before, Within
    <3> QED BY <1>1, <1>5, <2>2, <3>1, GoWaits DEF InSetup
  <2>3. ASSUME NEW e \in Exposed, NEW kind \in {"results", "changed", "denial"},
               actor' = [actor EXCEPT ![c].pc = "entered", ![c].kind = kind,
                                      ![c].about = e[1], ![c].number = e[2]]
        PROVE  OnlyActor(c) /\ ActorWaits(c)' /\ ~InSetup(c)'
    <3>1. OnlyActor(c) /\ actor'[c].pc = "entered" /\ actor'[c].setup = actor[c].setup
      BY <1>1, <2>3 DEF OnlyActor, Record
    <3> QED BY <1>5, <3>1 DEF ActorWaits, InSetup, Within
  <2>4. ASSUME d.current # Nobody, turn[d.current].delivery = "open", UNCHANGED turn,
               actor' = [actor EXCEPT ![c].pc = "awaiting", ![c].turn = d.current]
        PROVE  OnlyActor(c) /\ ActorWaits(c)' /\ ~InSetup(c)'
    <3>1. /\ OnlyActor(c) /\ actor'[c].pc = "awaiting" /\ actor'[c].setup = actor[c].setup
          /\ actor'[c].turn = d.current
      BY <1>1, <2>4 DEF OnlyActor, Record
    <3> QED BY <1>5, <2>4, <3>1 DEF ActorWaits, InSetup, Within
  <2>6. CASE StartEnters(c)
    <3>1. CASE Goes(c, "entered")
      BY <2>2, <3>1
    <3>2. CASE ~Goes(c, "entered")
      BY <2>3, <2>6, <3>2 DEF StartEnters
    <3> QED BY <3>1, <3>2
  <2>7. CASE StartReadsDelivery(c)
    BY <1>4, <2>2, <2>4, <2>7 DEF StartReadsDelivery
  <2>8. CASE StartPlans(c)
    <3>1. PICK base \in {Nobody, d.snapshot} :
            actor' = [actor EXCEPT ![c].pc = "preparing", ![c].base = base,
                                   ![c].reuse = d.fresh \/ base # Nobody]
      BY <2>8 DEF StartPlans
    <3>2. OnlyActor(c) /\ actor'[c].pc = "preparing" /\ actor'[c].setup = actor[c].setup
      BY <1>1, <3>1 DEF OnlyActor, Record
    <3> QED BY <1>5, <3>2 DEF ActorWaits, InSetup, Within
  <2> QED BY <2>1, <2>2, <2>6, <2>7, <2>8 DEF StartBusy, Leaves, StartGivesUp, StartAwaited,
       StartChecksBusy, StartOrdinary, StartToldOutcome, StartFindsExpired, StartRetired, RoundOver, Return
<1> QED BY <1>4, <1>5, <1>6

LEMMA ReturnLocal ==
    ASSUME SessionInv, WaitTrue, NEW a \in Actors,
           PrepareRefused(a) \/ DiscardEnds(a) \/ (a \in Refreshers /\ ModelsEnters(a))
    PROVE  /\ OnlyActor(a) /\ ActorWaits(a)' /\ ~InRound(a) /\ ~InSetup(a) /\ ~InSetup(a)'
           /\ d'.client = d.client /\ d'.relay = d.relay /\ UNCHANGED <<turn, relay, call, watcher, closer>>
<1>1. DriverTypeOK /\ ActorWaits(a)
  BY DEF SessionInv, WaitTrue
<1>2. /\ actor[a].pc \in {"preparing", "discarded", "outside"}
      /\ UNCHANGED <<d, turn, relay, call, watcher, closer>>
  BY DEF PrepareRefused, DiscardEnds, ModelsEnters
<1>3. CASE Ends(a)
  BY <1>1, <1>2, <1>3, EndWaits DEF InSetup, Within, InRound
<1>4. CASE ~Ends(a)
  <2>1. Goes(a, "preparing") /\ actor[a].pc = "outside"
    BY <1>4 DEF PrepareRefused, DiscardEnds, ModelsEnters
  <2>2. "preparing" \in Places \ {"awaiting", "retiring", "settling"} /\ actor[a].pc \notin Joined
    BY <2>1 DEF Places, Before, Joined, Within
  <2> QED BY <1>1, <1>2, <2>1, <2>2, GoWaits DEF InSetup, Within, InRound
<1> QED BY <1>3, <1>4

\* A setup begins or goes on, with a relay where it needs one.
LEMMA SetupLocal ==
    ASSUME SessionInv, RelayTrue, NEW a \in Actors,
           \/ PrepareReuses(a) \/ PrepareWakes(a) \/ PrepareReplaces(a) \/ PrepareRetiresOld(a)
           \/ PrepareFails(a) \/ PrepareListens(a) \/ PrepareAcquires(a) \/ PreparePublishes(a)
           \/ StartFails(a) \/ DiscardTakes(a) \/ DiscardCloses(a)
    PROVE  /\ OnlyActor(a) /\ actor'[a].pc \in Within /\ d.current = Nobody
           /\ actor'[a].pc \in Linked => d'.relay # Nobody
           /\ UNCHANGED <<turn, closer>> /\ (watcher' = watcher \/ watcher' = [watcher EXCEPT ![a].pc = "watching"])
<1>1. DriverTypeOK /\ actor \in [Actors -> Record] /\ Nobody \notin Actors
  BY ActorIs, ActorsAssumption DEF Actors, SessionInv
<1>2. UNCHANGED <<turn, closer>> /\ (watcher' = watcher \/ watcher' = [watcher EXCEPT ![a].pc = "watching"])
  BY DEF PrepareReuses, PrepareWakes, PrepareReplaces, PrepareRetiresOld, PrepareFails, PrepareListens,
     PrepareAcquires, PreparePublishes, StartFails, DiscardTakes, DiscardCloses
<1>3. CASE PrepareReuses(a)
  <2>1. /\ OnlyActor(a) /\ actor'[a].pc = "reusing"
    BY <1>1, <1>3 DEF PrepareReuses, OnlyActor, Record
  <2>2. d.current = Nobody /\ \A b \in Actors : ~InSetup(b)
    BY <1>3, RestIs DEF PrepareReuses, Admitted
  <2>3. d.relay # Nobody /\ d'.relay = d.relay
    BY <1>1, <1>3, <2>2, DriverIs DEF PrepareReuses, RelayTrue
  <2> QED BY <1>2, <2>1, <2>2, <2>3 DEF Within
<1>4. CASE PrepareReplaces(a)
  <2>1. /\ OnlyActor(a) /\ actor'[a].pc = "retiringOld"
    BY <1>1, <1>4 DEF PrepareReplaces, OnlyActor, Record
  <2>2. d.current = Nobody
    BY <1>4, RestIs DEF PrepareReplaces, Admitted
  <2> QED BY <1>2, <2>1, <2>2 DEF Within, Linked
<1>5. CASE PrepareWakes(a)
  <2>1. actor[a].pc = "reusing" /\ d' = d
    BY <1>5 DEF PrepareWakes
  <2>2. OnlyActor(a) /\ actor'[a].pc \in {"draining", "retiringOld"}
    <3>1. CASE proc[actor[a].client] = "up"
      BY <1>1, <1>5, <3>1 DEF PrepareWakes, OnlyActor, Record
    <3>2. CASE proc[actor[a].client] # "up"
      BY <1>1, <1>5, <3>2 DEF PrepareWakes, OnlyActor, Record
    <3> QED BY <3>1, <3>2
  <2>3. d.current = Nobody
    BY <2>1, SetupIs DEF Within
  <2> QED BY <1>2, <2>1, <2>2, <2>3 DEF Within, Linked, RelayTrue
<1>6. CASE PrepareAcquires(a)
  <2>1. actor[a].pc = "acquiring" /\ d' = d
    BY <1>6 DEF PrepareAcquires
  <2>2. OnlyActor(a) /\ actor'[a].pc = "draining"
    BY <1>1, <1>6 DEF PrepareAcquires, OnlyActor, Record
  <2>3. d.current = Nobody
    BY <2>1, SetupIs DEF Within
  <2> QED BY <1>2, <2>1, <2>2, <2>3 DEF Within, Linked, RelayTrue
<1>7. CASE DiscardTakes(a)
  <2>1. OnlyActor(a) /\ actor'[a].pc = "discarding"
    BY <1>1, <1>7 DEF DiscardTakes, OnlyActor, Record
  <2>2. d.current = Nobody
    BY <1>7, SetupIs DEF DiscardTakes, Within
  <2> QED BY <1>2, <2>1, <2>2 DEF Within, Linked
<1>8. CASE PreparePublishes(a)
  <2>1. actor[a].pc = "draining" /\ d'.relay = d.relay
    BY <1>1, <1>8, DriverIs DEF PreparePublishes
  <2>2. OnlyActor(a) /\ actor'[a].pc \in {"starting", "refreshed"}
    BY <1>1, <1>8, GoesOn DEF PreparePublishes, Places, Within
  <2>3. d.current = Nobody
    BY <2>1, SetupIs DEF Within
  <2> QED BY <1>2, <2>1, <2>2, <2>3 DEF Within, Linked, RelayTrue
<1>9. CASE PrepareListens(a)
  <2>1. actor[a].pc = "listening" /\ d'.relay # Nobody
    BY <1>1, <1>9, DriverIs DEF PrepareListens
  <2>2. OnlyActor(a) /\ actor'[a].pc = "acquiring"
    BY <1>1, <1>9, GoesOn DEF PrepareListens, Places, Within
  <2>3. d.current = Nobody
    BY <2>1, SetupIs DEF Within
  <2> QED BY <1>2, <2>1, <2>2, <2>3 DEF Within
<1>10. CASE PrepareRetiresOld(a) \/ PrepareFails(a) \/ StartFails(a) \/ DiscardCloses(a)
  <2>1. actor[a].pc \in Within /\ \E x \in {"failing", "listening", "resetting"} : Goes(a, x)
    BY <1>10 DEF PrepareRetiresOld, PrepareFails, StartFails, DiscardCloses, Within
  <2>2. OnlyActor(a) /\ actor'[a].pc \in {"failing", "listening", "resetting"}
    BY <1>1, <2>1, GoesOn DEF Places, Within
  <2>3. d.current = Nobody
    BY <2>1, SetupIs
  <2> QED BY <1>2, <2>2, <2>3 DEF Within, Linked
<1> QED BY <1>3, <1>4, <1>5, <1>6, <1>7, <1>8, <1>9, <1>10

LEMMA ResetsLocal ==
    ASSUME SessionInv, NEW a \in Actors, DiscardResets(a)
    PROVE  /\ OnlyActor(a) /\ actor'[a].pc = "discarded" /\ d.current = Nobody /\ InSetup(a)
           /\ UNCHANGED <<turn, closer, watcher>> /\ d'.client = Nobody /\ d'.relay = d.relay
<1>1. DriverTypeOK /\ actor[a].pc = "resetting" /\ UNCHANGED <<turn, closer, watcher>>
  BY DEF SessionInv, DiscardResets
<1>2. OnlyActor(a) /\ actor'[a].pc = "discarded"
  BY <1>1, GoesOn DEF DiscardResets, Places, After
<1>3. d'.client = Nobody /\ d'.relay = d.relay
  BY <1>1, DriverIs DEF DiscardResets
<1> QED BY <1>1, <1>2, <1>3, SetupIs DEF Within

LEMMA ModelsLocal ==
    ASSUME SessionInv, NEW r \in Refreshers, ModelsEnds(r)
    PROVE  /\ OnlyActor(r) /\ actor'[r].pc = "over" /\ ActorWaits(r)' /\ d.current = Nobody
           /\ actor[r].pc = "refreshed" /\ UNCHANGED <<turn, closer, watcher>> /\ d'.relay = d.relay
<1>1. DriverTypeOK /\ actor[r].pc = "refreshed" /\ UNCHANGED <<turn, closer, watcher>> /\ r \in Actors
  BY DEF SessionInv, ModelsEnds, Actors
<1>2. OnlyActor(r) /\ actor'[r].pc = "over" /\ ActorWaits(r)'
  BY <1>1, EndWaits DEF ModelsEnds
<1>3. d'.relay = d.relay
  BY <1>1, DriverIs DEF ModelsEnds
<1> QED BY <1>1, <1>2, <1>3, SetupIs DEF Within

\* A turn is settled a little further, ...
LEMMA SameFades == ASSUME SameTurns PROVE \A t \in Callers : TurnFades(t)
BY DEF SameTurns, TurnFades

LEMMA OneFades ==
    ASSUME NEW t \in Callers, OnlyTurn(t), TurnFades(t)
    PROVE  \A u \in Callers : TurnFades(u)
BY DEF OnlyTurn, TurnFades

LEMMA TurnsIs == ASSUME DriverTypeOK PROVE turn \in [Callers -> TurnRecord]
BY DEF DriverTypeOK, TurnTypes, TurnRecord

LEMMA AbortedFades ==
    ASSUME DriverTypeOK, NEW t \in Callers, turn' = aborted(t)
    PROVE  /\ \A u \in Callers : TurnFades(u)
           /\ turn[t].settle # "none" => turn'[t].settle \notin {"none", "open"}
<1>1. \A u \in Callers : TurnFades(u)
  BY AbortedIs, SameFades
<1>2. turn'[t].settle = IF turn[t].settle = "open" THEN "relay" ELSE turn[t].settle
  BY TurnsIs DEF aborted, TurnRecord
<1> QED BY <1>1, <1>2

\* ... by its retirement, or by what happens to its prompt.
LEMMA TurnsFade ==
    ASSUME DriverTypeOK, NEW t \in Callers,
           \/ AbortClosesRelay(t) \/ AbortClosesClient(t) \/ AbortSettles(t) \/ CompleteSettles(t)
           \/ ToolCall(t) \/ PromptFails(t) \/ PromptAborts(t) \/ Expires(t) \/ WatchAborts(t)
    PROVE  (\A u \in Callers : TurnFades(u)) /\ CallsStay /\ UNCHANGED <<actor, watcher, closer>>
<1>0. turn \in [Callers -> TurnRecord] /\ call \in [Launches -> {"none", "queued", "sealed", "delivered"}]
  BY TurnsIs DEF DriverTypeOK, LaunchTypes
<1>1. UNCHANGED <<actor, watcher, closer>>
  BY DEF AbortClosesRelay, AbortClosesClient, AbortSettles, CompleteSettles, ToolCall, PromptFails,
     PromptAborts, Expires, WatchAborts
<1>2. CASE AbortClosesRelay(t) \/ AbortClosesClient(t)
  <2>1. PICK x \in {"client", "join"} : turn' = [turn EXCEPT ![t].settle = x] /\ turn[t].settle \notin {"none", "open"}
    BY <1>2 DEF AbortClosesRelay, AbortClosesClient
  <2>2. OnlyTurn(t) /\ TurnFades(t)
    BY <1>0, <2>1 DEF OnlyTurn, TurnFades, TurnRecord
  <2>3. CallsStay
    BY <1>2 DEF AbortClosesRelay, AbortClosesClient, CallsStay, closeRelay
  <2> QED BY <1>1, <2>2, <2>3, OneFades
<1>3. CASE AbortSettles(t) \/ CompleteSettles(t)
  <2>1. /\ turn[t].settle \in {"join", "completing"}
        /\ turn' = [turn EXCEPT ![t].settle = "done",
                                ![t].delivery = IF d.current = t THEN Delivered(@) ELSE @]
        /\ UNCHANGED <<relay, call>>
    BY <1>3 DEF AbortSettles, CompleteSettles
  <2>2. OnlyTurn(t) /\ TurnFades(t)
    BY <1>0, <2>1 DEF OnlyTurn, TurnFades, TurnRecord, Delivered
  <2>3. CallsStay
    BY <2>1 DEF CallsStay
  <2> QED BY <1>1, <2>2, <2>3, OneFades
<1>4. CASE ToolCall(t)
  <2>1. UNCHANGED <<turn, relay>> /\ \A l \in Launches : call[l] # "none" => call'[l] # "none"
    BY <1>0, <1>4 DEF ToolCall
  <2>2. (\A u \in Callers : TurnFades(u)) /\ CallsStay
    BY <2>1 DEF TurnFades, CallsStay
  <2> QED BY <1>1, <2>2
<1>5. CASE PromptFails(t) \/ Expires(t)
  <2>1. UNCHANGED <<relay, call>>
    BY <1>5 DEF PromptFails, Expires
  <2>2. OnlyTurn(t) /\ TurnFades(t)
    BY <1>0, <1>5 DEF PromptFails, Expires, OnlyTurn, TurnFades, TurnRecord
  <2>3. CallsStay
    BY <2>1 DEF CallsStay
  <2> QED BY <1>1, <2>2, <2>3, OneFades
<1>6. CASE PromptAborts(t) \/ WatchAborts(t)
  <2>1. turn' = aborted(t) /\ UNCHANGED <<relay, call>>
    BY <1>6 DEF PromptAborts, WatchAborts
  <2>2. CallsStay
    BY <2>1 DEF CallsStay
  <2> QED BY <1>1, <2>1, <2>2, AbortedFades
<1> QED BY <1>2, <1>3, <1>4, <1>5, <1>6

LEMMA TurnWaitsOn ==
    ASSUME SessionInv, WaitTrue, NEW t \in Callers,
           \/ AbortClosesRelay(t) \/ AbortClosesClient(t) \/ AbortSettles(t) \/ CompleteSettles(t)
           \/ ToolCall(t) \/ PromptFails(t) \/ PromptAborts(t) \/ Expires(t) \/ WatchAborts(t)
    PROVE  WaitTrue'
<1>1. t \in Actors /\ DriverTypeOK
  BY DEF Actors, SessionInv
<1>2. (\A u \in Callers : TurnFades(u)) /\ CallsStay /\ UNCHANGED <<actor, watcher, closer>>
  BY <1>1, TurnsFade
<1>3. InRound(t) => InRound(t)' /\ actor'[t].turn = actor[t].turn
  BY <1>2 DEF InRound
<1> QED BY <1>1, <1>2, <1>3, ActorGoes

\* A prompt returns cleanly only while somebody handles a response of its turn.
LEMMA ReturnWaits ==
    ASSUME SessionInv, WaitTrue, NEW t \in Callers, PromptReturns(t)
    PROVE  WaitTrue'
<1>1. t \in Actors /\ DriverTypeOK /\ FieldTypes /\ turn \in [Callers -> TurnRecord]
  BY Fields, TurnsIs DEF Actors, SessionInv
<1> DEFINE clean == relay[turn[t].relay] = "open" /\ call[turn[t].relay] = "none"
<1>2. /\ turn[t].prompt = "running" /\ UNCHANGED <<actor, call, watcher, closer>>
      /\ turn' = [turn EXCEPT ![t].prompt = IF clean THEN "ok" ELSE "failed"]
      /\ relay' = [relay EXCEPT ![turn[t].relay] = IF @ = "open" /\ ~clean THEN "failed" ELSE @]
  BY DEF PromptReturns
<1>3. CallsStay
  <2>1. relay \in [Launches -> {"none", "open", "failed", "closed"}]
    BY <1>1 DEF DriverTypeOK, LaunchTypes
  <2>2. \A l \in Launches : relay[l] # "open" => relay'[l] # "open"
    BY <1>2, <2>1
  <2> QED BY <1>2, <2>2 DEF CallsStay
<1> HIDE DEF clean
<1>4. /\ OnlyTurn(t) /\ turn'[t].prompt = (IF clean THEN "ok" ELSE "failed")
      /\ turn'[t].settle = turn[t].settle /\ turn'[t].delivery = turn[t].delivery
      /\ turn'[t].relay = turn[t].relay
  BY <1>1, <1>2 DEF OnlyTurn, TurnRecord
<1>5. CASE ~clean
  <2>1. \A u \in Callers : TurnFades(u)
    BY <1>2, <1>4, <1>5, OneFades DEF TurnFades
  <2>2. InRound(t) => InRound(t)' /\ actor'[t].turn = actor[t].turn
    BY <1>2 DEF InRound
  <2> QED BY <1>1, <1>2, <1>3, <2>1, <2>2, ActorGoes
<1>6. CASE clean
  <2>1. \A u \in Callers : TurnLives(u)
    BY <1>4 DEF OnlyTurn, TurnLives
  <2>2. TurnWaits(t)'
    <3>1. TurnWaits(t) /\ turn[t].prompt # "none"
      BY <1>2 DEF WaitTrue
    <3>2. ASSUME turn[t].settle = "open" PROVE \E c \in Callers : InRound(c) /\ actor[c].turn = t
      BY <1>6, <3>1, <3>2 DEF TurnWaits, Attended, clean
    <3>3. turn'[t].settle = "open" => Attended(t)'
      BY <1>2, <1>4, <3>2 DEF Attended, InRound
    <3> QED BY <1>4, <1>6, <3>1, <3>3 DEF TurnWaits
  <2>3. ASSUME NEW u \in Callers \ {t} PROVE TurnWaits(u)'
    <3>1. TurnFades(u)
      BY <1>4 DEF OnlyTurn, TurnFades
    <3>2. ASSUME NEW c \in Callers, InRound(c), actor[c].turn = u PROVE InRound(c)' /\ actor'[c].turn = u
      BY <1>2, <3>2 DEF InRound
    <3> QED BY <1>1, <1>3, <3>1, <3>2, TurnStays DEF WaitTrue
  <2> QED BY <1>1, <1>2, <2>1, <2>2, <2>3, WaitFrame
<1> QED BY <1>5, <1>6

\* A round is given up, or completes its turn, and waits for the retirement.
LEMMA LeavesWaits ==
    ASSUME SessionInv, WaitTrue, NEW c \in Callers,
           RoundCancels(c) \/ FinishCompletes(c) \/ FinishTooLate(c)
    PROVE  WaitTrue' /\ OnlyActor(c) /\ ~InSetup(c) /\ ~InSetup(c)' /\ UNCHANGED d
<1>1. /\ actor[c].pc \in {"round", "ended"} /\ Goes(c, "settling")
      /\ UNCHANGED <<d, relay, call, watcher, closer>>
  BY DEF RoundCancels, FinishCompletes, FinishTooLate
<1>2. PICK t \in Callers : t = actor[c].turn
  BY <1>1, RoundIs
<1>3. /\ c \in Actors /\ DriverTypeOK /\ turn \in [Callers -> TurnRecord] /\ turn[t].settle # "none"
      /\ ActorWaits(c) /\ actor[c].pc \notin Joined
  BY <1>1, <1>2, TurnsIs DEF Actors, SessionInv, RoundTrue, WaitTrue, Joined, Within
<1>4. (\A u \in Callers : TurnFades(u)) /\ turn'[t].settle \notin {"none", "open"}
  <2>1. CASE turn' = aborted(t)
    BY <1>3, <2>1, AbortedFades
  <2>2. CASE turn' = [turn EXCEPT ![t].settle = IF @ = "open" THEN "completing" ELSE @]
    <3>1. OnlyTurn(t) /\ TurnFades(t) /\ turn'[t].settle \notin {"none", "open"}
      BY <1>3, <2>2 DEF OnlyTurn, TurnFades, TurnRecord
    <3> QED BY <3>1, OneFades
  <2> QED BY <1>2, <2>1, <2>2 DEF RoundCancels, FinishCompletes, FinishTooLate
<1>5. CallsStay
  BY <1>1 DEF CallsStay
<1>6. OnlyActor(c) /\ actor'[c].pc = "settling" /\ actor'[c].turn = t /\ actor'[c].setup = actor[c].setup
  BY <1>1, <1>2, <1>3, GoesOn DEF Places, After, SameLocals
<1>7. ActorWaits(c)'
  BY <1>3, <1>4, <1>6 DEF ActorWaits, Ending
<1>8. ~InSetup(c) /\ ~InSetup(c)'
  BY <1>1, <1>6 DEF InSetup, Within
<1> QED BY <1>1, <1>2, <1>3, <1>4, <1>5, <1>6, <1>7, <1>8, ActorGoes

LEMMA SealsWaits ==
    ASSUME SessionInv, WaitTrue, NEW c \in Callers, NextSeals(c)
    PROVE  WaitTrue' /\ OnlyActor(c) /\ ~InSetup(c) /\ ~InSetup(c)' /\ UNCHANGED d
<1>1. PICK t \in Callers : t = actor[c].turn
  BY RoundIs DEF NextSeals
<1>2. /\ actor[c].pc = "round" /\ UNCHANGED <<d, relay, watcher, closer>>
      /\ call' = [call EXCEPT ![turn[t].relay] = "sealed"]
      /\ turn' = [turn EXCEPT ![t].batches = @ + 1, ![t].ids = turn[t].batches + 1]
      /\ actor' = [actor EXCEPT ![c].batch = turn[t].batches + 1]
  BY <1>1 DEF NextSeals
<1>3. /\ c \in Actors /\ DriverTypeOK /\ turn \in [Callers -> TurnRecord] /\ actor \in [Actors -> Record]
      /\ call \in [Launches -> {"none", "queued", "sealed", "delivered"}] /\ ActorWaits(c)
  BY TurnsIs, ActorIs DEF Actors, SessionInv, WaitTrue, DriverTypeOK, LaunchTypes
<1>4. OnlyTurn(t) /\ TurnFades(t)
  BY <1>2, <1>3 DEF OnlyTurn, TurnFades, TurnRecord
<1>5. CallsStay
  BY <1>2, <1>3 DEF CallsStay
<1>6. OnlyActor(c) /\ actor'[c].pc = "round" /\ actor'[c].turn = t /\ actor'[c].setup = actor[c].setup
  BY <1>1, <1>2, <1>3 DEF OnlyActor, Record
<1>7. ActorWaits(c)' /\ InRound(c)' /\ ~InSetup(c) /\ ~InSetup(c)'
  BY <1>2, <1>3, <1>6 DEF ActorWaits, InRound, InSetup, Joined, Within
<1>8. \A u \in Callers : TurnFades(u)
  BY <1>4, OneFades
<1> QED BY <1>1, <1>2, <1>3, <1>5, <1>6, <1>7, <1>8, ActorGoes

\* A turn that gets a response, or a round of its own, is attended; nobody else was in a round of it
\* or it was the driver's only turn.
LEMMA EndsWaits ==
    ASSUME SessionInv, WaitTrue, NEW c \in Callers, NextEnds(c)
    PROVE  WaitTrue' /\ OnlyActor(c) /\ ~InSetup(c) /\ ~InSetup(c)' /\ UNCHANGED d
<1>1. PICK t \in Callers : t = actor[c].turn
  BY RoundIs DEF NextEnds
<1>2. /\ actor[c].pc = "round" /\ UNCHANGED <<d, relay, call, watcher, closer>> /\ Goes(c, "ended")
      /\ turn' = [turn EXCEPT ![t].delivery = "open"]
  BY <1>1 DEF NextEnds
<1>3. /\ c \in Actors /\ DriverTypeOK /\ turn \in [Callers -> TurnRecord] /\ ActorWaits(c)
      /\ actor[c].pc \notin Joined
  BY <1>2, TurnsIs DEF Actors, SessionInv, WaitTrue, Joined, Within
<1>4. /\ OnlyTurn(t) /\ turn'[t].settle = turn[t].settle /\ turn'[t].prompt = turn[t].prompt
      /\ turn'[t].relay = turn[t].relay /\ turn'[t].delivery = "open"
  BY <1>2, <1>3 DEF OnlyTurn, TurnRecord
<1>5. "ended" \in Places \ {"awaiting", "retiring", "settling"}
  BY DEF Places, After
<1>6. OnlyActor(c) /\ ActorWaits(c)' /\ actor'[c].pc = "ended" /\ actor'[c].turn = t
  BY <1>1, <1>2, <1>3, <1>5, GoWaits
<1>7. CallsStay /\ \A u \in Callers : TurnLives(u)
  BY <1>2, <1>4 DEF CallsStay, OnlyTurn, TurnLives
<1>8. TurnWaits(t)'
  BY <1>4, <1>6 DEF WaitTrue, TurnWaits, Attended, InRound
<1>9. ASSUME NEW u \in Callers \ {t} PROVE TurnWaits(u)'
  <2>1. TurnFades(u)
    BY <1>4 DEF OnlyTurn, TurnFades
  <2>2. ASSUME NEW b \in Callers, InRound(b), actor[b].turn = u PROVE InRound(b)' /\ actor'[b].turn = u
    BY <1>1, <1>6, <2>2 DEF InRound, OnlyActor, Actors
  <2> QED BY <1>3, <1>7, <2>1, <2>2, TurnStays DEF WaitTrue
<1>10. ~InSetup(c) /\ ~InSetup(c)'
  BY <1>2, <1>6 DEF InSetup, Within
<1> QED BY <1>2, <1>3, <1>6, <1>7, <1>8, <1>9, <1>10, WaitFrame

\* The turns that are not the driver's are not open.
LEMMA OthersRest ==
    ASSUME SessionInv, NEW t \in Callers, d.current = t \/ d.current = Nobody, NEW u \in Callers \ {t}
    PROVE  turn[u].settle # "open"
BY ActorsAssumption DEF SessionInv, TurnTrue, Active

LEMMA HandsWaits ==
    ASSUME SessionInv, WaitTrue, NEW c \in Callers, FinishHandsOff(c)
    PROVE  WaitTrue' /\ OnlyActor(c) /\ ~InSetup(c) /\ ~InSetup(c)' /\ d' = [d EXCEPT !.state = "waiting"]
<1>1. PICK t \in Callers : t = actor[c].turn
  BY RoundIs DEF FinishHandsOff
<1> DEFINE taken == relay[turn[t].relay] = "open" /\ call[turn[t].relay] = "sealed"
<1>2. /\ actor[c].pc = "ended" /\ UNCHANGED <<relay, watcher, closer>> /\ d.current = t /\ ~d.closed
      /\ d' = [d EXCEPT !.state = "waiting"]
  BY <1>1 DEF FinishHandsOff
<1>3. /\ c \in Actors /\ DriverTypeOK /\ FieldTypes /\ turn \in [Callers -> TurnRecord] /\ ActorWaits(c)
      /\ turn[t].settle # "none" /\ ~InSetup(c) /\ actor[c].pc \notin Joined
      /\ call \in [Launches -> {"none", "queued", "sealed", "delivered"}] /\ Nobody \notin Callers
  BY <1>1, <1>2, Fields, TurnsIs, ActorsAssumption DEF Actors, SessionInv, RoundTrue, WaitTrue, InSetup,
     Joined, Within, DriverTypeOK, LaunchTypes
<1>4. CASE taken
  <2>1. /\ call' = [call EXCEPT ![turn[t].relay] = "delivered"] /\ Ends(c)
        /\ turn' = [turn EXCEPT ![t].delivery = Delivered(@)]
    BY <1>1, <1>4 DEF FinishHandsOff
  <2>2. OnlyActor(c) /\ ActorWaits(c)' /\ actor'[c].pc = "over"
    BY <1>3, <2>1, EndWaits
  <2>3. /\ OnlyTurn(t) /\ turn'[t].settle = turn[t].settle /\ turn'[t].prompt = turn[t].prompt
        /\ turn'[t].relay = turn[t].relay /\ turn'[t].delivery # "open"
        /\ turn[t].delivery # "nil" => turn'[t].delivery # "nil"
    BY <1>3, <2>1 DEF OnlyTurn, TurnRecord, Delivered
  <2>4. turn[t].relay \in Launches /\ turn[t].relay # Nobody
    BY <1>3 DEF FieldTypes, Anything, WaitTrue, TurnWaits
  <2>5. turn[t].prompt # "ok"
    BY <1>2, <1>4, <2>4 DEF SessionInv, ToolTrue
  <2>6. call'[turn[t].relay] # "none"
    BY <1>3, <2>1, <2>4
  <2>7. TurnWaits(t)'
    BY <2>3, <2>5, <2>6 DEF WaitTrue, TurnWaits, Attended
  <2>8. \A u \in Callers \ {t} : TurnWaits(u)'
    BY <1>2, <2>3, OthersRest DEF OnlyTurn, TurnWaits, WaitTrue
  <2>9. \A u \in Callers : TurnLives(u)
    BY <2>3 DEF OnlyTurn, TurnLives
  <2> QED BY <1>2, <1>3, <2>2, <2>7, <2>8, <2>9, WaitFrame DEF InSetup, Within
<1>5. CASE ~taken
  <2>1. Goes(c, "settling") /\ turn' = aborted(t) /\ UNCHANGED call
    BY <1>1, <1>5 DEF FinishHandsOff
  <2>2. (\A u \in Callers : TurnFades(u)) /\ turn'[t].settle \notin {"none", "open"}
    BY <1>3, <2>1, AbortedFades
  <2>3. OnlyActor(c) /\ actor'[c].pc = "settling" /\ actor'[c].turn = t /\ actor'[c].setup = actor[c].setup
    BY <1>1, <1>3, <2>1, GoesOn DEF Places, After, SameLocals
  <2>4. ActorWaits(c)' /\ ~InSetup(c)'
    BY <1>3, <2>2, <2>3 DEF ActorWaits, Ending, InSetup, Within
  <2>5. CallsStay
    BY <1>2, <2>1 DEF CallsStay
  <2> QED BY <1>1, <1>2, <1>3, <2>2, <2>3, <2>4, <2>5, ActorGoes
<1> QED BY <1>4, <1>5

\* Results give the driver's turn its next round.
LEMMA ResumesWaits ==
    ASSUME SessionInv, WaitTrue, NEW c \in Callers, StartResumes(c)
    PROVE  WaitTrue' /\ OnlyActor(c) /\ ~InSetup(c) /\ ~InSetup(c)' /\ d' = [d EXCEPT !.state = "prompting"]
<1>1. PICK t \in Callers : t = d.current
  BY Fields DEF StartResumes, Resumable, Answers, SessionInv, FieldTypes, Someone
<1>2. /\ actor[c].pc = "routing" /\ UNCHANGED <<relay, watcher, closer>> /\ GetsRound(c, t)
      /\ turn' = [turn EXCEPT ![t].ids = 0] /\ d' = [d EXCEPT !.state = "prompting"]
  BY <1>1 DEF StartResumes
<1>3. c \in Actors /\ DriverTypeOK /\ turn \in [Callers -> TurnRecord]
  BY TurnsIs DEF Actors, SessionInv
<1>4. /\ OnlyTurn(t) /\ turn'[t].settle = turn[t].settle /\ turn'[t].prompt = turn[t].prompt
      /\ turn'[t].relay = turn[t].relay /\ turn'[t].delivery = turn[t].delivery
  BY <1>2, <1>3 DEF OnlyTurn, TurnRecord
<1>5. OnlyActor(c) /\ ActorWaits(c)' /\ actor'[c].pc = "round" /\ actor'[c].turn = t
  BY <1>2, <1>3, RoundWaits
<1>6. TurnWaits(t)'
  BY <1>4, <1>5 DEF WaitTrue, TurnWaits, Attended, InRound
<1>7. \A u \in Callers \ {t} : TurnWaits(u)'
  BY <1>1, <1>4, OthersRest DEF OnlyTurn, TurnWaits, WaitTrue
<1>8. \A u \in Callers : TurnLives(u)
  BY <1>4 DEF OnlyTurn, TurnLives
<1>9. ~InSetup(c) /\ ~InSetup(c)'
  BY <1>2, <1>5 DEF InSetup, Within
<1> QED BY <1>2, <1>3, <1>5, <1>6, <1>7, <1>8, <1>9, WaitFrame

LEMMA BeginsWaits ==
    ASSUME SessionInv, WaitTrue, RelayTrue, NEW c \in Callers, StartBegins(c)
    PROVE  WaitTrue' /\ OnlyActor(c) /\ ~InSetup(c)' /\ d'.relay # Nobody
<1>1. /\ actor[c].pc = "starting" /\ UNCHANGED <<relay, watcher, closer>> /\ GetsRound(c, c)
      /\ d' = [d EXCEPT !.client = actor[c].client, !.current = c, !.outcome = Nobody,
                        !.state = "prompting", !.fresh = FALSE]
      /\ turn' = [turn EXCEPT ![c] = [@ EXCEPT !.settle = "open", !.prompt = "running",
                                               !.client = actor[c].client, !.relay = d.relay,
                                               !.base = Base(c), !.count = actor[c].count]]
  BY DEF StartBegins
<1>2. /\ c \in Actors /\ DriverTypeOK /\ turn \in [Callers -> TurnRecord] /\ d.current = Nobody
      /\ turn[c].settle = "none" /\ d.relay # Nobody
  <2>1. c \in Actors /\ actor[c].pc \in Within
    BY <1>1 DEF Actors, Within
  <2> QED BY <1>1, <2>1, TurnsIs, SetupIs DEF SessionInv, RelayTrue, Linked
<1>3. /\ OnlyTurn(c) /\ turn'[c].settle = "open" /\ turn'[c].prompt = "running"
      /\ turn'[c].relay = d.relay /\ turn'[c].delivery = turn[c].delivery
  BY <1>1, <1>2 DEF OnlyTurn, TurnRecord
<1>4. OnlyActor(c) /\ ActorWaits(c)' /\ actor'[c].pc = "round" /\ actor'[c].turn = c
  BY <1>1, <1>2, RoundWaits
<1>5. TurnWaits(c)'
  BY <1>2, <1>3, <1>4 DEF TurnWaits, Attended, InRound
<1>6. \A u \in Callers \ {c} : TurnWaits(u)'
  BY <1>2, <1>3, OthersRest DEF OnlyTurn, TurnWaits, WaitTrue
<1>7. \A u \in Callers : TurnLives(u)
  BY <1>2, <1>3 DEF OnlyTurn, TurnLives
<1>8. d'.relay = d.relay
  BY <1>1, <1>2, DriverIs
<1>9. ~InSetup(c)'
  BY <1>4 DEF InSetup, Within
<1> QED BY <1>1, <1>2, <1>4, <1>5, <1>6, <1>7, <1>8, <1>9, WaitFrame

\* A request that replaces the driver's turn waits for its retirement.
LEMMA RetiresWaits ==
    ASSUME SessionInv, WaitTrue, NEW c \in Callers, StartAbandons(c) \/ StartDenies(c)
    PROVE  WaitTrue' /\ OnlyActor(c) /\ ~InSetup(c) /\ ~InSetup(c)' /\ UNCHANGED d
<1>1. /\ actor[c].pc = "routing" /\ UNCHANGED <<d, call, watcher, closer>>
      /\ c \in Actors /\ DriverTypeOK /\ actor \in [Actors -> Record] /\ ActorWaits(c)
      /\ ~InSetup(c) /\ ~actor[c].setup /\ ~InRound(c)
  <2>1. actor[c].pc = "routing" /\ UNCHANGED <<d, call, watcher, closer>>
    BY DEF StartAbandons, StartDenies
  <2>2. c \in Actors /\ DriverTypeOK /\ actor \in [Actors -> Record] /\ ActorWaits(c)
    BY ActorIs DEF SessionInv, Actors, WaitTrue
  <2> QED BY <2>1, <2>2 DEF ActorWaits, InSetup, InRound, Joined, Within
<1>2. /\ OnlyActor(c) /\ actor'[c].pc = "retiring" /\ actor'[c].setup = actor[c].setup
      /\ \/ d.current # Nobody /\ actor'[c].turn = d.current /\ turn' = aborted(d.current)
         \/ actor'[c].turn = Nobody /\ turn' = turn
  BY <1>1 DEF StartAbandons, StartDenies, Resumable, Answers, OnlyActor, Record
<1>3. CallsStay
  <2>1. relay' = relay \/ \E l \in Anything : relay' = [relay EXCEPT ![l] = "failed"]
    BY <1>1, Fields DEF StartAbandons, StartDenies, Resumable, Answers, FieldTypes, Someone
  <2>2. relay \in [Launches -> {"none", "open", "failed", "closed"}]
    BY <1>1 DEF DriverTypeOK, LaunchTypes
  <2> QED BY <1>1, <2>1, <2>2 DEF CallsStay
<1>4. ~InSetup(c)'
  BY <1>2 DEF InSetup, Within
<1>5. CASE d.current # Nobody /\ actor'[c].turn = d.current /\ turn' = aborted(d.current)
  <2>1. d.current \in Callers /\ turn[d.current].settle # "none"
    BY <1>1, <1>5, Fields DEF SessionInv, TurnTrue, Active, FieldTypes, Someone
  <2>2. (\A u \in Callers : TurnFades(u)) /\ turn'[d.current].settle \notin {"none", "open"}
    BY <1>1, <1>5, <2>1, AbortedFades
  <2>3. ActorWaits(c)'
    BY <1>1, <1>2, <1>5, <2>2 DEF ActorWaits, Ending
  <2> QED BY <1>1, <1>2, <1>3, <1>4, <2>2, <2>3, ActorGoes
<1>6. CASE actor'[c].turn = Nobody /\ turn' = turn
  <2>1. \A u \in Callers : TurnFades(u)
    BY <1>6 DEF TurnFades
  <2>2. ActorWaits(c)'
    BY <1>1, <1>2, <1>6 DEF ActorWaits, Ending
  <2> QED BY <1>1, <1>2, <1>3, <1>4, <2>1, <2>2, ActorGoes
<1> QED BY <1>2, <1>5, <1>6

\* A watch, or Close, that retires the driver's turn waits for the retirement.
LEMMA AbortsCurrent ==
    ASSUME SessionInv, WaitTrue, NEW t \in {d.current, Nobody}, UNCHANGED <<relay, call, actor>>,
           turn' = IF t = Nobody THEN turn ELSE aborted(t)
    PROVE  /\ \A u \in Callers : TurnWaits(u)' /\ TurnLives(u)
           /\ t # Nobody => turn'[t].settle \notin {"none", "open"}
<1>1. DriverTypeOK /\ FieldTypes
  BY Fields DEF SessionInv
<1>2. (\A u \in Callers : TurnFades(u)) /\ (t # Nobody => turn'[t].settle \notin {"none", "open"})
  <2>1. CASE t = Nobody
    BY <2>1 DEF TurnFades
  <2>2. CASE t # Nobody
    <3>1. t \in Callers /\ turn[t].settle # "none" /\ turn' = aborted(t)
      BY <1>1, <2>2 DEF SessionInv, TurnTrue, Active, FieldTypes, Someone
    <3> QED BY <1>1, <3>1, AbortedFades
  <2> QED BY <2>1, <2>2
<1>3. CallsStay
  BY DEF CallsStay
<1>4. \A u \in Callers : TurnWaits(u)'
  BY <1>1, <1>2, <1>3, TurnStays DEF WaitTrue, InRound
<1> QED BY <1>2, <1>4, FadesLives

LEMMA WatchWaits ==
    ASSUME SessionInv, WaitTrue, NEW l \in Launches, WatcherStep(l)
    PROVE  WaitTrue'
<1>1. l \in Actors /\ DriverTypeOK /\ UNCHANGED <<actor, closer>>
  BY DEF SessionInv, Launches, WatcherStep, WatcherWakes, WatcherClears, WatcherCloses
<1>2. watcher \in [Launches -> WatchRecord]
  BY <1>1 DEF DriverTypeOK, OtherTypes, WatchRecord
<1>3. CASE WatcherWakes(l)
  <2> DEFINE t == IF d.client = l THEN d.current ELSE Nobody
  <2>1. /\ watcher' = [watcher EXCEPT ![l].pc = "aborting", ![l].current = t]
        /\ turn' = (IF t = Nobody THEN turn ELSE aborted(t)) /\ UNCHANGED <<relay, call, actor>>
    BY <1>3 DEF WatcherWakes
  <2>2. t \in {d.current, Nobody}
    OBVIOUS
  <2> HIDE DEF t
  <2>3. /\ \A u \in Callers : TurnWaits(u)' /\ TurnLives(u)
        /\ t # Nobody => turn'[t].settle \notin {"none", "open"}
    BY <2>1, <2>2, AbortsCurrent
  <2>4. watcher'[l].current = t /\ \A k \in Launches \ {l} : watcher'[k] = watcher[k]
    BY <1>2, <2>1 DEF WatchRecord
  <2>5. Ending(watcher[l].current)'
    BY <2>3, <2>4 DEF Ending
  <2> QED BY <1>1, <2>3, <2>4, <2>5, WaitFrame
<1>4. CASE WatcherClears(l) \/ WatcherCloses(l)
  <2>1. UNCHANGED <<turn, call>> /\ (relay' = relay \/ \E r \in Anything : closeRelay(r))
    BY <1>1, <1>4, Fields DEF WatcherClears, WatcherCloses, FieldTypes
  <2>2. \A k \in Launches : watcher'[k].pc = "aborting" => watcher'[k] = watcher[k]
    BY <1>2, <1>4 DEF WatcherClears, WatcherCloses, WatchRecord
  <2>3. CallsStay
    BY <2>1 DEF CallsStay, closeRelay
  <2>4. (\A u \in Callers : TurnFades(u)) /\ \A u \in Callers : TurnLives(u)
    BY <2>1 DEF TurnFades, TurnLives
  <2>5. \A u \in Callers : TurnWaits(u)'
    BY <1>1, <2>3, <2>4, TurnStays DEF WaitTrue, InRound
  <2> QED BY <1>1, <2>2, <2>4, <2>5, WaitFrame
<1> QED BY <1>3, <1>4 DEF WatcherStep

LEMMA LossWaits ==
    ASSUME SessionInv, WaitTrue, NEW l \in Launches, RelayFails(l) \/ ProcessDies(l)
    PROVE  WaitTrue'
<1>1. l \in Actors /\ DriverTypeOK /\ UNCHANGED <<actor, turn, call, watcher, closer>>
  BY DEF SessionInv, Launches, RelayFails, ProcessDies
<1>2. CallsStay
  <2>1. relay \in [Launches -> {"none", "open", "failed", "closed"}]
    BY <1>1 DEF DriverTypeOK, LaunchTypes
  <2> QED BY <1>1, <2>1 DEF CallsStay, RelayFails, ProcessDies
<1>3. \A u \in Callers : TurnFades(u)
  BY <1>1 DEF TurnFades
<1> QED BY <1>1, <1>2, <1>3, ActorGoes DEF InRound

LEMMA CloseWaits ==
    ASSUME SessionInv, WaitTrue, NEW a \in Actors, CloseBegins \/ EvictBegins \/ CloseStep
    PROVE  WaitTrue'
<1>1. DriverTypeOK /\ FieldTypes /\ UNCHANGED <<actor, watcher, call>>
  BY Fields DEF SessionInv, CloseBegins, EvictBegins, CloseStep, CloseReleases, CloseReturns, EvictReleases,
     EvictReturns
<1>2. CASE CloseBegins
  <2>1. /\ turn' = (IF d.current = Nobody THEN turn ELSE aborted(d.current)) /\ UNCHANGED <<relay, call, actor>>
        /\ closer'.current = d.current
    BY <1>2 DEF CloseBegins
  <2>2. /\ \A u \in Callers : TurnWaits(u)' /\ TurnLives(u)
        /\ d.current # Nobody => turn'[d.current].settle \notin {"none", "open"}
    BY <2>1, AbortsCurrent
  <2>3. Ending(closer.current)'
    BY <2>1, <2>2 DEF Ending
  <2> QED BY <1>1, <2>2, <2>3, WaitFrame
<1>3. CASE EvictBegins \/ CloseStep
  <2>1. UNCHANGED turn /\ (relay' = relay \/ \E r \in Anything : closeRelay(r))
    BY <1>1, <1>3 DEF EvictBegins, CloseStep, CloseReleases, CloseReturns, EvictReleases, EvictReturns,
       FieldTypes
  <2>2. closer'.current = closer.current
    <3>1. closer \in CloseRecord
      BY <1>1 DEF DriverTypeOK, OtherTypes, CloseRecord
    <3> QED BY <1>3, <3>1 DEF EvictBegins, CloseStep, CloseReleases, CloseReturns, EvictReleases,
         EvictReturns, CloseRecord
  <2>3. CallsStay
    BY <1>1, <2>1 DEF CallsStay, closeRelay
  <2>4. (\A u \in Callers : TurnFades(u)) /\ \A u \in Callers : TurnLives(u)
    BY <2>1 DEF TurnFades, TurnLives
  <2>5. \A u \in Callers : TurnWaits(u)'
    BY <1>1, <2>3, <2>4, TurnStays DEF WaitTrue, InRound
  <2> QED BY <1>1, <2>2, <2>4, <2>5, WaitFrame
<1> QED BY <1>2, <1>3

\* A relay is given up together with its process, or by a setup before it gets another one.
LEMMA RelayStays ==
    ASSUME RelayTrue, UNCHANGED actor, d'.client = d.client, d'.relay = d.relay
    PROVE  RelayTrue'
BY DEF RelayTrue, InSetup

LEMMA RelayLocal ==
    ASSUME RelayTrue, NEW a \in Actors, OnlyActor(a), ~InSetup(a), ~InSetup(a)',
           d'.client = d.client, d'.relay = d.relay
    PROVE  RelayTrue'
<1>1. \A b \in Actors : (InSetup(b)' <=> InSetup(b)) /\ (actor'[b].pc \in Linked => actor[b].pc \in Linked)
  BY DEF OnlyActor, InSetup, Linked, Within
<1> QED BY <1>1 DEF RelayTrue

LEMMA RelaySetup ==
    ASSUME SessionInv', NEW a \in Actors, actor'[a].pc \in Within,
           actor'[a].pc \in Linked => d'.relay # Nobody
    PROVE  RelayTrue'
<1>1. InSetup(a)' /\ \A b \in Actors : InSetup(b)' => b = a
  BY DEF SessionInv, SetupTrue, InSetup
<1>2. Linked \subseteq Within
  BY DEF Linked, Within
<1> QED BY <1>1, <1>2 DEF RelayTrue, InSetup

\* Both are given up while nobody sets a session up.
LEMMA RelayLeaves ==
    ASSUME UNCHANGED actor, d'.client = Nobody, \A b \in Actors : ~InSetup(b)
    PROVE  RelayTrue'
<1>1. Linked \subseteq Within
  BY DEF Linked, Within
<1> QED BY <1>1 DEF RelayTrue, InSetup

LEMMA RelayTurns ==
    ASSUME SessionInv, RelayTrue, NEW t \in Callers, TurnStep(t) \/ PromptStep(t)
    PROVE  RelayTrue'
<1>1. DriverTypeOK /\ UNCHANGED actor
  BY DEF SessionInv, TurnStep, AbortClosesRelay, AbortClosesClient, AbortSettles, CompleteSettles, PromptStep,
     ToolCall, PromptReturns, PromptFails, PromptAborts, Expires, WatchAborts
<1>2. CASE AbortSettles(t)
  <2>1. d.current = t /\ \A b \in Actors : ~InSetup(b)
    BY <1>2, ActorsAssumption DEF SessionInv, TurnTrue, SetupTrue, Active, AbortSettles
  <2>2. d'.client = Nobody
    BY <1>1, <1>2, <2>1, DriverIs DEF AbortSettles
  <2> QED BY <1>1, <2>1, <2>2, RelayLeaves
<1>3. CASE ~AbortSettles(t)
  <2>1. d'.client = d.client /\ d'.relay = d.relay
    <3>1. CASE CompleteSettles(t)
      BY <1>1, <3>1, DriverIs DEF CompleteSettles
    <3>2. CASE AbortClosesClient(t)
      BY <1>1, <3>2, NoteIs DEF AbortClosesClient, SameDriver
    <3>3. CASE AbortClosesRelay(t) \/ PromptStep(t)
      BY <3>3 DEF AbortClosesRelay, PromptStep, ToolCall, PromptReturns, PromptFails, PromptAborts, Expires,
         WatchAborts
    <3> QED BY <1>3, <3>1, <3>2, <3>3 DEF TurnStep
  <2> QED BY <1>1, <2>1, RelayStays
<1> QED BY <1>2, <1>3

LEMMA RelayWatches ==
    ASSUME SessionInv, RelayTrue, NEW l \in Launches, WatcherStep(l) \/ RelayFails(l) \/ ProcessDies(l)
    PROVE  RelayTrue'
<1>1. DriverTypeOK /\ UNCHANGED actor
  BY DEF SessionInv, WatcherStep, WatcherWakes, WatcherClears, WatcherCloses, RelayFails, ProcessDies
<1>2. CASE WatcherClears(l) /\ d.state = "idle" /\ d.client = l
  <2>1. \A b \in Actors : ~InSetup(b)
    BY <1>2 DEF SessionInv, SetupTrue
  <2>2. d'.client = Nobody
    BY <1>1, <1>2, DriverIs DEF WatcherClears
  <2> QED BY <1>1, <2>1, <2>2, RelayLeaves
<1>3. CASE ~(WatcherClears(l) /\ d.state = "idle" /\ d.client = l)
  <2>1. d'.client = d.client /\ d'.relay = d.relay
    <3>1. CASE WatcherCloses(l)
      BY <1>1, <3>1, NoteIs DEF WatcherCloses, SameDriver
    <3>2. CASE WatcherClears(l) \/ WatcherWakes(l) \/ RelayFails(l) \/ ProcessDies(l)
      BY <1>3, <3>2 DEF WatcherClears, WatcherWakes, RelayFails, ProcessDies
    <3> QED BY <3>1, <3>2 DEF WatcherStep
  <2> QED BY <1>1, <2>1, RelayStays
<1> QED BY <1>2, <1>3

LEMMA RelayCloses ==
    ASSUME SessionInv, RelayTrue, CloseBegins \/ EvictBegins \/ CloseStep
    PROVE  RelayTrue'
<1>1. DriverTypeOK /\ UNCHANGED actor
  BY DEF SessionInv, CloseBegins, EvictBegins, CloseStep, CloseReleases, CloseReturns, EvictReleases,
     EvictReturns
<1>2. CASE EvictBegins
  <2>1. \A b \in Actors : ~InSetup(b)
    BY <1>2, RestIs DEF EvictBegins
  <2>2. d'.client = Nobody
    BY <1>1, <1>2, DriverIs DEF EvictBegins
  <2> QED BY <1>1, <2>1, <2>2, RelayLeaves
<1>3. CASE CloseReleases \/ EvictReleases
  BY <1>1, <1>3, NoteIs, RelayStays DEF CloseReleases, EvictReleases, SameDriver
<1>4. CASE CloseBegins \/ CloseReturns \/ EvictReturns
  <2>1. d'.client = d.client /\ d'.relay = d.relay
    BY <1>1, <1>4, DriverIs DEF CloseBegins, CloseReturns, EvictReturns
  <2> QED BY <1>1, <2>1, RelayStays
<1> QED BY <1>2, <1>3, <1>4 DEF CloseStep

LEMMA CallersWait ==
    ASSUME SessionInv, WaitTrue, RelayTrue, NEW c \in Callers,
           \/ StartEnters(c) \/ StartBusy(c) \/ StartGivesUp(c) \/ StartStep(c)
           \/ HandlerStep(c) \/ TurnStep(c) \/ PromptStep(c)
    PROVE  WaitTrue' /\ RelayTrue'
<1>1. c \in Actors /\ DriverTypeOK
  BY DEF Actors, SessionInv
<1>2. CASE \/ StartEnters(c) \/ StartBusy(c) \/ Leaves(c) \/ StartReadsDelivery(c)
           \/ StartGivesUp(c) \/ StartAwaited(c) \/ StartChecksBusy(c) \/ StartOrdinary(c)
           \/ StartToldOutcome(c) \/ StartFindsExpired(c) \/ StartRetired(c) \/ StartPlans(c)
           \/ RoundOver(c)
  BY <1>1, <1>2, StartLocal, LocalWaits, RelayLocal
<1>3. CASE StartResumes(c)
  <2>1. d'.client = d.client /\ d'.relay = d.relay
    BY <1>1, <1>3, ResumesWaits, DriverIs
  <2> QED BY <1>1, <1>3, <2>1, ResumesWaits, RelayLocal
<1>4. CASE StartBegins(c)
  BY <1>4, BeginsWaits DEF RelayTrue
<1>5. CASE StartAbandons(c) \/ StartDenies(c)
  BY <1>1, <1>5, RetiresWaits, RelayLocal
<1>6. CASE RoundCancels(c) \/ FinishCompletes(c) \/ FinishTooLate(c)
  BY <1>1, <1>6, LeavesWaits, RelayLocal
<1>7. CASE NextSeals(c)
  BY <1>1, <1>7, SealsWaits, RelayLocal
<1>8. CASE NextEnds(c)
  BY <1>1, <1>8, EndsWaits, RelayLocal
<1>9. CASE FinishHandsOff(c)
  <2>1. d'.client = d.client /\ d'.relay = d.relay
    BY <1>1, <1>9, HandsWaits, DriverIs
  <2> QED BY <1>1, <1>9, <2>1, HandsWaits, RelayLocal
<1>10. CASE TurnStep(c) \/ PromptStep(c)
  BY <1>10, TurnWaitsOn, ReturnWaits, RelayTurns DEF TurnStep, PromptStep
<1> QED BY <1>2, <1>3, <1>4, <1>5, <1>6, <1>7, <1>8, <1>9, <1>10 DEF StartStep, HandlerStep

LEMMA SetupsWait ==
    ASSUME SessionInv, SessionInv', WaitTrue, RelayTrue, NEW a \in Actors,
           PrepareStep(a) \/ (a \in Refreshers /\ (ModelsEnters(a) \/ ModelsEnds(a)))
    PROVE  WaitTrue' /\ RelayTrue'
<1>1. CASE PrepareRefused(a) \/ DiscardEnds(a) \/ (a \in Refreshers /\ ModelsEnters(a))
  BY <1>1, ReturnLocal, LocalWaits, RelayLocal
<1>2. CASE \/ PrepareReuses(a) \/ PrepareWakes(a) \/ PrepareReplaces(a) \/ PrepareRetiresOld(a)
           \/ PrepareFails(a) \/ PrepareListens(a) \/ PrepareAcquires(a) \/ PreparePublishes(a)
           \/ StartFails(a) \/ DiscardTakes(a) \/ DiscardCloses(a)
  <2>1. /\ OnlyActor(a) /\ actor'[a].pc \in Within /\ d.current = Nobody
        /\ actor'[a].pc \in Linked => d'.relay # Nobody
        /\ UNCHANGED <<turn, closer>> /\ (watcher' = watcher \/ watcher' = [watcher EXCEPT ![a].pc = "watching"])
    BY <1>2, SetupLocal
  <2>2. ActorWaits(a)'
    BY <2>1 DEF ActorWaits, Joined, Within
  <2> QED BY <2>1, <2>2, SetupWaits, RelaySetup
<1>3. CASE DiscardResets(a)
  <2>1. /\ OnlyActor(a) /\ actor'[a].pc = "discarded" /\ d.current = Nobody
        /\ UNCHANGED <<turn, closer, watcher>> /\ d'.client = Nobody /\ d'.relay = d.relay
    BY <1>3, ResetsLocal
  <2>2. ActorWaits(a)'
    BY <2>1 DEF ActorWaits, Joined, Within
  <2>3. RelayTrue'
    BY <2>1 DEF RelayTrue, OnlyActor, Linked
  <2> QED BY <2>1, <2>2, <2>3, SetupWaits
<1>4. CASE a \in Refreshers /\ ModelsEnds(a)
  <2>1. /\ OnlyActor(a) /\ ActorWaits(a)' /\ d.current = Nobody /\ actor[a].pc = "refreshed"
        /\ UNCHANGED <<turn, closer, watcher>> /\ d'.relay = d.relay
    BY <1>4, ModelsLocal
  <2>2. RelayTrue'
    BY <2>1 DEF RelayTrue, Linked
  <2> QED BY <2>1, <2>2, SetupWaits
<1> QED BY <1>1, <1>2, <1>3, <1>4 DEF PrepareStep

LEMMA WaitNext ==
    ASSUME SessionInv, SessionInv', WaitTrue, RelayTrue, [Next]_vars
    PROVE  WaitTrue' /\ RelayTrue'
<1>1. ASSUME NEW c \in Callers,
             \/ StartEnters(c) \/ StartBusy(c) \/ StartGivesUp(c) \/ StartStep(c)
             \/ HandlerStep(c) \/ TurnStep(c) \/ PromptStep(c)
      PROVE  WaitTrue' /\ RelayTrue'
  BY <1>1, CallersWait
<1>2. ASSUME NEW r \in Refreshers, ModelsEnters(r) \/ ModelsEnds(r) PROVE WaitTrue' /\ RelayTrue'
  <2>1. r \in Actors
    BY DEF Actors
  <2> QED BY <1>2, <2>1, SetupsWait
<1>3. ASSUME NEW a \in Actors, PrepareStep(a) PROVE WaitTrue' /\ RelayTrue'
  BY <1>3, SetupsWait
<1>4. ASSUME NEW l \in Launches, WatcherStep(l) \/ RelayFails(l) \/ ProcessDies(l)
      PROVE  WaitTrue' /\ RelayTrue'
  BY <1>4, WatchWaits, LossWaits, RelayWatches
<1>5. CASE CloseBegins \/ EvictBegins \/ CloseStep
  <2>1. RelayTrue'
    BY <1>5, RelayCloses
  <2>2. CASE \E a \in Actors : TRUE
    BY <1>5, <2>1, <2>2, CloseWaits
  <2>3. CASE Actors = {}
    <3>1. closer'.current \in Someone /\ Callers = {}
      BY <2>3 DEF SessionInv, DriverTypeOK, OtherTypes, Actors
    <3> QED BY <2>1, <2>3, <3>1 DEF WaitTrue, Ending, Someone, Launches
  <2> QED BY <2>2, <2>3
<1>6. CASE UNCHANGED vars
  BY <1>6 DEF vars, WaitTrue, RelayTrue, TurnWaits, Attended, ActorWaits, Ending, InRound, InSetup
<1> QED BY <1>1, <1>2, <1>3, <1>4, <1>5, <1>6 DEF Next

LEMMA WaitInit == Init => WaitTrue /\ RelayTrue
<1> SUFFICES ASSUME Init PROVE WaitTrue /\ RelayTrue
  OBVIOUS
<1>1. /\ \A a \in Actors : actor[a].pc = "outside" /\ actor[a].setup = FALSE
      /\ \A t \in Callers : turn[t].settle = "none"
      /\ \A l \in Launches : watcher[l].pc = "off"
      /\ closer.current = Nobody /\ d.client = Nobody
  BY DEF Init, Locals
<1> QED BY <1>1 DEF WaitTrue, RelayTrue, TurnWaits, ActorWaits, Ending, Linked

LEMMA WaitAlways == Spec => [](SessionInv /\ WaitTrue /\ RelayTrue)
<1>1. SessionInv /\ SessionInv' /\ WaitTrue /\ RelayTrue /\ [Next]_vars => WaitTrue' /\ RelayTrue'
  BY WaitNext
<1> QED BY <1>1, WaitInit, SessionAlways, PTL DEF Spec

\* Where no guard holds nobody waits, and no turn is lost.
LEMMA WorkOrRest ==
    ASSUME SessionInv, WaitTrue, ~AtWork
    PROVE  AtRest
<1>1. /\ DriverTypeOK /\ FieldTypes /\ Nobody \notin Actors /\ Callers \subseteq Actors
      /\ \A a \in Actors : ~ActorAtWork(a) /\ ActorWaits(a)
      /\ \A t \in Callers : ~TurnAtWork(t) /\ TurnWaits(t)
      /\ \A l \in Launches : ~WatchAtWork(l)
      /\ ~CloseAtWork
  BY Fields, ActorsAssumption DEF SessionInv, WaitTrue, AtWork, Actors
<1>2. ASSUME NEW t \in Callers PROVE turn[t].settle \in {"none", "open", "done"}
  <2>1. turn[t] \in TurnRecord
    BY <1>1, TurnIs
  <2>2. turn[t].settle # "join"
    BY <1>1, <2>1 DEF TurnAtWork, TurnWaits, TurnRecord
  <2> QED BY <1>1, <2>1, <2>2 DEF TurnAtWork, TurnRecord
<1>3. ASSUME NEW x \in Someone, Ending(x) PROVE Settled(x)
  BY <1>2, <1>3 DEF Ending, Settled, Someone
<1>4. \A c \in Callers : ~InRound(c)
  BY <1>1 DEF ActorAtWork, InRound
<1>5. ASSUME NEW t \in Callers, turn[t].settle = "open"
      PROVE  turn[t].prompt # "ok" /\ turn[t].delivery # "open"
  BY <1>1, <1>4, <1>5 DEF TurnWaits, Attended
<1>6. ASSUME NEW a \in Actors PROVE actor[a].pc \in {"outside", "over"}
  <2>1. actor[a].turn \in Someone
    BY <1>1 DEF FieldTypes
  <2>2. actor[a].pc \in {"outside", "over", "awaiting"}
    BY <1>1, <1>3, <2>1 DEF ActorAtWork, ActorWaits
  <2>3. ASSUME actor[a].pc = "awaiting" PROVE FALSE
    <3>1. PICK t \in Callers : t = actor[a].turn /\ turn[t].delivery # "nil"
      BY <1>1, <2>1, <2>3 DEF ActorWaits, Someone
    <3>2. turn[t].delivery = "open"
      <4>1. turn[t] \in TurnRecord
        BY <1>1, TurnIs
      <4> QED BY <1>1, <2>3, <3>1, <4>1 DEF ActorAtWork, TurnRecord
    <3>3. turn[t].settle = "open"
      BY <1>2, <3>2 DEF SessionInv, ToolTrue, TurnTrue, Active
    <3> QED BY <1>5, <3>2, <3>3
  <2> QED BY <2>2, <2>3
<1>7. ASSUME NEW t \in Callers, turn[t].settle = "open" PROVE ~Lost(t)
  <2>1. turn[t] \in TurnRecord
    BY <1>1, TurnIs
  <2>2. turn[t].prompt = "running"
    BY <1>1, <1>5, <1>7, <2>1 DEF TurnWaits, TurnAtWork, TurnRecord
  <2> QED BY <1>1, <1>7, <2>2 DEF Lost, TurnAtWork
<1>8. ASSUME closer.pc = "joining" \/ evictor.pc = "joining" PROVE Unwatched
  <2>1. closer.pc = "aborting" => FALSE
    BY <1>1, <1>3 DEF CloseAtWork, WaitTrue, FieldTypes
  <2>2. /\ evictor.pc = "joining" => d.client = Nobody /\ d.current = Nobody
        /\ closer.pc = "joining" => /\ d.client \in {Nobody, closer.client} /\ GoneP(closer.client)
                                    /\ d.current \in {Nobody, closer.current} /\ Settled(closer.current)
    BY DEF SessionInv, CloseTrue, EvictTrue
  <2>3. d.current = Nobody
    BY <1>1, <1>8, <2>2 DEF SessionInv, TurnTrue, Active, Settled, FieldTypes, Someone
  <2>4. GoneP(d.client)
    BY <1>8, <2>2 DEF GoneP
  <2>5. ASSUME NEW l \in Launches PROVE proc[l] # "up"
    <3>1. l # Nobody /\ evictor.pc # "closing"
      BY <1>1 DEF Launches, CloseAtWork
    <3>2. \A t \in Callers : turn[t].settle \notin {"open", "relay", "client"}
      BY <1>1, <2>3 DEF SessionInv, TurnTrue, Active
    <3>3. d.client = l => proc[l] # "up"
      BY <2>4, <3>1 DEF GoneP
    <3> QED BY <1>6, <2>1, <3>1, <3>2, <3>3 DEF SessionInv, OwnedTrue, OwnsP
  <2>6. ASSUME NEW l \in Launches PROVE watcher[l].pc \in {"off", "done"}
    <3>1. watcher[l] \in WatchRecord
      BY <1>1 DEF DriverTypeOK, OtherTypes, WatchRecord
    <3>2. watcher[l].pc # "aborting"
      BY <1>1, <1>3 DEF WatchAtWork, WaitTrue, FieldTypes
    <3> QED BY <1>1, <2>5, <3>1, <3>2 DEF WatchAtWork, WatchRecord
  <2> QED BY <2>6 DEF Unwatched
<1>9. evictor.pc \in {"no", "done"}
  BY <1>1, <1>8 DEF CloseAtWork, DriverTypeOK, OtherTypes
<1>10. closer.pc \in {"no", "done"}
  <2>1. closer \in CloseRecord
    BY <1>1 DEF DriverTypeOK, OtherTypes, CloseRecord
  <2>2. closer.pc # "aborting"
    BY <1>1, <1>3 DEF CloseAtWork, WaitTrue, FieldTypes
  <2>3. closer.setup # Nobody => ~actor[closer.setup].setup
    <3>1. closer.setup \in Anything
      BY <1>1 DEF FieldTypes
    <3>2. \A a \in Actors : ~actor[a].setup
      BY <1>1, <1>6 DEF ActorWaits, Joined, Within, DriverTypeOK, ActorTypes
    <3> QED BY <3>1, <3>2 DEF Anything, Launches
  <2> QED BY <1>1, <1>8, <1>9, <2>1, <2>2, <2>3 DEF CloseAtWork, CloseRecord
<1> QED BY <1>6, <1>7, <1>9, <1>10 DEF AtRest

\* Nobody waits for nobody: at any time one of the guards in AtWork holds, so that the driver can go
\* on by itself, or every Start has returned, no turn is lost, and Close and CloseIdle have ended;
\* whatever died, failed, expired or was closed meanwhile.
THEOREM SessionGoesOn == Spec => [](AtWork \/ AtRest)
<1>1. SessionInv /\ WaitTrue /\ RelayTrue => AtWork \/ AtRest
  BY WorkOrRest
<1> QED BY <1>1, WaitAlways, PTL

----------------------------------------------------------------------------
(* The history a driver plans its requests against.  Its operators recur   *)
(* over sequences; each recursion is shown well defined for every length,  *)
(* and what it computes, by a smallest counterexample.                     *)

\* A set with 0 and, up to n, the successor of each of its numbers.
LEMMA SetInduction ==
    ASSUME NEW n \in Nat, NEW S, 0 \in S, \A k \in 1..n : k - 1 \in S => k \in S
    PROVE  0..n \subseteq S
<1> DEFINE bad == {k \in 0..n : k \notin S}
<1>1. SUFFICES ASSUME bad # {} PROVE FALSE
  OBVIOUS
<1>2. PICK k \in bad : \A j \in bad : <<j, k>> \notin OpToRel(<, Nat)
  <2>1. bad \subseteq Nat
    OBVIOUS
  <2> QED BY <1>1, <2>1, WFMin, NatLessThanWellFounded
<1>3. k \in 1..n /\ k - 1 \in 0..n /\ k - 1 \in Nat
  OBVIOUS
<1>4. <<k - 1, k>> \in OpToRel(<, Nat)
  BY <1>3 DEF OpToRel
<1>5. k - 1 \notin bad
  BY <1>2, <1>4
<1> QED BY <1>3, <1>5

\* Max is what its name says, for every set of numbers up to n.
LEMMA MaxIs ==
    ASSUME NEW n \in Nat, NEW S, S \subseteq 0..n, S # {}
    PROVE  Max(S) \in S /\ \A y \in S : Max(S) >= y
<1> DEFINE gaps == {n - x : x \in S}
<1>1. PICK m \in gaps : \A j \in gaps : <<j, m>> \notin OpToRel(<, Nat)
  <2>0. \A x \in S : n - x \in Nat
    OBVIOUS
  <2>1. gaps \subseteq Nat /\ gaps # {}
    BY <2>0
  <2> HIDE DEF gaps
  <2> QED BY <2>1, WFMin, NatLessThanWellFounded
<1>2. PICK x \in S : m = n - x
  BY <1>1
<1>3. ASSUME NEW y \in S PROVE x >= y
  <2>1. n - y \in gaps /\ n - y \in Nat /\ m \in Nat /\ x \in Nat /\ y \in Nat
    BY <1>2
  <2>2. ~(n - y < m)
    BY <1>1, <2>1 DEF OpToRel
  <2> QED BY <1>2, <2>1, <2>2
<1> QED BY <1>3 DEF Max

\* The elements of a part of a sequence.
LEMMA CutIs ==
    ASSUME NEW s \in Seq(Nodes), NEW m \in 1..(Len(s) + 1), NEW n \in 0..Len(s), m <= n + 1
    PROVE  /\ SubSeq(s, m, n) \in Seq(Nodes) /\ Len(SubSeq(s, m, n)) = n - m + 1
           /\ \A i \in 1..(n - m + 1) : SubSeq(s, m, n)[i] = s[m + i - 1]
<1>0. Len(s) \in Nat /\ m \in Int /\ n \in Int
  BY LenProperties
<1>1. \A i \in m..n : s[i] \in Nodes
  BY <1>0, ElementOfSeq
<1>2. /\ SubSeq(s, m, n) \in Seq(Nodes)
      /\ Len(SubSeq(s, m, n)) = IF m <= n THEN n - m + 1 ELSE 0
      /\ \A i \in 1..(n - m + 1) : SubSeq(s, m, n)[i] = s[m + i - 1]
  BY <1>0, <1>1, SubSeqProperties
<1>3. (IF m <= n THEN n - m + 1 ELSE 0) = n - m + 1
  BY <1>0
<1> QED BY <1>2, <1>3

LEMMA PrefixIs ==
    ASSUME NEW a \in Seq(Nodes), NEW b \in Seq(Nodes)
    PROVE  IsPrefix(a, b) <=> Len(a) <= Len(b) /\ \A i \in 1..Len(a) : a[i] = b[i]
<1>0. Len(a) \in Nat /\ Len(b) \in Nat
  BY LenProperties
<1>1. CASE Len(a) <= Len(b)
  <2> DEFINE x == SubSeq(a, 1, Len(a))  y == SubSeq(b, 1, Len(a))
  <2>1. /\ x \in Seq(Nodes) /\ Len(x) = Len(a) /\ \A i \in 1..Len(a) : x[i] = a[i]
    <3>1. 1 \in 1..(Len(a) + 1) /\ Len(a) \in 0..Len(a) /\ 1 <= Len(a) + 1 /\ Len(a) - 1 + 1 = Len(a)
      BY <1>0
    <3>2. \A i \in 1..Len(a) : 1 + i - 1 = i
      BY <1>0
    <3> QED BY <3>1, <3>2, CutIs
  <2>2. /\ y \in Seq(Nodes) /\ Len(y) = Len(a) /\ \A i \in 1..Len(a) : y[i] = b[i]
    <3>1. 1 \in 1..(Len(b) + 1) /\ Len(a) \in 0..Len(b) /\ 1 <= Len(a) + 1 /\ Len(a) - 1 + 1 = Len(a)
      BY <1>0, <1>1
    <3>2. \A i \in 1..Len(a) : 1 + i - 1 = i
      BY <1>0
    <3> QED BY <3>1, <3>2, CutIs
  <2>3. IsPrefix(a, b) <=> x = y
    BY <1>1 DEF IsPrefix
  <2> HIDE DEF x, y
  <2>4. x = y <=> \A i \in 1..Len(a) : x[i] = y[i]
    BY <2>1, <2>2, SeqEqual
  <2> QED BY <1>1, <2>1, <2>2, <2>3, <2>4
<1>2. CASE ~(Len(a) <= Len(b))
  BY <1>2 DEF IsPrefix
<1> QED BY <1>1, <1>2

LEMMA SuffixIs ==
    ASSUME NEW a \in Seq(Nodes), NEW b \in Seq(Nodes)
    PROVE  IsSuffix(a, b) <=> /\ Len(a) <= Len(b)
                              /\ \A i \in 1..Len(a) : a[i] = b[Len(b) - Len(a) + i]
<1>0. Len(a) \in Nat /\ Len(b) \in Nat
  BY LenProperties
<1>1. ASSUME NEW s \in Seq(Nodes)
      PROVE  /\ Reverse(s) \in Seq(Nodes) /\ Len(Reverse(s)) = Len(s)
             /\ \A i \in 1..Len(s) : Reverse(s)[i] = s[Len(s) - i + 1]
  <2>1. Len(s) \in Nat
    BY LenProperties
  <2>2. \A i \in 1..Len(s) : s[Len(s) - i + 1] \in Nodes
    BY <2>1, ElementOfSeq
  <2>3. Reverse(s) \in [1..Len(s) -> Nodes]
    BY <2>2 DEF Reverse
  <2>4. Reverse(s) \in Seq(Nodes)
    BY <2>1, <2>3, SMTT(30)
  <2>5. Len(Reverse(s)) = Len(s)
    <3>1. DOMAIN Reverse(s) = 1..Len(Reverse(s)) /\ Len(Reverse(s)) \in Nat
      BY <2>4, LenProperties
    <3>2. DOMAIN Reverse(s) = 1..Len(s)
      BY DEF Reverse
    <3> QED BY <2>1, <3>1, <3>2, SMTT(30)
  <2> QED BY <2>4, <2>5 DEF Reverse
<1> DEFINE x == Reverse(a)  y == Reverse(b)
<1>2. /\ x \in Seq(Nodes) /\ Len(x) = Len(a) /\ \A i \in 1..Len(a) : x[i] = a[Len(a) - i + 1]
      /\ y \in Seq(Nodes) /\ Len(y) = Len(b) /\ \A i \in 1..Len(b) : y[i] = b[Len(b) - i + 1]
  BY <1>1
<1>3. IsSuffix(a, b) <=> IsPrefix(x, y)
  BY DEF IsSuffix
<1> HIDE DEF x, y
<1>4. IsPrefix(x, y) <=> Len(a) <= Len(b) /\ \A i \in 1..Len(a) : x[i] = y[i]
  BY <1>2, PrefixIs
<1>5. ASSUME Len(a) <= Len(b)
      PROVE  (\A i \in 1..Len(a) : x[i] = y[i]) <=> \A i \in 1..Len(a) : a[i] = b[Len(b) - Len(a) + i]
  <2>1. ASSUME \A i \in 1..Len(a) : x[i] = y[i], NEW i \in 1..Len(a)
        PROVE  a[i] = b[Len(b) - Len(a) + i]
    <3> DEFINE j == Len(a) - i + 1
    <3>1. j \in 1..Len(a) /\ j \in 1..Len(b) /\ Len(a) - j + 1 = i /\ Len(b) - j + 1 = Len(b) - Len(a) + i
      BY <1>0, <1>5
    <3> HIDE DEF j
    <3> QED BY <1>2, <2>1, <3>1
  <2>2. ASSUME \A i \in 1..Len(a) : a[i] = b[Len(b) - Len(a) + i], NEW i \in 1..Len(a)
        PROVE  x[i] = y[i]
    <3> DEFINE j == Len(a) - i + 1
    <3>1. j \in 1..Len(a) /\ i \in 1..Len(b) /\ Len(b) - Len(a) + j = Len(b) - i + 1
      BY <1>0, <1>5
    <3>2. x[i] = a[j] /\ y[i] = b[Len(b) - i + 1]
      BY <1>2, <3>1
    <3> HIDE DEF j
    <3> QED BY <2>2, <3>1, <3>2
  <2> QED BY <2>1, <2>2
<1> QED BY <1>3, <1>4, <1>5

\* The longest overlap that Plan looks at, and which of the overlaps prove continuity.
Top(s, r) == IF Len(s) < Len(r) - 1 THEN Len(s) ELSE Len(r) - 1

LEMMA MatchesIs ==
    ASSUME NEW s \in Seq(Nodes), NEW r \in Seq(Nodes), NEW k
    PROVE  k \in Proofs(s, r) <=> k \in 2..Top(s, r) /\ Matches(s, r, k)
<1>0. Len(s) \in Nat /\ Len(r) \in Nat
  BY LenProperties
<1>1. ASSUME NEW j \in 1..Top(s, r)
      PROVE  IsSuffix(SubSeq(r, 1, j), s) <=> SubSeq(s, Len(s) - j + 1, Len(s)) = SubSeq(r, 1, j)
  <2> DEFINE x == SubSeq(r, 1, j)  y == SubSeq(s, Len(s) - j + 1, Len(s))
  <2>0. j \in Nat /\ j <= Len(s) /\ j <= Len(r) - 1
    BY <1>0 DEF Top
  <2>1. x \in Seq(Nodes) /\ Len(x) = j
    <3>1. 1 \in 1..(Len(r) + 1) /\ j \in 0..Len(r) /\ 1 <= j + 1 /\ j - 1 + 1 = j
      BY <1>0, <2>0
    <3> QED BY <3>1, CutIs
  <2>2. y \in Seq(Nodes) /\ Len(y) = j /\ \A i \in 1..j : y[i] = s[Len(s) - j + i]
    <3> DEFINE m == Len(s) - j + 1
    <3>1. /\ m \in 1..(Len(s) + 1) /\ Len(s) \in 0..Len(s) /\ m <= Len(s) + 1 /\ Len(s) - m + 1 = j
          /\ \A i \in 1..j : m + i - 1 = Len(s) - j + i
      BY <1>0, <2>0
    <3>2. y = SubSeq(s, m, Len(s))
      OBVIOUS
    <3> HIDE DEF m, y
    <3> QED BY <3>1, <3>2, CutIs
  <2> HIDE DEF x, y
  <2>3. IsSuffix(x, s) <=> \A i \in 1..j : x[i] = s[Len(s) - j + i]
    BY <1>0, <2>0, <2>1, SuffixIs
  <2>4. y = x <=> \A i \in 1..j : x[i] = y[i]
    BY <2>1, <2>2, SeqEqual
  <2>5. IsSuffix(x, s) <=> y = x
    BY <2>2, <2>3, <2>4
  <2> QED BY <2>5 DEF x, y
<1>2. ASSUME k \in Proofs(s, r) PROVE k \in 2..Top(s, r) /\ Matches(s, r, k)
  <2>1. /\ k \in 1..(Len(r) - 1) /\ k <= Len(s) /\ IsSuffix(SubSeq(r, 1, k), s)
        /\ {"user", "assistant"} \subseteq {r[i].role : i \in 1..k}
    BY <1>2 DEF Proofs
  <2>2. (\E i \in 1..k : r[i].role = "user") /\ \E i \in 1..k : r[i].role = "assistant"
    BY <2>1
  <2>3. k \in 1..Top(s, r)
    BY <1>0, <2>1 DEF Top
  <2>4. k # 1
    BY <2>2
  <2>5. k \in 2..Top(s, r)
    <3>1. Top(s, r) \in Int
      BY <1>0 DEF Top
    <3> QED BY <2>3, <2>4, <3>1
  <2> QED BY <1>1, <2>1, <2>2, <2>3, <2>5 DEF Matches
<1>3. ASSUME k \in 2..Top(s, r), Matches(s, r, k) PROVE k \in Proofs(s, r)
  <2>1. k \in 1..Top(s, r) /\ k \in 1..(Len(r) - 1) /\ k <= Len(s)
    BY <1>0, <1>3 DEF Top
  <2>2. {"user", "assistant"} \subseteq {r[i].role : i \in 1..k}
    BY <1>3 DEF Matches
  <2> QED BY <1>1, <1>3, <2>1, <2>2 DEF Matches, Proofs
<1> QED BY <1>2, <1>3

\* The loop finds the longest overlap that proves continuity, however long the histories are.
LEMMA OverlapIs ==
    ASSUME NEW s \in Seq(Nodes), NEW r \in Seq(Nodes), Len(r) > 0
    PROVE  \/ Overlap(s, r) = -1 /\ Proofs(s, r) = {}
           \/ Overlap(s, r) \in Proofs(s, r) /\ \A k \in Proofs(s, r) : k <= Overlap(s, r)
<1> DEFINE N == Top(s, r)
           Step(f, i) == IF i < 2 THEN -1 ELSE IF Matches(s, r, i) THEN i ELSE f[i - 1]
           from == CHOOSE f : f = [i \in 1..N |-> Step(f, i)]
           Good == {n \in Nat : \E f : f = [i \in 1..n |-> Step(f, i)]}
<1>0. N \in Nat
  BY LenProperties DEF Top
<1>1. Overlap(s, r) = IF N < 2 THEN -1 ELSE from[N]
  BY DEF Overlap, Top
<1>2. 0 \in Good
  <2>1. [i \in 1..0 |-> 0] = [i \in 1..0 |-> Step([j \in 1..0 |-> 0], i)]
    OBVIOUS
  <2> HIDE DEF Step
  <2> QED BY <2>1
<1>3. ASSUME NEW n \in 1..N, n - 1 \in Good PROVE n \in Good
  <2>1. PICK f : f = [i \in 1..(n - 1) |-> Step(f, i)]
    BY <1>3
  <2> DEFINE g == [i \in 1..n |-> IF i = n THEN Step(f, n) ELSE f[i]]
  <2>2. n \in Nat \ {0} /\ 1..n = 1..(n - 1) \cup {n}
    BY <1>0
  <2>3. ASSUME NEW i \in 1..n PROVE g[i] = Step(g, i)
    <3>1. CASE i = n
      <4>1. i < 2 \/ (i - 1 \in 1..n /\ i - 1 # n)
        BY <2>2, <3>1
      <4> QED BY <3>1, <4>1
    <3>2. CASE i # n
      <4>1. i \in 1..(n - 1) /\ (i < 2 \/ (i - 1 \in 1..n /\ i - 1 # n))
        BY <2>2, <3>2
      <4>2. f[i] = Step(f, i)
        BY <2>1, <4>1
      <4> QED BY <3>2, <4>1, <4>2
    <3> QED BY <3>1, <3>2
  <2>4. g = [i \in 1..n |-> Step(g, i)]
    <3> HIDE DEF Step
    <3> QED BY <2>3
  <2> HIDE DEF Step, g
  <2> QED BY <2>2, <2>4
<1>4. N \in Good
  <2> HIDE DEF Good, N
  <2>1. 0..N \subseteq Good
    BY <1>0, <1>2, <1>3, SetInduction
  <2> QED BY <1>0, <2>1
<1>5. from = [i \in 1..N |-> Step(from, i)]
  <2> HIDE DEF Step, N
  <2> QED BY <1>4
<1> DEFINE Last1(n) == \/ from[n] = -1 /\ \A k \in 2..n : ~Matches(s, r, k)
                       \/ /\ from[n] \in 2..n /\ Matches(s, r, from[n])
                          /\ \A k \in 2..n : Matches(s, r, k) => k <= from[n]
           Fine == {n \in 0..N : n = 0 \/ Last1(n)}
<1> HIDE DEF from
<1>6. 0 \in Fine
  BY <1>0
<1>7. ASSUME NEW n \in 1..N, n - 1 \in Fine PROVE n \in Fine
  <2>0. n \in Nat /\ n \in 0..N /\ n # 0
    BY <1>0
  <2>1. from[n] = Step(from, n)
    <3> HIDE DEF Step, N
    <3> QED BY <1>5
  <2>2. CASE n = 1
    <3>1. from[n] = -1 /\ 2..n = {}
      BY <2>1, <2>2
    <3> QED BY <2>0, <3>1
  <2>3. CASE n # 1 /\ Matches(s, r, n)
    <3>1. from[n] = n /\ n \in 2..n
      BY <2>0, <2>1, <2>3
    <3> QED BY <2>0, <2>3, <3>1
  <2>4. CASE n # 1 /\ ~Matches(s, r, n)
    <3>1. from[n] = from[n - 1] /\ 2..n = 2..(n - 1) \cup {n}
      BY <2>0, <2>1, <2>4
    <3>2. Last1(n - 1)
      BY <1>7, <2>0, <2>4
    <3> QED BY <2>0, <2>4, <3>1, <3>2
  <2> QED BY <2>2, <2>3, <2>4
<1>8. N = 0 \/ Last1(N)
  <2>1. N \in Fine
    <3> HIDE DEF Fine, N
    <3>1. 0..N \subseteq Fine
      BY <1>0, <1>6, <1>7, SetInduction
    <3> QED BY <1>0, <3>1
  <2> QED BY <2>1
<1> HIDE DEF N
<1>9. CASE N < 2
  <2>1. 2..N = {}
    BY <1>0, <1>9
  <2>2. Proofs(s, r) = {}
    BY <2>1, MatchesIs DEF N
  <2> QED BY <1>1, <1>9, <2>2
<1>10. CASE ~(N < 2)
  <2>1. Overlap(s, r) = from[N] /\ Last1(N)
    BY <1>0, <1>1, <1>8, <1>10
  <2>2. \A k : k \in Proofs(s, r) <=> k \in 2..N /\ Matches(s, r, k)
    BY MatchesIs DEF N
  <2> QED BY <2>1, <2>2
<1> QED BY <1>9, <1>10

\* What Plan is given: a request with a latest user message.
LEMMA RequestIs ==
    ASSUME NEW r \in Requests
    PROVE  /\ r \in Seq(Nodes) /\ Len(r) \in Nat \ {0}
           /\ LatestUser(r) \in 1..Len(r) /\ r[LatestUser(r)].role = "user"
<1>1. PICK m \in 0..MaxRequest : r \in [1..m -> Nodes]
  BY DEF Requests, SeqOf
<1>2. m \in Nat
  BY <1>1, LengthAssumption
<1>3. r \in Seq(Nodes) /\ Len(r) \in Nat
  BY <1>1, <1>2, SeqDef, LenProperties
<1> DEFINE others == {i \in 1..Len(r) : r[i].role # "system"}
<1>4. others # {} /\ r[Max(others)].role = "user" /\ LatestUser(r) = Max(others)
  <2>1. LatestUser(r) > 0
    BY DEF Requests
  <2>2. LatestUser(r) # 0
    BY <2>1
  <2> QED BY <2>2 DEF LatestUser
<1>5. Max(others) \in others
  <2>1. others \subseteq 0..Len(r)
    BY <1>3
  <2> HIDE DEF others
  <2> QED BY <1>3, <1>4, <2>1, MaxIs
<1> QED BY <1>3, <1>4, <1>5

\* A history that proves continuity when all of it is repeated.
Whole(s) == (\E i \in 1..Len(s) : s[i].role = "user") /\ \E i \in 1..Len(s) : s[i].role = "assistant"

\* Where Plan would extend the snapshot from.
PlanStart(s, r) == IF Len(r) > Len(s) /\ IsPrefix(s, r) THEN Len(s) ELSE Overlap(s, r)

LEMMA StartIs ==
    ASSUME NEW s \in Seq(Nodes), Whole(s), NEW r \in Requests
    PROVE  \/ PlanStart(s, r) = -1 /\ Proofs(s, r) = {}
           \/ /\ PlanStart(s, r) \in Proofs(s, r) /\ \A k \in Proofs(s, r) : k <= PlanStart(s, r)
              /\ Max(Proofs(s, r)) = PlanStart(s, r)
<1>0. r \in Seq(Nodes) /\ Len(r) \in Nat \ {0} /\ Len(s) \in Nat
  BY RequestIs, LenProperties
<1> DEFINE Longest == \/ PlanStart(s, r) = -1 /\ Proofs(s, r) = {}
                      \/ /\ PlanStart(s, r) \in Proofs(s, r)
                         /\ \A k \in Proofs(s, r) : k <= PlanStart(s, r)
<1>1. ASSUME Len(r) > Len(s), IsPrefix(s, r) PROVE Longest
  <2>1. PlanStart(s, r) = Len(s)
    BY <1>1 DEF PlanStart
  <2>2. \A i \in 1..Len(s) : s[i] = r[i]
    BY <1>0, <1>1, PrefixIs
  <2>3. Len(s) \in 1..(Len(r) - 1)
    <3>1. Len(s) # 0
      BY DEF Whole
    <3> QED BY <1>0, <1>1, <3>1
  <2>4. IsSuffix(SubSeq(r, 1, Len(s)), s)
    <3> DEFINE x == SubSeq(r, 1, Len(s))
    <3>1. 1 \in 1..(Len(r) + 1) /\ Len(s) \in 0..Len(r) /\ 1 <= Len(s) + 1 /\ Len(s) - 1 + 1 = Len(s)
      BY <1>0, <2>3
    <3>2. \A i \in 1..Len(s) : 1 + i - 1 = i /\ Len(s) - Len(s) + i = i
      BY <1>0
    <3>3. x \in Seq(Nodes) /\ Len(x) = Len(s) /\ \A i \in 1..Len(s) : x[i] = s[i]
      BY <1>0, <2>2, <3>1, <3>2, CutIs
    <3> HIDE DEF x
    <3>4. IsSuffix(x, s)
      BY <1>0, <3>2, <3>3, SuffixIs
    <3> QED BY <3>4 DEF x
  <2>5. {"user", "assistant"} \subseteq {r[i].role : i \in 1..Len(s)}
    BY <2>2 DEF Whole
  <2>6. Len(s) \in Proofs(s, r) /\ \A k \in Proofs(s, r) : k <= Len(s)
    BY <1>0, <2>3, <2>4, <2>5 DEF Proofs
  <2> QED BY <2>1, <2>6
<1>2. ASSUME ~(Len(r) > Len(s) /\ IsPrefix(s, r)) PROVE Longest
  <2>1. PlanStart(s, r) = Overlap(s, r)
    BY <1>2 DEF PlanStart
  <2>2. Len(r) > 0
    BY <1>0
  <2> QED BY <1>0, <2>1, <2>2, OverlapIs
<1>3. Longest
  BY <1>1, <1>2
<1>4. ASSUME PlanStart(s, r) \in Proofs(s, r), \A k \in Proofs(s, r) : k <= PlanStart(s, r)
      PROVE  Max(Proofs(s, r)) = PlanStart(s, r)
  <2>1. Proofs(s, r) \subseteq 0..Len(r)
    BY <1>0 DEF Proofs
  <2>2. Max(Proofs(s, r)) \in Proofs(s, r) /\ \A y \in Proofs(s, r) : Max(Proofs(s, r)) >= y
    BY <1>0, <1>4, <2>1, MaxIs
  <2>3. Max(Proofs(s, r)) \in Int /\ PlanStart(s, r) \in Int
    BY <1>4, <2>1, <2>2
  <2> QED BY <1>4, <2>2, <2>3
<1> QED BY <1>3, <1>4

\* Plan decides by the longest overlap, whichever of its cases finds it.
LEMMA PlanDecides ==
    ASSUME NEW s \in Seq(Nodes), s = <<>> \/ Whole(s), NEW r \in Requests
    PROVE  LET p == Plan(s, r)
               ks == Proofs(s, r)
               new == s # <<>> /\ r # Front(s) /\ ks # {} /\ Max(ks) < LatestUser(r)
                        /\ Len(s) + Len(r) - Max(ks) < MaxNodes
           IN IF new THEN p.mode = "extend" /\ p.start = Max(ks) ELSE p.mode # "extend"
<1> DEFINE ks == Proofs(s, r)  start == PlanStart(s, r)
           Room == s # <<>> /\ r # Front(s) /\ ks # {} /\ Max(ks) < LatestUser(r)
                        /\ Len(s) + Len(r) - Max(ks) < MaxNodes
<1>0. Len(r) \in Nat \ {0} /\ Len(s) \in Nat /\ LatestUser(r) \in Int /\ MaxNodes \in Int
  BY RequestIs, LenProperties, LengthAssumption
<1>1. CASE s = <<>>
  BY <1>1 DEF Plan
<1>2. CASE s # <<>>
  <2>1. \/ start = -1 /\ ks = {}
        \/ start \in ks /\ start = Max(ks) /\ start \in Nat
    <3>1. ks \subseteq Nat
      BY <1>0 DEF Proofs
    <3> QED BY <1>2, <3>1, StartIs
  <2>2. r = Front(s) => Len(r) = Len(s) - 1
    <3>1. 1 \in 1..(Len(s) + 1) /\ Len(s) - 1 \in 0..Len(s) /\ 1 <= (Len(s) - 1) + 1 /\ (Len(s) - 1) - 1 + 1 = Len(s) - 1
      BY <1>0, <1>2, EmptySeq
    <3>2. Len(Front(s)) = Len(s) - 1
      BY <3>1, CutIs DEF Front
    <3> QED BY <3>2
  <2>3. Plan(s, r) =
           IF Len(r) = Len(s) - 1 /\ r = Front(s)
           THEN [mode |-> "duplicate", start |-> 0, nodes |-> r]
           ELSE IF start < 0 \/ LatestUser(r) <= start \/ Len(s) + Len(r) - start >= MaxNodes
                THEN [mode |-> "diverged", start |-> 0, nodes |-> r]
                ELSE [mode |-> "extend", start |-> start, nodes |-> Extended(s, r, start)]
    BY <1>2 DEF Plan, PlanStart
  <2> HIDE DEF ks, start
  <2>4. CASE start = -1 /\ ks = {}
    <3>1. start < 0
      BY <2>4
    <3>2. Plan(s, r).mode # "extend"
      BY <2>3, <3>1
    <3> QED BY <2>4, <3>2 DEF ks
  <2>5. CASE start \in ks /\ start = Max(ks) /\ start \in Nat
    <3>1. Room <=> ~(Len(r) = Len(s) - 1 /\ r = Front(s)) /\ ~(start < 0 \/ LatestUser(r) <= start \/ Len(s) + Len(r) - start >= MaxNodes)
      BY <1>0, <1>2, <2>2, <2>5
    <3>2. IF Room THEN Plan(s, r).mode = "extend" /\ Plan(s, r).start = Max(ks) ELSE Plan(s, r).mode # "extend"
      BY <2>3, <2>5, <3>1
    <3> QED BY <3>2 DEF ks
  <2>6. IF Room THEN Plan(s, r).mode = "extend" /\ Plan(s, r).start = Max(ks) ELSE Plan(s, r).mode # "extend"
    BY <2>1, <2>4, <2>5 DEF ks
  <2> QED BY <2>6 DEF ks
<1> QED BY <1>1, <1>2

\* A history with a user message has a pair, however long it is.
LEMMA PairsFound ==
    ASSUME NEW nodes \in Seq(Nodes), NEW u \in 1..Len(nodes), nodes[u].role = "user"
    PROVE  pairs(nodes) # <<>>
<1> DEFINE N == Len(nodes)
           D == {""} \cup {m.digest : m \in Nodes}
           P == [assistant : D, user : D]
           Acc == [previous : D, list : Seq(P)]
           Step(f, i) ==
               IF i = 0 THEN [previous |-> "", list |-> <<>>]
               ELSE CASE nodes[i].role = "assistant" -> [f[i - 1] EXCEPT !.previous = nodes[i].digest]
                      [] nodes[i].role = "user" ->
                           [previous |-> "",
                            list |-> Append(f[i - 1].list, [assistant |-> f[i - 1].previous, user |-> nodes[i].digest])]
                      [] OTHER -> f[i - 1]
           after == CHOOSE f : f = [i \in 0..N |-> Step(f, i)]
           Good == {n \in Nat : \E f : f = [i \in 0..n |-> Step(f, i)]}
<1>0. N \in Nat /\ \A i \in 1..N : nodes[i] \in Nodes
  BY LenProperties, ElementOfSeq
<1>1. pairs(nodes) = after[N].list
  BY DEF pairs
<1>2. 0 \in Good
  <2> DEFINE f == [i \in 0..0 |-> [previous |-> "", list |-> <<>>]]
  <2>1. f = [i \in 0..0 |-> Step(f, i)]
    OBVIOUS
  <2> HIDE DEF Step, f
  <2> QED BY <2>1
<1>3. ASSUME NEW n \in 1..N, n - 1 \in Good PROVE n \in Good
  <2>1. PICK f : f = [i \in 0..(n - 1) |-> Step(f, i)]
    BY <1>3
  <2> DEFINE g == [i \in 0..n |-> IF i = n THEN Step(f, n) ELSE f[i]]
  <2>2. n \in Nat \ {0} /\ 0..n = 0..(n - 1) \cup {n} /\ n - 1 \in 0..n /\ n - 1 # n
    BY <1>0
  <2>3. ASSUME NEW i \in 0..n PROVE g[i] = Step(g, i)
    <3>1. i = 0 \/ (i - 1 \in 0..n /\ i - 1 # n)
      BY <2>2
    <3>2. i = 0 \/ g[i - 1] = f[i - 1]
      BY <3>1
    <3>3. Step(g, i) = Step(f, i)
      <4> HIDE DEF g
      <4> QED BY <3>2
    <3>4. g[i] = Step(f, i)
      <4>1. i = n \/ i \in 0..(n - 1)
        BY <2>2
      <4> HIDE DEF Step
      <4> QED BY <2>1, <4>1
    <3> HIDE DEF Step, g
    <3> QED BY <3>3, <3>4
  <2>4. g = [i \in 0..n |-> Step(g, i)]
    <3> HIDE DEF Step
    <3> QED BY <2>3
  <2> HIDE DEF Step, g
  <2> QED BY <2>2, <2>4
<1>4. N \in Good
  <2> HIDE DEF Good, N
  <2>1. 0..N \subseteq Good
    BY <1>0, <1>2, <1>3, SetInduction
  <2> QED BY <1>0, <2>1
<1>5. after = [i \in 0..N |-> Step(after, i)]
  <2> HIDE DEF Step, N
  <2> QED BY <1>4
<1> HIDE DEF after
<1> DEFINE Found(n) == (\E j \in 1..n : nodes[j].role = "user") => after[n].list # <<>>
           Fine == {n \in 0..N : after[n] \in Acc /\ Found(n)}
<1>6. 0 \in Fine
  <2>1. after[0] = Step(after, 0)
    <3>1. 0 \in 0..N
      BY <1>0
    <3> HIDE DEF Step, N
    <3> QED BY <1>5, <3>1
  <2>2. after[0] = [previous |-> "", list |-> <<>>]
    BY <2>1
  <2>3. after[0] \in Acc /\ 1..0 = {}
    <3>1. "" \in D
      OBVIOUS
    <3> HIDE DEF D, P
    <3>2. <<>> \in Seq(P)
      BY EmptySeq
    <3>3. \A l \in Seq(P), g \in D : [previous |-> g, list |-> l] \in Acc
      OBVIOUS
    <3>4. 1..0 = {}
      OBVIOUS
    <3> HIDE DEF Acc
    <3> QED BY <2>2, <3>1, <3>2, <3>3, <3>4
  <2> HIDE DEF Acc
  <2> QED BY <1>0, <2>3
<1>7. ASSUME NEW n \in 1..N, n - 1 \in Fine PROVE n \in Fine
  <2>0. n \in 0..N /\ n # 0 /\ 1..n = 1..(n - 1) \cup {n} /\ nodes[n].digest \in D
    <3>1. nodes[n] \in Nodes
      BY <1>0
    <3>2. n \in 0..N /\ n # 0 /\ 1..n = 1..(n - 1) \cup {n}
      BY <1>0
    <3> QED BY <3>1, <3>2
  <2>1. after[n] = Step(after, n)
    <3> HIDE DEF Step, N
    <3> QED BY <1>5, <2>0
  <2> DEFINE acc == after[n - 1]
  <2>2. acc \in Acc /\ Found(n - 1)
    BY <1>7
  <2>3. CASE nodes[n].role = "assistant"
    <3>1. after[n] = [acc EXCEPT !.previous = nodes[n].digest] /\ nodes[n].role # "user"
      BY <2>0, <2>1, <2>3
    <3> HIDE DEF acc, D
    <3>2. after[n] \in Acc /\ after[n].list = acc.list
      BY <2>0, <2>2, <3>1
    <3>3. Found(n)
      BY <2>0, <2>2, <3>1, <3>2 DEF acc
    <3> QED BY <2>0, <3>2, <3>3
  <2>4. CASE nodes[n].role = "user"
    <3> DEFINE e == [assistant |-> acc.previous, user |-> nodes[n].digest]
    <3>1. after[n] = [previous |-> "", list |-> Append(acc.list, e)]
      BY <2>0, <2>1, <2>4
    <3> HIDE DEF acc
    <3>2. acc.list \in Seq(P) /\ e \in P /\ "" \in D
      <4>1. acc.previous \in D /\ acc.list \in Seq(P) /\ "" \in D
        <5> HIDE DEF P
        <5> QED BY <2>2
      <4> QED BY <2>0, <4>1
    <3> HIDE DEF e, D, P
    <3>3. \A l \in Seq(P), x \in P : Append(l, x) \in Seq(P) /\ Append(l, x) # <<>>
      BY AppendProperties, LenProperties
    <3>4. Append(acc.list, e) \in Seq(P) /\ Append(acc.list, e) # <<>>
      BY <3>2, <3>3
    <3>5. \A l \in Seq(P) : [previous |-> "", list |-> l] \in Acc /\ [previous |-> "", list |-> l].list = l
      BY <3>2
    <3>6. after[n] \in Acc /\ after[n].list # <<>>
      <4> HIDE DEF Acc
      <4> QED BY <3>1, <3>4, <3>5
    <3> HIDE DEF Acc
    <3> QED BY <2>0, <3>6
  <2>5. CASE nodes[n].role # "assistant" /\ nodes[n].role # "user"
    <3>1. after[n] = acc
      BY <2>0, <2>1, <2>5
    <3> HIDE DEF Acc
    <3> QED BY <2>0, <2>2, <2>5, <3>1
  <2> QED BY <2>3, <2>4, <2>5
<1>8. Found(N)
  <2>1. N \in Fine
    <3> HIDE DEF Fine, N
    <3>1. 0..N \subseteq Fine
      BY <1>0, <1>6, <1>7, SetInduction
    <3> QED BY <1>0, <3>1
  <2> QED BY <2>1
<1> QED BY <1>1, <1>8

LEMMA SameSuffix == ASSUME NEW r \in Seq(Nodes) PROVE IsSuffix(r, r)
<1>1. Len(r) \in Nat
  BY LenProperties
<1>2. Len(r) <= Len(r) /\ \A i \in 1..Len(r) : Len(r) - Len(r) + i = i
  BY <1>1
<1> QED BY <1>2, SuffixIs

LEMMA EmptyEnds == <<>> \in Seq(Nodes) /\ IsSuffix(<<>>, <<>>) /\ Empty.nodes = <<>>
<1>1. <<>> \in Seq(Nodes)
  BY EmptySeq
<1> QED BY <1>1, SameSuffix DEF Empty

\* A suffix stays one when both histories get the same reply.
LEMMA ReplySuffix ==
    ASSUME NEW a \in Seq(Nodes), NEW b \in Seq(Nodes), IsSuffix(a, b), NEW e \in Nodes
    PROVE  IsSuffix(Append(a, e), Append(b, e))
<1> DEFINE x == Append(a, e)  y == Append(b, e)
<1>0. Len(a) \in Nat /\ Len(b) \in Nat
  BY LenProperties
<1>1. /\ x \in Seq(Nodes) /\ Len(x) = Len(a) + 1 /\ x[Len(a) + 1] = e /\ \A i \in 1..Len(a) : x[i] = a[i]
      /\ y \in Seq(Nodes) /\ Len(y) = Len(b) + 1 /\ y[Len(b) + 1] = e /\ \A i \in 1..Len(b) : y[i] = b[i]
  BY AppendProperties
<1>2. Len(a) <= Len(b) /\ \A i \in 1..Len(a) : a[i] = b[Len(b) - Len(a) + i]
  BY SuffixIs
<1> HIDE DEF x, y
<1>3. ASSUME NEW i \in 1..Len(x) PROVE x[i] = y[Len(y) - Len(x) + i]
  <2>0. Len(y) - Len(x) + i = Len(b) - Len(a) + i
    BY <1>0, <1>1
  <2>1. CASE i = Len(a) + 1
    <3>1. Len(b) - Len(a) + i = Len(b) + 1
      BY <1>0, <2>1
    <3> QED BY <1>1, <2>0, <2>1, <3>1
  <2>2. CASE i # Len(a) + 1
    <3>1. i \in 1..Len(a) /\ Len(b) - Len(a) + i \in 1..Len(b)
      BY <1>0, <1>1, <1>2, <2>2
    <3> QED BY <1>1, <1>2, <2>0, <3>1
  <2> QED BY <2>1, <2>2
<1>4. IsSuffix(x, y)
  <2>1. Len(x) <= Len(y)
    BY <1>0, <1>1, <1>2
  <2> QED BY <1>1, <1>3, <2>1, SuffixIs
<1> QED BY <1>4 DEF x, y

\* What is appended after a proven overlap ends with the request.
LEMMA ExtendedEnds ==
    ASSUME NEW s \in Seq(Nodes), NEW r \in Seq(Nodes), NEW k \in Proofs(s, r)
    PROVE  Extended(s, r, k) \in Seq(Nodes) /\ IsSuffix(r, Extended(s, r, k))
<1>0. Len(s) \in Nat /\ Len(r) \in Nat
  BY LenProperties
<1>1. k \in 1..(Len(r) - 1) /\ k <= Len(s) /\ IsSuffix(SubSeq(r, 1, k), s)
  BY DEF Proofs
<1>2. \A i \in 1..k : r[i] = s[Len(s) - k + i]
  <2> DEFINE x == SubSeq(r, 1, k)
  <2>1. 1 \in 1..(Len(r) + 1) /\ k \in 0..Len(r) /\ 1 <= k + 1 /\ k - 1 + 1 = k /\ \A i \in 1..k : 1 + i - 1 = i
    BY <1>0, <1>1
  <2>2. x \in Seq(Nodes) /\ Len(x) = k /\ \A i \in 1..k : x[i] = r[i]
    BY <2>1, CutIs
  <2>3. IsSuffix(x, s)
    BY <1>1
  <2> HIDE DEF x
  <2> QED BY <2>2, <2>3, SuffixIs
<1> DEFINE t == SubSeq(r, k + 1, Len(r))  e == s \o t
<1>3. t \in Seq(Nodes) /\ Len(t) = Len(r) - k /\ \A i \in 1..(Len(r) - k) : t[i] = r[k + i]
  <2>1. /\ k + 1 \in 1..(Len(r) + 1) /\ Len(r) \in 0..Len(r) /\ k + 1 <= Len(r) + 1
        /\ Len(r) - (k + 1) + 1 = Len(r) - k /\ \A i \in 1..(Len(r) - k) : (k + 1) + i - 1 = k + i
    BY <1>0, <1>1
  <2> QED BY <2>1, CutIs
<1> HIDE DEF t
<1>4. /\ e \in Seq(Nodes) /\ Len(e) = Len(s) + Len(t)
      /\ \A i \in 1..(Len(s) + Len(t)) : e[i] = IF i <= Len(s) THEN s[i] ELSE t[i - Len(s)]
  BY <1>3, ConcatProperties
<1> HIDE DEF e
<1>5. ASSUME NEW i \in 1..Len(r) PROVE r[i] = e[Len(e) - Len(r) + i]
  <2> DEFINE j == Len(e) - Len(r) + i
  <2>1. j = Len(s) - k + i /\ j \in 1..(Len(s) + Len(t))
    BY <1>0, <1>1, <1>3, <1>4
  <2>2. CASE i <= k
    <3>1. i \in 1..k /\ j <= Len(s)
      BY <1>0, <1>1, <2>1, <2>2
    <3> HIDE DEF j
    <3>2. e[j] = s[Len(s) - k + i]
      BY <1>4, <2>1, <3>1
    <3> QED BY <1>2, <3>1, <3>2 DEF j
  <2>3. CASE ~(i <= k)
    <3>1. ~(j <= Len(s)) /\ j - Len(s) = i - k /\ i - k \in 1..(Len(r) - k) /\ k + (i - k) = i
      BY <1>0, <1>1, <2>1, <2>3
    <3> HIDE DEF j
    <3>2. e[j] = t[i - k]
      BY <1>4, <2>1, <3>1
    <3> QED BY <1>3, <3>1, <3>2 DEF j
  <2> QED BY <2>2, <2>3
<1>6. IsSuffix(r, e)
  <2>1. Len(r) <= Len(e)
    BY <1>0, <1>1, <1>3, <1>4
  <2> QED BY <1>4, <1>5, <2>1, SuffixIs
<1> QED BY <1>4, <1>6 DEF e, t, Extended

\* The snapshot that a turn commits.
Committed(n) ==
    /\ n \in Seq(Nodes) /\ Len(n) \in 2..MaxNodes /\ Last(n).role = "assistant"
    /\ \E i \in 1..Len(n) : n[i].role = "user"

HistoryInv ==
    /\ snapshot = Empty \/ (snapshot = Snapshot(snapshot.nodes) /\ Committed(snapshot.nodes))
    /\ backend = snapshot.nodes
    /\ view \in Seq(Nodes) /\ IsSuffix(view, snapshot.nodes)

LEMMA CommittedWhole ==
    ASSUME HistoryInv
    PROVE  snapshot.nodes \in Seq(Nodes) /\ (snapshot.nodes = <<>> \/ Whole(snapshot.nodes))
<1>1. CASE snapshot = Empty
  <2>1. snapshot.nodes = <<>>
    BY <1>1 DEF Empty
  <2> QED BY <2>1, EmptySeq
<1>2. CASE Committed(snapshot.nodes)
  <2>1. Len(snapshot.nodes) \in 1..Len(snapshot.nodes)
    BY <1>2, LengthAssumption DEF Committed
  <2> QED BY <1>2, <2>1 DEF Committed, Whole, Last
<1> QED BY <1>1, <1>2 DEF HistoryInv

\* The nodes of a plan end with the request, and are what the backend has after the delta or the full
\* history.
LEMMA PlanEnds ==
    ASSUME HistoryInv, NEW r \in Requests
    PROVE  LET p == Plan(snapshot.nodes, r)
           IN  /\ p.nodes \in Seq(Nodes) /\ IsSuffix(r, p.nodes)
               /\ p.nodes = IF p.mode = "extend" THEN backend \o SubSeq(r, p.start + 1, Len(r)) ELSE r
<1> DEFINE s == snapshot.nodes  p == Plan(s, r)  start == PlanStart(s, r)
<1>0. s \in Seq(Nodes) /\ (s = <<>> \/ Whole(s)) /\ r \in Seq(Nodes) /\ backend = s
  BY CommittedWhole, RequestIs DEF HistoryInv
<1>1. \/ p.mode # "extend" /\ p.nodes = r
      \/ s # <<>> /\ ~(start < 0) /\ p = [mode |-> "extend", start |-> start, nodes |-> Extended(s, r, start)]
  BY DEF Plan, PlanStart
<1> HIDE DEF p, s
<1>2. CASE p.mode # "extend" /\ p.nodes = r
  <2>1. IsSuffix(r, r)
    BY <1>0, SameSuffix
  <2> QED BY <1>0, <1>2, <2>1 DEF p, s
<1>3. CASE s # <<>> /\ ~(start < 0) /\ p = [mode |-> "extend", start |-> start, nodes |-> Extended(s, r, start)]
  <2>1. start \in Proofs(s, r)
    BY <1>0, <1>3, StartIs
  <2>2. Extended(s, r, start) \in Seq(Nodes) /\ IsSuffix(r, Extended(s, r, start))
    BY <1>0, <2>1, ExtendedEnds
  <2>3. p.mode = "extend" /\ p.start = start /\ p.nodes = Extended(s, r, start)
    BY <1>3
  <2>4. p.nodes \in Seq(Nodes) /\ IsSuffix(r, p.nodes) /\ p.nodes = backend \o SubSeq(r, p.start + 1, Len(r))
    BY <1>0, <2>2, <2>3 DEF Extended
  <2> QED BY <2>3, <2>4 DEF p, s
<1> QED BY <1>1, <1>2, <1>3

LEMMA HistoryTurn ==
    ASSUME HistoryInv, NEW r \in Requests, NEW reply \in Replies, Turn(r, reply)
    PROVE  HistoryInv'
<1> DEFINE n == Plan(snapshot.nodes, r).nodes  y == Append(n, reply)
<1>0. n \in Seq(Nodes) /\ IsSuffix(r, n) /\ r \in Seq(Nodes) /\ reply \in Nodes /\ reply.role = "assistant"
  BY PlanEnds, RequestIs DEF Replies
<1>1. ASSUME snapshot' = Empty, backend' = <<>>, view' = <<>> PROVE HistoryInv'
  BY <1>1, EmptyEnds DEF HistoryInv
<1>2. CASE ~Completable(n)
  BY <1>1, <1>2 DEF Turn
<1>3. CASE Completable(n)
  <2>1. snapshot' = Snapshot(y) /\ backend' = y /\ view' = Append(r, reply)
    BY <1>3, PlanEnds DEF Turn
  <2>2. /\ y \in Seq(Nodes) /\ Len(y) = Len(n) + 1 /\ y[Len(n) + 1] = reply /\ \A i \in 1..Len(n) : y[i] = n[i]
        /\ Append(r, reply) \in Seq(Nodes) /\ Len(n) \in Nat
    BY <1>0, AppendProperties, LenProperties
  <2>3. IsSuffix(Append(r, reply), y)
    BY <1>0, ReplySuffix
  <2>4. \E i \in 1..Len(n) : n[i].role = "user"
    <3> DEFINE u == LatestUser(r)
    <3>1. u \in 1..Len(r) /\ r[u].role = "user" /\ Len(r) \in Nat
      BY RequestIs
    <3> HIDE DEF u, n
    <3>2. Len(r) <= Len(n) /\ r[u] = n[Len(n) - Len(r) + u]
      BY <1>0, <3>1, SuffixIs
    <3>3. Len(n) - Len(r) + u \in 1..Len(n)
      BY <2>2, <3>1, <3>2
    <3> QED BY <3>1, <3>2, <3>3
  <2> HIDE DEF y, n
  <2>5. Committed(y)
    <3>1. Len(y) \in 2..MaxNodes
      BY <1>3, <2>2, LengthAssumption DEF Completable
    <3>2. Last(y).role = "assistant"
      BY <1>0, <2>2 DEF Last
    <3>3. \E i \in 1..Len(y) : y[i].role = "user"
      <4>1. PICK i \in 1..Len(n) : n[i].role = "user"
        BY <2>4
      <4>2. i \in 1..Len(y)
        BY <2>2
      <4> QED BY <2>2, <4>1, <4>2
    <3> QED BY <2>2, <3>1, <3>2, <3>3 DEF Committed
  <2>6. snapshot'.nodes = y
    BY <2>1 DEF Snapshot
  <2> QED BY <2>1, <2>2, <2>3, <2>5, <2>6 DEF HistoryInv
<1> QED BY <1>2, <1>3

LEMMA HistoryAlways == HistorySpec => []HistoryInv
<1>1. HistoryInit => HistoryInv
  BY EmptyEnds DEF HistoryInit, HistoryInv
<1>2. HistoryInv /\ [HistoryNext]_historyVars => HistoryInv'
  <2>1. ASSUME HistoryInv, Lose PROVE HistoryInv'
    BY <2>1, EmptyEnds DEF Lose, HistoryInv
  <2>2. ASSUME HistoryInv, UNCHANGED historyVars PROVE HistoryInv'
    BY <2>2 DEF HistoryInv, historyVars
  <2> QED BY <2>1, <2>2, HistoryTurn DEF HistoryNext
<1> QED BY <1>1, <1>2, PTL DEF HistorySpec

\* The snapshot is empty or accepted by the next Plan, it states what the backend session was sent and
\* replied, and it ends with what the client knows, for any messages and any limit.
THEOREM ViewHolds == HistorySpec => []ViewContinued
<1>1. HistoryInv => ViewContinued
  <2>1. ASSUME HistoryInv, Committed(snapshot.nodes), snapshot = Snapshot(snapshot.nodes) PROVE Valid(snapshot)
    <3> DEFINE n == snapshot.nodes
    <3>1. snapshot.pairs = pairs(n)
      BY <2>1 DEF Snapshot
    <3>2. pairs(n) # <<>>
      BY <2>1, PairsFound DEF Committed
    <3> QED BY <2>1, <3>1, <3>2 DEF Valid, Committed
  <2> QED BY <2>1 DEF HistoryInv, ViewContinued
<1> QED BY <1>1, HistoryAlways, PTL

\* Plan extends exactly from the longest overlap that proves continuity, for any messages, any limit and
\* any reachable snapshot.
THEOREM PlanHolds == HistorySpec => []PlanIsLongest
<1>1. HistoryInv => PlanIsLongest
  BY CommittedWhole, PlanDecides DEF PlanIsLongest
<1> QED BY <1>1, HistoryAlways, PTL
=============================================================================
