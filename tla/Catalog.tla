------------------------------ MODULE Catalog ------------------------------
(***************************************************************************)
(* The model catalog: the single-flight cache of internal/catalog/cache.go *)
(* and its owner ModelState with the preference for the last used model    *)
(* (internal/launcher/model_state.go).                                     *)
(*                                                                         *)
(* Times are abstract: data is fresh or stale, and whether RetryInterval   *)
(* has passed since the last attempt is a choice of the environment.  The  *)
(* first Get of a process is always due.                                   *)
(***************************************************************************)
EXTENDS Integers

CONSTANT Readers        \* the callers of Get

VARIABLES
    cdata,      \* c.data: "none", "fresh" or "stale"
    flight,     \* c.flight: "none", "discovering" or "writing"
    waiting,    \* the readers that wait for that flight
    cclosed,    \* ModelState and its cache are closed
    preferred   \* the turns whose model was saved in last-model.json

catalogVars == <<cdata, flight, waiting, cclosed, preferred>>

\* No cache yet.
CatalogInit ==
    /\ cdata = "none" /\ flight = "none" /\ waiting = {}
    /\ cclosed = TRUE /\ preferred = {}

\* NewCache reads catalog.json, if it is there and of the same identity.
NewCache(found) ==
    /\ cdata' = found
    /\ cclosed' = FALSE
    /\ UNCHANGED <<flight, waiting, preferred>>

\* Get returns data at once.  Stale data starts a refresh, one at a time and not too often.
GetReturns(due) ==
    /\ ~cclosed /\ cdata # "none"
    /\ flight' = IF cdata = "stale" /\ flight = "none" /\ due THEN "discovering" ELSE flight
    /\ UNCHANGED <<cdata, waiting, cclosed, preferred>>

\* Get on a closed cache returns an error.
GetRefuses == cclosed /\ UNCHANGED catalogVars

\* Without data Get waits for the flight that is under way, or for one it starts.
GetWaits(r) ==
    /\ ~cclosed /\ cdata = "none"
    /\ flight' = IF flight = "none" THEN "discovering" ELSE flight
    /\ waiting' = waiting \cup {r}
    /\ UNCHANGED <<cdata, cclosed, preferred>>

\* A reader goes away: the discovery goes on for the others.
GetCancelled(r) ==
    /\ waiting' = waiting \ {r}
    /\ UNCHANGED <<cdata, flight, cclosed, preferred>>

\* The discovery has an answer before its context ended, or it has none.
FlightDiscovers ==
    /\ flight = "discovering" /\ ~cclosed /\ flight' = "writing"
    /\ UNCHANGED <<cdata, waiting, cclosed, preferred>>

\* A mutant: a discovery without an answer leaves its readers waiting.
FlightEndsSilently(ok) ==
    /\ flight = "writing" \/ (flight = "discovering" /\ ~ok)
    /\ flight' = "none" /\ waiting' = IF ok THEN {} ELSE waiting
    /\ cdata' = IF ok /\ ~cclosed THEN "fresh" ELSE cdata
    /\ UNCHANGED <<cclosed, preferred>>

\* The record is written to catalog.json, the data replaced unless the cache was closed, and readers released.
FlightEnds(ok) ==
    /\ flight = "writing" \/ (flight = "discovering" /\ ~ok)
    /\ flight' = "none" /\ waiting' = {}
    /\ cdata' = IF ok /\ ~cclosed THEN "fresh" ELSE cdata
    /\ UNCHANGED <<cclosed, preferred>>

\* TTL passes.
DataAges ==
    /\ cdata = "fresh" /\ ~cclosed /\ cdata' = "stale"
    /\ UNCHANGED <<flight, waiting, cclosed, preferred>>

\* ModelState.Close and Cache.Close up to the wait for the flight.
ModelsClose ==
    /\ ~cclosed /\ cclosed' = TRUE
    /\ UNCHANGED <<cdata, flight, waiting, preferred>>

\* recordUsed, of a turn that is remembered.  Without data nothing is saved.
recordUsed(t, remember) ==
    /\ preferred' = IF remember /\ ~cclosed /\ cdata # "none" THEN preferred \cup {t} ELSE preferred
    /\ UNCHANGED <<cdata, flight, waiting, cclosed>>
=============================================================================
