---------------------------- MODULE RelayBroker ----------------------------
(***************************************************************************)
(* The relay broker of internal/relay/broker.go.                           *)
(*                                                                         *)
(* A tool request of the Kiro process reaches the broker as Broker.Call,   *)
(* one goroutine per request, and blocks there.  The session seals the     *)
(* queued calls into a batch, hands the batch to the client in one HTTP    *)
(* response, and resolves it with the results of the client's next         *)
(* request.  Timers, cancelled request contexts, the end of the ACP prompt *)
(* and Close retire the broker and answer every blocked call with an error.*)
(*                                                                         *)
(* Every section of the code that holds b.mu is one action; a goroutine    *)
(* that unlocks between two sections has a pc value for the gap.  The      *)
(* identity of a call (the random toolu_ ID) is the element of Calls; the  *)
(* identity its caller chose is IdOf[c], which two calls may share.        *)
(***************************************************************************)
EXTENDS Integers, Sequences, FiniteSets, FiniteSetsExt, Functions

CONSTANTS Calls,         \* invocations of Broker.Call
          IdOf,          \* call.ID of each of them
          Size,          \* bytes of each encoded Use
          PendingLimit,  \* limits.Pending
          PendingBytes,  \* limits.PendingBytes
          CallHistory,   \* limits.CallHistory
          FrameBytes,    \* MaxFrameBytes - 1024
          MaxBatches     \* bound on b.number, an unbounded counter

ASSUME CallsAssumption == IsFiniteSet(Calls)
ASSUME SizeAssumption == Size \in [Calls -> Nat \ {0}]
ASSUME LimitAssumption == /\ PendingLimit \in Nat \ {0}
                          /\ PendingBytes \in Nat
                          /\ CallHistory \in Nat
                          /\ FrameBytes \in Nat
                          /\ MaxBatches \in Nat

VARIABLES
    \* the goroutine of each call
    pc,         \* where it is
    ret,        \* what Call returned
    canceled,   \* its context is cancelled
    done,       \* the last value sent on its channel p.done; a receive leaves it
    sends,      \* how many values were sent on that channel
    timer,      \* its timer p.timer; "fired": the callback may take b.mu
    \* the fields of Broker
    pending, seen, queued, sealed, reserved, bytes, number, delivered, active,
    wake,       \* the buffered channel b.wake holds a token
    err,
    \* the response round that waits in round.Next
    reader,
    \* history variables
    admitted,   \* the calls that ever reserved a place
    batchOf,    \* the number of the batch a call was sealed into, or 0
    acked       \* the batches whose Delivered returned nil

callVars   == <<pc, ret, canceled, done, sends, timer>>
brokerVars == <<pending, seen, queued, sealed, reserved, bytes, number,
                delivered, active, wake, err>>
histVars   == <<admitted, batchOf, acked>>
vars       == <<callVars, brokerVars, reader, histVars>>

Reasons == {"ErrClosed", "ErrCall", "ErrCapacity", "ErrTimeout", "Canceled"}
Results == {"client", "cancelled", "timedout"}
Returns == {"none", "ErrCall", "ErrClosed", "ErrCapacity", "Canceled"} \cup Results
Places  == {"idle", "overflowing", "validating", "suspended", "cancelling",
            "draining", "returned"}

\* The sum of the encoded sizes of a set of calls.
Bytes(S) == MapThenSumSet(LAMBDA c : Size[c], S)

Validating == {c \in Calls : pc[c] = "validating"}
Waiting    == {c \in Calls : pc[c] \in {"suspended", "cancelling", "draining"}}

Init ==
    /\ pc = [c \in Calls |-> "idle"]
    /\ ret = [c \in Calls |-> "none"]
    /\ canceled = [c \in Calls |-> FALSE]
    /\ done = [c \in Calls |-> "none"]
    /\ sends = [c \in Calls |-> 0]
    /\ timer = [c \in Calls |-> "off"]
    /\ pending = {}
    /\ seen = {}
    /\ queued = <<>>
    /\ sealed = <<>>
    /\ reserved = 0
    /\ bytes = 0
    /\ number = 0
    /\ delivered = FALSE
    /\ active = FALSE
    /\ wake = FALSE
    /\ err = "nil"
    /\ reader = "away"
    /\ admitted = {}
    /\ batchOf = [c \in Calls |-> 0]
    /\ acked = {}

----------------------------------------------------------------------------
(* Retirement.                                                             *)

\* A mutant for checking: the round is woken only when no token was ever due.
signalFirst == wake' = (wake \/ pending = {})

\* The non-blocking send on b.wake.
signal == wake' = TRUE

\* timer.Stop on a set of calls: a callback already started still runs.
Stopped(S) ==
    [c \in Calls |-> IF c \in S /\ timer[c] = "armed" THEN "off" ELSE timer[c]]

\* A send of value[c] on the p.done of every call c in S.
Send(S, value) ==
    /\ done' = [c \in Calls |-> IF c \in S THEN value[c] ELSE done[c]]
    /\ sends' = [c \in Calls |-> IF c \in S THEN sends[c] + 1 ELSE sends[c]]

\* The error text a blocked call receives for a retirement reason.
Message(reason) == IF reason = "ErrTimeout" THEN "timedout" ELSE "cancelled"

\* What retirement may write; the other variables belong to its callers.
retireVars == <<err, done, sends, timer, pending, queued, sealed, bytes, delivered,
                wake>>
keptVars   == <<canceled, seen, number, reader, histVars>>

failLocked(reason) ==
    IF err # "nil"
    THEN UNCHANGED retireVars
    ELSE /\ err' = reason
         /\ Send(pending, [c \in Calls |-> Message(reason)])
         /\ timer' = Stopped(pending)
         /\ pending' = {}
         /\ queued' = <<>>
         /\ sealed' = <<>>
         /\ bytes' = 0
         /\ delivered' = FALSE
         /\ wake' = TRUE

\* Close, from the socket, the turn or the driver.
Close ==
    /\ failLocked("ErrClosed")
    /\ UNCHANGED <<pc, ret, reserved, active, keptVars>>

----------------------------------------------------------------------------
(* The prompt that owns the calls.                                         *)

\* The calls blocked or under validation, as Stats().Pending counts them.
Unfinished == Cardinality(pending) + reserved

BeginTurn ==
    /\ err = "nil"
    /\ ~active
    /\ Unfinished = 0
    /\ active' = TRUE
    /\ UNCHANGED <<callVars, pending, seen, queued, sealed, reserved, bytes,
                   number, delivered, wake, err, reader, histVars>>

EndTurn ==
    /\ err = "nil"
    /\ active
    /\ active' = FALSE
    /\ IF Unfinished # 0 THEN failLocked("ErrCall") ELSE UNCHANGED retireVars
    /\ UNCHANGED <<pc, ret, reserved, keptVars>>

----------------------------------------------------------------------------
(* Broker.Call.                                                            *)

Return(c, value) ==
    /\ pc' = [pc EXCEPT ![c] = "returned"]
    /\ ret' = [ret EXCEPT ![c] = value]

\* The caller's context is cancelled: its connection closed, say.
CancelContext(c) ==
    /\ ~canceled[c]
    /\ pc[c] # "returned"
    /\ canceled' = [canceled EXCEPT ![c] = TRUE]
    /\ UNCHANGED <<pc, ret, done, sends, timer, brokerVars, reader, histVars>>

\* Credentials, version, ID, alias, arguments or the context refused up front.
CallInvalid(c) ==
    /\ pc[c] = "idle"
    /\ Return(c, IF canceled[c] THEN "Canceled" ELSE "ErrCall")
    /\ UNCHANGED <<canceled, done, sends, timer, brokerVars, reader, histVars>>

\* Why admission refuses the call, the checks in the order of the code.
Refusal(c) ==
    IF err # "nil" THEN "ErrClosed"
    ELSE IF ~active THEN "ErrCall"
    ELSE IF Unfinished >= PendingLimit THEN "ErrCapacity"
    ELSE IF IdOf[c] \in seen THEN "ErrCall"
    ELSE "none"

CallRefused(c) ==
    /\ pc[c] = "idle"
    /\ Refusal(c) # "none"
    /\ Return(c, Refusal(c))
    /\ UNCHANGED <<canceled, done, sends, timer, brokerVars, reader, histVars>>

\* The history of call identities is full: b.mu is released before b.fail.
CallOverflows(c) ==
    /\ pc[c] = "idle"
    /\ Refusal(c) = "none"
    /\ Cardinality(seen) >= CallHistory
    /\ pc' = [pc EXCEPT ![c] = "overflowing"]
    /\ UNCHANGED <<ret, canceled, done, sends, timer, brokerVars, reader, histVars>>

CallFails(c) ==
    /\ pc[c] = "overflowing"
    /\ failLocked("ErrCapacity")
    /\ Return(c, "ErrCapacity")
    /\ UNCHANGED <<reserved, active, keptVars>>

CallReserves(c) ==
    /\ pc[c] = "idle"
    /\ Refusal(c) = "none"
    /\ Cardinality(seen) < CallHistory
    /\ seen' = seen \cup {IdOf[c]}
    /\ reserved' = reserved + 1
    /\ pc' = [pc EXCEPT ![c] = "validating"]
    /\ admitted' = admitted \cup {c}
    /\ UNCHANGED <<ret, active, retireVars, canceled, number, reader, batchOf, acked>>

\* A mutant: the bytes are not counted again after the validation.
AcceptableAnySize(c) == err = "nil" /\ ~canceled[c]

\* A mutant: the broker is not asked again whether it was retired meanwhile.
AcceptableUnchecked(c) == ~canceled[c] /\ bytes + Size[c] <= PendingBytes

\* What is checked again when the unlocked validation is over.
Acceptable(c) ==
    /\ err = "nil"
    /\ ~canceled[c]
    /\ bytes + Size[c] <= PendingBytes

\* Validation fails, or the call is no longer acceptable.
CallDropped(c) ==
    /\ pc[c] = "validating"
    /\ reserved' = reserved - 1
    /\ \/ err # "nil" /\ Return(c, "ErrClosed")
       \/ err = "nil" /\ Return(c, "ErrCall")
       \/ err = "nil" /\ canceled[c] /\ Return(c, "Canceled")
       \/ /\ err = "nil" /\ ~canceled[c] /\ ~Acceptable(c)
          /\ Return(c, "ErrCapacity")
    /\ UNCHANGED <<active, retireVars, keptVars>>

CallSuspends(c) ==
    /\ pc[c] = "validating"
    /\ Acceptable(c)
    /\ reserved' = reserved - 1
    /\ pending' = pending \cup {c}
    /\ queued' = Append(queued, c)
    /\ bytes' = bytes + Size[c]
    /\ timer' = [timer EXCEPT ![c] = "armed"]
    /\ signal
    /\ pc' = [pc EXCEPT ![c] = "suspended"]
    /\ UNCHANGED <<ret, done, sends, sealed, delivered, active, err, keptVars>>

CallReceives(c) ==
    /\ pc[c] \in {"suspended", "draining"}
    /\ done[c] # "none"
    /\ Return(c, done[c])
    /\ UNCHANGED <<canceled, done, sends, timer, brokerVars, reader, histVars>>

\* The select may take ctx.Done although p.done is ready as well.
CallCancels(c) ==
    /\ pc[c] = "suspended"
    /\ canceled[c]
    /\ pc' = [pc EXCEPT ![c] = "cancelling"]
    /\ UNCHANGED <<ret, canceled, done, sends, timer, brokerVars, reader, histVars>>

failPending(c, reason) ==
    IF c \in pending THEN failLocked(reason) ELSE UNCHANGED retireVars

CallFailsPending(c) ==
    /\ pc[c] = "cancelling"
    /\ failPending(c, "Canceled")
    /\ pc' = [pc EXCEPT ![c] = "draining"]
    /\ UNCHANGED <<ret, reserved, active, keptVars>>

\* The tool deadline passes; the callback starts and later takes b.mu.
TimerFires(c) ==
    /\ timer[c] = "armed"
    /\ timer' = [timer EXCEPT ![c] = "fired"]
    /\ UNCHANGED <<pc, ret, canceled, done, sends, brokerVars, reader, histVars>>

\* The callback runs once in the code; repeating it changes nothing, because
\* the call never becomes pending again.
expire(c) ==
    /\ timer[c] = "fired"
    /\ failPending(c, "ErrTimeout")
    /\ UNCHANGED <<pc, ret, reserved, active, keptVars>>

----------------------------------------------------------------------------
(* The response round: round.Next polls the broker, parks on b.wake and    *)
(* seals what is queued.                                                   *)

RoundEnters ==
    /\ reader = "away"
    /\ reader' = "polling"
    /\ UNCHANGED <<callVars, brokerVars, histVars>>

\* A retired broker ends the round; otherwise Stats().Queued decides.
RoundPolls ==
    /\ reader = "polling"
    /\ reader' = IF err # "nil" THEN "away"
                 ELSE IF queued # <<>> THEN "sealing" ELSE "parked"
    /\ UNCHANGED <<callVars, brokerVars, histVars>>

RoundWakes ==
    /\ reader = "parked"
    /\ wake
    /\ wake' = FALSE
    /\ reader' = "polling"
    /\ UNCHANGED <<callVars, pending, seen, queued, sealed, reserved, bytes,
                   number, delivered, active, err, histVars>>

\* Another case of the select: relayDone, other activity of the prompt, or
\* the end of the response.
RoundLeavesSelect ==
    /\ reader = "parked"
    /\ reader' \in {"polling", "away"}
    /\ UNCHANGED <<callVars, brokerVars, histVars>>

\* The calls that fit one frame: the prefix the loop takes before it breaks.
Fits(n) == Bytes({queued[i] : i \in 1..n}) <= FrameBytes
TakesPrefix(n) == Fits(n) /\ (n < Len(queued) => ~Fits(n + 1))

\* A mutant: the last call of the batch stays queued.
RestOverlapping(n) == SubSeq(queued, IF n = 0 THEN 1 ELSE n, Len(queued))

\* The calls left for another batch.
Rest(n) == SubSeq(queued, n + 1, Len(queued))

\* The counter moves even when no call fits (ErrCapacity).
Seal ==
    /\ reader = "sealing"
    /\ reader' = "away"
    /\ IF err = "nil" /\ sealed = <<>> /\ queued # <<>>
       THEN /\ number < MaxBatches
            /\ number' = number + 1
            /\ \E n \in 0..Len(queued) :
                 /\ TakesPrefix(n)
                 /\ sealed' = SubSeq(queued, 1, n)
                 /\ queued' = Rest(n)
                 /\ batchOf' = [c \in Calls |->
                                  IF \E i \in 1..n : queued[i] = c
                                  THEN number + 1 ELSE batchOf[c]]
                 /\ delivered' = (n = 0 /\ delivered)
       ELSE UNCHANGED <<number, sealed, queued, batchOf, delivered>>
    /\ UNCHANGED <<callVars, pending, seen, reserved, bytes, active, wake, err,
                   admitted, acked>>

----------------------------------------------------------------------------
(* Delivery and results.                                                   *)

\* The response that carried batch n reached the client.
Delivered(n) ==
    /\ err = "nil"
    /\ n = number
    /\ sealed # <<>>
    /\ ~delivered
    /\ delivered' = TRUE
    /\ acked' = acked \cup {n}
    /\ UNCHANGED <<callVars, pending, seen, queued, sealed, reserved, bytes,
                   number, active, wake, err, reader, admitted, batchOf>>

\* A mutant: results are taken before their batch was delivered.
matchesDeliveredEarly(R) ==
    /\ err = "nil"
    /\ Len(sealed) = Cardinality(R)
    /\ Range(sealed) \subseteq R

\* The distinct result IDs R are exactly those of the delivered batch.
matchesDelivered(R) ==
    /\ err = "nil"
    /\ delivered
    /\ Len(sealed) = Cardinality(R)
    /\ Range(sealed) \subseteq R

\* prepareResults: a nonempty set of valid results with distinct IDs.
Prepared(R) == R # {} /\ Cardinality(R) <= PendingLimit

\* A call of the batch without a result would receive the zero ToolResult.
Resolve(R) ==
    /\ Prepared(R)
    /\ matchesDelivered(R)
    /\ Send(Range(sealed), [c \in Calls |-> IF c \in R THEN "client" ELSE "empty"])
    /\ timer' = Stopped(Range(sealed))
    /\ bytes' = bytes - Bytes(Range(sealed))
    /\ pending' = pending \ Range(sealed)
    /\ sealed' = <<>>
    /\ delivered' = FALSE
    /\ IF queued # <<>> THEN signal ELSE UNCHANGED wake
    /\ UNCHANGED <<pc, ret, reserved, active, queued, err, keptVars>>

\* The exact delivered results end the prompt instead of resuming it.
Abandon(R) ==
    /\ Prepared(R)
    /\ matchesDelivered(R)
    /\ failLocked("ErrClosed")
    /\ UNCHANGED <<pc, ret, reserved, active, keptVars>>

----------------------------------------------------------------------------
CallStep(c) ==
    \/ CallInvalid(c)  \/ CallRefused(c)  \/ CallOverflows(c) \/ CallFails(c)
    \/ CallReserves(c) \/ CallDropped(c)  \/ CallSuspends(c)
    \/ CallReceives(c) \/ CallCancels(c)  \/ CallFailsPending(c)

Next ==
    \/ Close \/ BeginTurn \/ EndTurn
    \/ \E c \in Calls : CallStep(c) \/ CancelContext(c) \/ TimerFires(c) \/ expire(c)
    \/ RoundEnters \/ RoundPolls \/ RoundWakes \/ RoundLeavesSelect \/ Seal
    \/ \E n \in 1..MaxBatches : Delivered(n)
    \/ \E R \in SUBSET Calls : Resolve(R) \/ Abandon(R)

Spec == Init /\ [][Next]_vars

----------------------------------------------------------------------------
(* Properties.                                                             *)

\* Every field of the broker and every goroutine has a value of its type.
TypeOK ==
    /\ pc \in [Calls -> Places]
    /\ ret \in [Calls -> Returns]
    /\ canceled \in [Calls -> BOOLEAN]
    /\ done \in [Calls -> {"none"} \cup Results]
    /\ sends \in [Calls -> Nat]
    /\ timer \in [Calls -> {"off", "armed", "fired"}]
    /\ pending \in SUBSET Calls
    /\ seen \subseteq {IdOf[c] : c \in Calls}
    /\ queued \in Seq(Calls)
    /\ sealed \in Seq(Calls)
    /\ reserved \in Nat
    /\ bytes \in Int
    /\ number \in Nat
    /\ delivered \in BOOLEAN
    /\ active \in BOOLEAN
    /\ wake \in BOOLEAN
    /\ err \in {"nil"} \cup Reasons
    /\ reader \in {"away", "polling", "parked", "sealing"}
    /\ admitted \in SUBSET Calls
    /\ batchOf \in [Calls -> Nat]
    /\ acked \in SUBSET Nat

\* Whether a sequence holds an element twice.
Repeats(s) == \E i, j \in 1..Len(s) : i # j /\ s[i] = s[j]

\* The pending table, the queue and the sealed batch agree: every pending call
\* stands in exactly one place of one of them, and none of them holds a call
\* that is no longer pending (Call, Seal, Resolve and failLocked edit all three).
BatchPartition ==
    /\ pending = Range(queued) \cup Range(sealed)
    /\ Range(queued) \cap Range(sealed) = {}
    /\ ~Repeats(queued)
    /\ ~Repeats(sealed)

\* A goroutine blocked in Call is pending exactly while nothing was sent on
\* its channel, and it never gets two sends: the channel holds one value, so a
\* second send would block with b.mu held.  A retired broker keeps no call.
AnsweredOrPending ==
    /\ pending = {c \in Waiting : done[c] = "none"}
    /\ \A c \in Calls : sends[c] <= 1
    /\ err # "nil" => pending = {}

\* Outside an owned prompt no call is blocked or under validation, unless the
\* broker is retired: EndTurn closes admission and looks in one critical
\* section, although validation runs without the lock.
IdleIsEmpty == ~active /\ err = "nil" => pending = {} /\ Validating = {}

\* The limits on calls and identities, and the count of reservations.
CallLimits ==
    /\ reserved = Cardinality(Validating)
    /\ Cardinality(pending) + Cardinality(Validating) <= PendingLimit
    /\ Cardinality(seen) <= CallHistory

\* The limits hold across the unlocked validation: calls, bytes and identities
\* are bounded, and the counters equal what they count.
Capacity ==
    /\ CallLimits
    /\ bytes = Bytes(pending)
    /\ bytes <= PendingBytes

\* An identity is admitted once in the life of the broker, even when its first
\* call was dropped by validation, answered, or is still waiting.
IdentityOnce == \A c, d \in admitted : IdOf[c] = IdOf[d] => c = d

\* A client result reaches a call only if the batch that carried the call was
\* acknowledged as delivered, not a batch before it.
DeliveredAnswer ==
    \A c \in Calls : done[c] = "client" => batchOf[c] \in acked

\* A round parked on the wake channel while calls are queued finds a token.
NoLostWakeup == reader = "parked" /\ queued # <<>> => wake

\* What was sent on a call's channel is authoritative: no later cancellation,
\* timer or retirement adds to it or replaces it.
CommittedResult == [][\A c \in Calls : done[c] # "none" =>
                        done'[c] = done[c] /\ sends'[c] = sends[c]]_vars

\* A timer retires the broker only for a call that is still unanswered, and so
\* does the cancellation of a caller's context; resolution may come first.
OnlyOwnFailure ==
    [][/\ err = "nil" /\ err' = "ErrTimeout" =>
            \E c \in pending : timer[c] = "fired"
       /\ err = "nil" /\ err' = "Canceled" =>
            \E c \in pending : canceled[c]]_vars

\* The broker implements the handoff both parties rely on.
Line == sealed \o queued

Handoff == INSTANCE ToolHandoff WITH
    line <- Line, offer <- IF delivered THEN Len(sealed) ELSE 0,
    answer <- done, open <- err = "nil"

\* Calls are offered in the order they were accepted, one prefix at a time,
\* and answered once (ToolHandoff).
HandoffSpec == Handoff!Spec
=============================================================================
