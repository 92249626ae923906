------------------------- MODULE RelayBrokerProofs -------------------------
(***************************************************************************)
(* Proofs about RelayBroker and RelaySocket, for any sets of calls,        *)
(* children and requests and any limits.                                   *)
(***************************************************************************)
EXTENDS RelayBroker, RelaySocket, SequenceTheorems, FiniteSetTheorems, TLAPS

----------------------------------------------------------------------------
(* Sequences without repetitions.                                          *)

\* The two parts of a sequence cut at n hold its elements between them.
LEMMA CutRange ==
    ASSUME NEW S, NEW q \in Seq(S), NEW n \in 0..Len(q)
    PROVE  /\ SubSeq(q, 1, n) \in Seq(S)
           /\ SubSeq(q, n + 1, Len(q)) \in Seq(S)
           /\ Len(SubSeq(q, 1, n)) = n
           /\ Len(SubSeq(q, n + 1, Len(q))) = Len(q) - n
           /\ \A i \in 1..n : SubSeq(q, 1, n)[i] = q[i]
           /\ \A i \in 1..(Len(q) - n) : SubSeq(q, n + 1, Len(q))[i] = q[n + i]
           /\ Range(SubSeq(q, 1, n)) \cup Range(SubSeq(q, n + 1, Len(q))) = Range(q)
<1> DEFINE a == SubSeq(q, 1, n)
           b == SubSeq(q, n + 1, Len(q))
<1>0. Len(q) \in Nat /\ n \in Nat /\ n <= Len(q)
  BY LenProperties
<1>1. \A i \in 1..Len(q) : q[i] \in S
  BY ElementOfSeq
<1>2. /\ a \in Seq(S)
      /\ Len(a) = n
      /\ \A i \in 1..n : a[i] = q[i]
  <2>1. \A i \in 1..n : q[i] \in S
    BY <1>0, <1>1
  <2>2. /\ a \in Seq(S)
        /\ Len(a) = IF 1 <= n THEN n - 1 + 1 ELSE 0
        /\ \A i \in 1..(n - 1 + 1) : a[i] = q[1 + i - 1]
    BY <1>0, <2>1, SubSeqProperties
  <2> QED BY <1>0, <2>2
<1>3. /\ b \in Seq(S)
      /\ Len(b) = Len(q) - n
      /\ \A i \in 1..(Len(q) - n) : b[i] = q[n + i]
  <2>1. \A i \in (n + 1)..Len(q) : q[i] \in S
    BY <1>0, <1>1
  <2>2. /\ b \in Seq(S)
        /\ Len(b) = IF n + 1 <= Len(q) THEN Len(q) - (n + 1) + 1 ELSE 0
        /\ \A i \in 1..(Len(q) - (n + 1) + 1) : b[i] = q[(n + 1) + i - 1]
    BY <1>0, <2>1, SubSeqProperties
  <2> QED BY <1>0, <2>2
<1>4. Range(a) \cup Range(b) = Range(q)
  <2>1. Range(q) = {q[i] : i \in 1..Len(q)}
    BY RangeEquality
  <2>2. Range(a) = {a[i] : i \in 1..n}
    BY <1>2, RangeEquality
  <2>3. Range(b) = {b[i] : i \in 1..(Len(q) - n)}
    BY <1>3, RangeEquality
  <2>4. ASSUME NEW x \in Range(q) PROVE x \in Range(a) \cup Range(b)
    <3>1. PICK i \in 1..Len(q) : x = q[i]
      BY <2>1, <2>4
    <3>2. CASE i <= n
      BY <1>0, <1>2, <2>2, <3>1, <3>2
    <3>3. CASE i > n
      <4>1. i - n \in 1..(Len(q) - n) /\ b[i - n] = q[i]
        BY <1>0, <1>3, <3>1, <3>3
      <4> QED BY <2>3, <3>1, <4>1
    <3> QED BY <1>0, <3>1, <3>2, <3>3
  <2>5. Range(a) \subseteq Range(q)
    BY <1>0, <1>2, <2>1, <2>2
  <2>6. Range(b) \subseteq Range(q)
    BY <1>0, <1>3, <2>1, <2>3
  <2> QED BY <2>4, <2>5, <2>6
<1> QED BY <1>2, <1>3, <1>4

\* Cutting a sequence without repetitions leaves two such, with no common element.
LEMMA CutRepeats ==
    ASSUME NEW S, NEW q \in Seq(S), NEW n \in 0..Len(q), ~Repeats(q)
    PROVE  /\ ~Repeats(SubSeq(q, 1, n))
           /\ ~Repeats(SubSeq(q, n + 1, Len(q)))
           /\ Range(SubSeq(q, 1, n)) \cap Range(SubSeq(q, n + 1, Len(q))) = {}
<1> DEFINE a == SubSeq(q, 1, n)
           b == SubSeq(q, n + 1, Len(q))
<1>0. Len(q) \in Nat /\ n \in Nat /\ n <= Len(q)
  BY LenProperties
<1>1. /\ a \in Seq(S) /\ b \in Seq(S) /\ Len(a) = n /\ Len(b) = Len(q) - n
      /\ \A i \in 1..n : a[i] = q[i]
      /\ \A i \in 1..(Len(q) - n) : b[i] = q[n + i]
  BY CutRange
<1>2. \A i, j \in 1..Len(q) : q[i] = q[j] => i = j
  BY DEF Repeats
<1>3. ~Repeats(a)
  BY <1>0, <1>1, <1>2 DEF Repeats
<1>4. ~Repeats(b)
  BY <1>0, <1>1, <1>2 DEF Repeats
<1>5. Range(a) \cap Range(b) = {}
  <2>1. Range(a) = {a[i] : i \in 1..n}
    BY <1>1, RangeEquality
  <2>2. Range(b) = {b[i] : i \in 1..(Len(q) - n)}
    BY <1>1, RangeEquality
  <2>3. ASSUME NEW i \in 1..n, NEW j \in 1..(Len(q) - n) PROVE a[i] # b[j]
    BY <1>0, <1>1, <1>2
  <2> QED BY <2>1, <2>2, <2>3
<1> QED BY <1>3, <1>4, <1>5

\* Appending an element adds it to the range, and repeats nothing if it is new.
LEMMA AppendRange ==
    ASSUME NEW S, NEW q \in Seq(S), NEW e \in S
    PROVE  /\ Append(q, e) \in Seq(S)
           /\ Range(Append(q, e)) = Range(q) \cup {e}
           /\ ~Repeats(q) /\ e \notin Range(q) => ~Repeats(Append(q, e))
<1>0. Len(q) \in Nat
  BY LenProperties
<1>1. /\ Append(q, e) \in Seq(S)
      /\ Len(Append(q, e)) = Len(q) + 1
      /\ \A i \in 1..Len(q) : Append(q, e)[i] = q[i]
      /\ Append(q, e)[Len(q) + 1] = e
  BY AppendProperties
<1>2. Range(q) = {q[i] : i \in 1..Len(q)}
  BY RangeEquality
<1>3. Range(Append(q, e)) = {Append(q, e)[i] : i \in 1..(Len(q) + 1)}
  BY <1>1, RangeEquality
<1>4. Range(Append(q, e)) = Range(q) \cup {e}
  <2>1. ASSUME NEW i \in 1..(Len(q) + 1)
        PROVE  Append(q, e)[i] \in Range(q) \cup {e}
    <3>1. CASE i = Len(q) + 1
      BY <1>1, <3>1
    <3>2. CASE i \in 1..Len(q)
      BY <1>1, <1>2, <3>2
    <3> QED BY <1>0, <3>1, <3>2
  <2>2. Range(q) \subseteq Range(Append(q, e))
    BY <1>0, <1>1, <1>2, <1>3
  <2>3. e \in Range(Append(q, e))
    BY <1>0, <1>1, <1>3
  <2> QED BY <1>3, <2>1, <2>2, <2>3
<1>5. ASSUME ~Repeats(q), e \notin Range(q) PROVE ~Repeats(Append(q, e))
  BY <1>0, <1>1, <1>2, <1>5 DEF Repeats
<1> QED BY <1>1, <1>4, <1>5

\* The empty sequence holds nothing, and only it does.
LEMMA EmptyRange ==
    ASSUME NEW S
    PROVE  /\ Range(<<>>) = {} /\ ~Repeats(<<>>)
           /\ \A q \in Seq(S) : Range(q) = {} => q = <<>>
<1>1. <<>> \in Seq(S) /\ Len(<<>>) = 0
  BY EmptySeq
<1>2. Range(<<>>) = {}
  <2>1. Range(<<>>) = {<<>>[i] : i \in 1..Len(<<>>)}
    BY <1>1, RangeEquality, Zenon
  <2> QED BY <1>1, <2>1
<1>3. ~Repeats(<<>>)
  BY <1>1 DEF Repeats
<1>4. ASSUME NEW q \in Seq(S), q # <<>> PROVE Range(q) # {}
  <2>1. Len(q) \in Nat \ {0}
    BY <1>4, EmptySeq
  <2>2. q[1] \in Range(q)
    BY <2>1, RangeEquality
  <2> QED BY <2>2
<1> QED BY <1>2, <1>3, <1>4

----------------------------------------------------------------------------
(* The inductive invariant.                                                *)

\* Nothing was sent to a call that is not yet suspended, and nothing means no
\* send at all.
Fresh == \A c \in Calls :
             /\ pc[c] \in {"idle", "overflowing", "validating"} => done[c] = "none"
             /\ done[c] = "none" => sends[c] = 0

\* The reservations are the calls under validation.
Counted == reserved = Cardinality(Validating)

BrokerInv == /\ TypeOK
             /\ BatchPartition
             /\ AnsweredOrPending
             /\ Fresh
             /\ Counted
             /\ IdleIsEmpty

\* What retirement does to a broker that satisfies the invariant.
LEMMA RetireEffect ==
    ASSUME BrokerInv, NEW reason \in Reasons, failLocked(reason)
    PROVE  /\ err' \in Reasons
           /\ done' \in [Calls -> {"none"} \cup Results]
           /\ sends' \in [Calls -> Nat]
           /\ timer' \in [Calls -> {"off", "armed", "fired"}]
           /\ pending' = {} /\ queued' = <<>> /\ sealed' = <<>>
           /\ bytes' \in Int /\ delivered' \in BOOLEAN /\ wake' \in BOOLEAN
           /\ \A c \in pending : done'[c] # "none" /\ sends'[c] = 1
           /\ \A c \in Calls \ pending : done'[c] = done[c] /\ sends'[c] = sends[c]
<1>1. CASE err # "nil"
  <2>1. pending = {} /\ queued = <<>> /\ sealed = <<>>
    BY <1>1, EmptyRange DEF BrokerInv, TypeOK, BatchPartition, AnsweredOrPending
  <2> QED
    BY <1>1, <2>1 DEF failLocked, retireVars, BrokerInv, TypeOK
<1>2. CASE err = "nil"
  <2>1. Message(reason) \in Results /\ Message(reason) # "none"
    BY DEF Message, Results
  <2>2. \A c \in pending : c \in Calls /\ sends[c] = 0
    BY DEF BrokerInv, TypeOK, AnsweredOrPending, Waiting, Fresh
  <2>0. /\ done \in [Calls -> {"none"} \cup Results] /\ sends \in [Calls -> Nat]
        /\ done' = [c \in Calls |-> IF c \in pending THEN Message(reason) ELSE done[c]]
        /\ sends' = [c \in Calls |-> IF c \in pending THEN sends[c] + 1 ELSE sends[c]]
    BY <1>2 DEF failLocked, Send, BrokerInv, TypeOK
  <2>3. done' \in [Calls -> {"none"} \cup Results] /\ sends' \in [Calls -> Nat]
    BY <2>0, <2>1
  <2>4. timer' \in [Calls -> {"off", "armed", "fired"}]
    BY <1>2 DEF failLocked, Stopped, BrokerInv, TypeOK
  <2>5. /\ \A c \in pending : done'[c] # "none" /\ sends'[c] = 1
        /\ \A c \in Calls \ pending : done'[c] = done[c] /\ sends'[c] = sends[c]
    BY <1>2, <2>1, <2>2 DEF failLocked, Send
  <2>6. pending' = {} /\ queued' = <<>> /\ sealed' = <<>> /\ err' = reason
        /\ bytes' = 0 /\ delivered' = FALSE /\ wake' = TRUE
    BY <1>2 DEF failLocked
  <2>7. bytes' \in Int
    BY <2>6
  <2>8. delivered' \in BOOLEAN /\ wake' \in BOOLEAN
    BY <2>6, Zenon
  <2> QED
    BY <2>3, <2>4, <2>5, <2>6, <2>7, <2>8
<1> QED BY <1>1, <1>2

LEMMA InitInv == Init => BrokerInv
<1> SUFFICES ASSUME Init PROVE BrokerInv
  OBVIOUS
<1>1. TypeOK
  <2>1. <<>> \in Seq(Calls)
    BY EmptySeq
  <2>2. delivered \in BOOLEAN /\ active \in BOOLEAN /\ wake \in BOOLEAN
    BY Zenon DEF Init
  <2>3. canceled \in [Calls -> BOOLEAN]
    BY DEF Init
  <2>4. /\ pc \in [Calls -> Places] /\ ret \in [Calls -> Returns]
        /\ done \in [Calls -> {"none"} \cup Results]
        /\ sends \in [Calls -> Nat]
        /\ timer \in [Calls -> {"off", "armed", "fired"}]
        /\ batchOf \in [Calls -> Nat]
    BY DEF Init, Places, Returns
  <2> QED
    BY <2>1, <2>2, <2>3, <2>4 DEF Init, TypeOK
<1>2. Waiting = {} /\ Validating = {}
  BY DEF Init, Waiting, Validating
<1>3. BatchPartition
  BY EmptyRange DEF Init, BatchPartition
<1>4. AnsweredOrPending
  BY <1>2 DEF Init, AnsweredOrPending
<1>5. Fresh
  BY DEF Init, Fresh
<1>6. Counted
  BY <1>2, FS_EmptySet DEF Init, Counted
<1>7. IdleIsEmpty
  BY <1>2 DEF Init, IdleIsEmpty
<1> QED BY <1>1, <1>3, <1>4, <1>5, <1>6, <1>7 DEF BrokerInv

\* A step that retires the broker, and moves no call in or out of validation
\* or waiting, keeps the invariant.
LEMMA RetireKeeps ==
    ASSUME BrokerInv, NEW reason \in Reasons, failLocked(reason),
           pc' \in [Calls -> Places], ret' \in [Calls -> Returns],
           \A c \in Calls :
               /\ pc'[c] = "validating" <=> pc[c] = "validating"
               /\ (pc'[c] \in {"suspended", "cancelling", "draining"}) <=>
                  (pc[c] \in {"suspended", "cancelling", "draining"})
               /\ pc'[c] \in {"idle", "overflowing"} => pc[c] \in {"idle", "overflowing"},
           reserved' = reserved, active' \in BOOLEAN, UNCHANGED keptVars
    PROVE  BrokerInv'
<1> USE DEF BrokerInv
<1>1. /\ err' \in Reasons
      /\ done' \in [Calls -> {"none"} \cup Results]
      /\ sends' \in [Calls -> Nat]
      /\ timer' \in [Calls -> {"off", "armed", "fired"}]
      /\ pending' = {} /\ queued' = <<>> /\ sealed' = <<>>
      /\ bytes' \in Int /\ delivered' \in BOOLEAN /\ wake' \in BOOLEAN
      /\ \A c \in pending : done'[c] # "none" /\ sends'[c] = 1
      /\ \A c \in Calls \ pending : done'[c] = done[c] /\ sends'[c] = sends[c]
  BY RetireEffect
<1>2. Validating' = Validating /\ Waiting' = Waiting
  BY DEF Validating, Waiting
<1>3. TypeOK'
  <2>1. <<>> \in Seq(Calls)
    BY EmptySeq
  <2> QED
    BY <1>1, <2>1 DEF TypeOK, keptVars, histVars
<1>4. BatchPartition'
  BY <1>1, EmptyRange DEF BatchPartition
<1>5. AnsweredOrPending'
  <2>1. \A c \in Waiting : done'[c] # "none"
    BY <1>1 DEF AnsweredOrPending, Waiting
  <2>2. ASSUME NEW c \in Calls PROVE sends'[c] <= 1
    <3>1. CASE c \in pending
      BY <1>1, <3>1
    <3>2. CASE c \notin pending
      BY <1>1, <3>2 DEF AnsweredOrPending
    <3> QED BY <3>1, <3>2
  <2> QED
    BY <1>1, <1>2, <2>1, <2>2 DEF AnsweredOrPending
<1>6. Fresh'
  BY <1>1 DEF Fresh, AnsweredOrPending, Waiting
<1>7. Counted'
  BY <1>2 DEF Counted
<1>8. IdleIsEmpty'
  BY <1>1 DEF IdleIsEmpty, Reasons
<1> QED BY <1>3, <1>4, <1>5, <1>6, <1>7, <1>8

\* A step that leaves the tables alone, moves no call in or out of validation,
\* and lets only an answered call stop waiting, keeps the invariant.
LEMMA CoreKeeps ==
    ASSUME BrokerInv, TypeOK',
           UNCHANGED <<pending, queued, sealed, err, done, sends, reserved, active>>,
           \A c \in Calls :
               /\ pc'[c] = "validating" <=> pc[c] = "validating"
               /\ pc'[c] \in {"suspended", "cancelling", "draining"} =>
                  pc[c] \in {"suspended", "cancelling", "draining"}
               /\ pc[c] \in {"suspended", "cancelling", "draining"} =>
                  \/ pc'[c] \in {"suspended", "cancelling", "draining"}
                  \/ done[c] # "none"
               /\ pc'[c] \in {"idle", "overflowing"} => pc[c] \in {"idle", "overflowing"}
    PROVE  BrokerInv'
<1> USE DEF BrokerInv
<1>1. Validating' = Validating
  BY DEF Validating
<1>2. BatchPartition'
  BY DEF BatchPartition, Repeats
<1>3. AnsweredOrPending'
  <2>1. {c \in Waiting : done[c] = "none"}' = {c \in Waiting : done[c] = "none"}
    BY DEF Waiting
  <2> QED BY <2>1 DEF AnsweredOrPending
<1>4. Fresh'
  BY DEF Fresh
<1>5. Counted'
  BY <1>1 DEF Counted
<1>6. IdleIsEmpty'
  BY <1>1 DEF IdleIsEmpty
<1> QED BY <1>2, <1>3, <1>4, <1>5, <1>6

\* The steps of a call that retire nothing and take no place.
LEMMA CallKeeps ==
    ASSUME BrokerInv, NEW c \in Calls,
           \/ CallInvalid(c) \/ CallRefused(c) \/ CallOverflows(c)
           \/ CallReceives(c) \/ CallCancels(c) \/ CancelContext(c) \/ TimerFires(c)
    PROVE  BrokerInv'
<1>1. CASE CallInvalid(c)
  <2>1. TypeOK'
    BY <1>1 DEF CallInvalid, Return, BrokerInv, TypeOK, brokerVars, histVars, Places, Returns
  <2> QED
    BY <1>1, <2>1, CoreKeeps DEF CallInvalid, Return, BrokerInv, TypeOK, brokerVars
<1>2. CASE CallRefused(c)
  <2>1. TypeOK'
    BY <1>2 DEF CallRefused, Refusal, Return, BrokerInv, TypeOK, brokerVars, histVars,
                Places, Returns
  <2> QED
    BY <1>2, <2>1, CoreKeeps DEF CallRefused, Return, BrokerInv, TypeOK, brokerVars
<1>3. CASE CallOverflows(c)
  <2>1. TypeOK'
    BY <1>3 DEF CallOverflows, BrokerInv, TypeOK, brokerVars, histVars, Places
  <2> QED
    BY <1>3, <2>1, CoreKeeps DEF CallOverflows, BrokerInv, TypeOK, brokerVars
<1>4. CASE CallReceives(c)
  <2>1. TypeOK'
    BY <1>4 DEF CallReceives, Return, BrokerInv, TypeOK, brokerVars, histVars, Places, Returns
  <2> QED
    BY <1>4, <2>1, CoreKeeps DEF CallReceives, Return, BrokerInv, TypeOK, brokerVars
<1>5. CASE CallCancels(c)
  <2>1. TypeOK'
    BY <1>5 DEF CallCancels, BrokerInv, TypeOK, brokerVars, histVars, Places
  <2> QED
    BY <1>5, <2>1, CoreKeeps DEF CallCancels, BrokerInv, TypeOK, brokerVars
<1>6. CASE CancelContext(c)
  <2>1. TypeOK'
    BY <1>6 DEF CancelContext, BrokerInv, TypeOK, brokerVars, histVars
  <2> QED
    BY <1>6, <2>1, CoreKeeps DEF CancelContext, BrokerInv, TypeOK, brokerVars
<1>7. CASE TimerFires(c)
  <2>1. TypeOK'
    BY <1>7 DEF TimerFires, BrokerInv, TypeOK, brokerVars, histVars
  <2> QED
    BY <1>7, <2>1, CoreKeeps DEF TimerFires, BrokerInv, TypeOK, brokerVars
<1> QED BY <1>1, <1>2, <1>3, <1>4, <1>5, <1>6, <1>7

\* The steps of the response round, and the acknowledgement of a batch.
LEMMA RoundKeeps ==
    ASSUME BrokerInv,
           \/ RoundEnters \/ RoundPolls \/ RoundWakes \/ RoundLeavesSelect
           \/ \E n \in 1..MaxBatches : Delivered(n)
    PROVE  BrokerInv'
<1>1. CASE RoundEnters \/ RoundPolls \/ RoundLeavesSelect
  <2>1. TypeOK'
    BY <1>1 DEF RoundEnters, RoundPolls, RoundLeavesSelect, BrokerInv, TypeOK,
                callVars, brokerVars, histVars
  <2> QED
    BY <1>1, <2>1, CoreKeeps DEF RoundEnters, RoundPolls, RoundLeavesSelect,
                                 callVars, brokerVars
<1>2. CASE RoundWakes
  <2>1. wake' \in BOOLEAN
    BY <1>2, Zenon DEF RoundWakes
  <2>2. TypeOK'
    BY <1>2, <2>1 DEF RoundWakes, BrokerInv, TypeOK, callVars, histVars
  <2> QED
    BY <1>2, <2>2, CoreKeeps DEF RoundWakes, callVars
<1>3. CASE \E n \in 1..MaxBatches : Delivered(n)
  <2>1. PICK n \in 1..MaxBatches : Delivered(n)
    BY <1>3
  <2>2. delivered' \in BOOLEAN
    BY <2>1, Zenon DEF Delivered
  <2>3. TypeOK'
    BY <2>1, <2>2, LimitAssumption DEF Delivered, BrokerInv, TypeOK, callVars
  <2> QED
    BY <2>1, <2>3, CoreKeeps DEF Delivered, callVars
<1> QED BY <1>1, <1>2, <1>3

\* The number of calls under validation, one more or one less.
LEMMA ValidatingCount ==
    ASSUME BrokerInv
    PROVE  /\ IsFiniteSet(Validating) /\ Cardinality(Validating) \in Nat
           /\ Cardinality(Validating) = 0 <=> Validating = {}
           /\ \A c \in Calls \ Validating :
                  Cardinality(Validating \cup {c}) = Cardinality(Validating) + 1
           /\ \A c \in Validating :
                  Cardinality(Validating \ {c}) = Cardinality(Validating) - 1
<1>1. Validating \subseteq Calls
  BY DEF Validating
<1>2. IsFiniteSet(Validating)
  BY <1>1, CallsAssumption, FS_Subset
<1>3. /\ Cardinality(Validating) \in Nat
      /\ Cardinality(Validating) = 0 <=> Validating = {}
  BY <1>2, FS_CardinalityType, FS_EmptySet
<1>4. \A c \in Calls \ Validating :
          Cardinality(Validating \cup {c}) = Cardinality(Validating) + 1
  BY <1>2, FS_AddElement
<1>5. \A c \in Validating :
          Cardinality(Validating \ {c}) = Cardinality(Validating) - 1
  BY <1>2, FS_RemoveElement
<1> QED BY <1>2, <1>3, <1>4, <1>5

LEMMA ReserveKeeps ==
    ASSUME BrokerInv, NEW c \in Calls, CallReserves(c)
    PROVE  BrokerInv'
<1> USE DEF BrokerInv
<1>1. /\ UNCHANGED retireVars /\ UNCHANGED active
      /\ pc[c] = "idle" /\ pc' = [pc EXCEPT ![c] = "validating"]
      /\ reserved' = reserved + 1
  BY DEF CallReserves
<1>2. err = "nil" /\ active
  BY DEF CallReserves, Refusal
<1>3. TypeOK'
  BY <1>1 DEF CallReserves, TypeOK, retireVars, Places
<1>4. BatchPartition'
  BY <1>1 DEF BatchPartition, Repeats, retireVars
<1>5. AnsweredOrPending'
  <2>1. Waiting' = Waiting
    BY <1>1 DEF Waiting, TypeOK
  <2> QED BY <1>1, <2>1 DEF AnsweredOrPending, retireVars
<1>6. Fresh'
  BY <1>1 DEF Fresh, TypeOK, retireVars
<1>7. Counted'
  <2>1. Validating' = Validating \cup {c} /\ c \notin Validating
    BY <1>1 DEF Validating, TypeOK
  <2> QED BY <1>1, <2>1, ValidatingCount DEF Counted
<1>8. IdleIsEmpty'
  BY <1>1, <1>2 DEF IdleIsEmpty, retireVars
<1> QED BY <1>3, <1>4, <1>5, <1>6, <1>7, <1>8

LEMMA DropKeeps ==
    ASSUME BrokerInv, NEW c \in Calls, CallDropped(c)
    PROVE  BrokerInv'
<1> USE DEF BrokerInv
<1>1. /\ UNCHANGED retireVars /\ UNCHANGED active /\ UNCHANGED keptVars
      /\ pc[c] = "validating" /\ pc' = [pc EXCEPT ![c] = "returned"]
      /\ reserved' = reserved - 1
      /\ ret' \in [Calls -> Returns]
  BY DEF CallDropped, Return, TypeOK, Returns
<1>2. Validating' = Validating \ {c} /\ c \in Validating
  BY <1>1 DEF Validating, TypeOK
<1>3. Counted' /\ reserved' \in Nat
  <2>1. Cardinality(Validating') = Cardinality(Validating) - 1
    BY <1>2, ValidatingCount
  <2>2. Cardinality(Validating) # 0 /\ Cardinality(Validating) \in Nat
    BY <1>2, ValidatingCount
  <2> QED BY <1>1, <2>1, <2>2 DEF Counted
<1>4. TypeOK'
  BY <1>1, <1>3 DEF TypeOK, retireVars, keptVars, histVars, Places
<1>5. BatchPartition'
  BY <1>1 DEF BatchPartition, Repeats, retireVars
<1>6. AnsweredOrPending'
  <2>1. Waiting' = Waiting
    BY <1>1 DEF Waiting, TypeOK
  <2> QED BY <1>1, <2>1 DEF AnsweredOrPending, retireVars
<1>7. Fresh'
  BY <1>1 DEF Fresh, TypeOK, retireVars
<1>8. IdleIsEmpty'
  BY <1>1, <1>2 DEF IdleIsEmpty, retireVars
<1> QED BY <1>3, <1>4, <1>5, <1>6, <1>7, <1>8

LEMMA SuspendKeeps ==
    ASSUME BrokerInv, NEW c \in Calls, CallSuspends(c)
    PROVE  BrokerInv'
<1> USE DEF BrokerInv
<1>1. /\ pc[c] = "validating" /\ pc' = [pc EXCEPT ![c] = "suspended"]
      /\ err = "nil" /\ UNCHANGED <<ret, done, sends, sealed, delivered, active, err>>
      /\ UNCHANGED keptVars
      /\ reserved' = reserved - 1
      /\ pending' = pending \cup {c}
      /\ queued' = Append(queued, c)
      /\ bytes' = bytes + Size[c]
      /\ timer' = [timer EXCEPT ![c] = "armed"]
  BY DEF CallSuspends, Acceptable
<1>2. Validating' = Validating \ {c} /\ c \in Validating
  BY <1>1 DEF Validating, TypeOK
<1>3. Counted' /\ reserved' \in Nat
  <2>1. Cardinality(Validating') = Cardinality(Validating) - 1
    BY <1>2, ValidatingCount
  <2>2. Cardinality(Validating) # 0 /\ Cardinality(Validating) \in Nat
    BY <1>2, ValidatingCount
  <2> QED BY <1>1, <2>1, <2>2 DEF Counted
<1>4. wake' \in BOOLEAN
  BY Zenon DEF CallSuspends, signal
<1>5. queued' \in Seq(Calls) /\ Range(queued') = Range(queued) \cup {c}
  BY <1>1, AppendRange DEF TypeOK
<1>6. TypeOK'
  <2>1. bytes' \in Int
    <3>1. Size[c] \in Nat /\ bytes \in Int
      BY SizeAssumption DEF TypeOK
    <3> HIDE DEF BrokerInv
    <3>2. bytes' = bytes + Size[c]
      BY <1>1
    <3> QED BY <3>1, <3>2
  <2>2. pc' \in [Calls -> Places] /\ timer' \in [Calls -> {"off", "armed", "fired"}]
    BY <1>1 DEF TypeOK, Places
  <2> QED
    BY <1>1, <1>3, <1>4, <1>5, <2>1, <2>2 DEF TypeOK, keptVars, histVars
<1>7. c \notin pending
  BY <1>1 DEF AnsweredOrPending, Waiting
<1>8. BatchPartition'
  <2>1. ~Repeats(queued')
    BY <1>1, <1>7, AppendRange DEF BatchPartition, TypeOK
  <2>2. sealed' = sealed /\ ~Repeats(sealed')
    BY <1>1 DEF BatchPartition, Repeats
  <2>3. /\ pending' = Range(queued') \cup Range(sealed')
        /\ Range(queued') \cap Range(sealed') = {}
    BY <1>1, <1>5, <1>7, <2>2 DEF BatchPartition
  <2> QED BY <2>1, <2>2, <2>3 DEF BatchPartition
<1>9. AnsweredOrPending'
  <2>1. Waiting' = Waiting \cup {c}
    BY <1>1 DEF Waiting, TypeOK
  <2>2. done[c] = "none"
    BY <1>1 DEF Fresh
  <2> QED BY <1>1, <2>1, <2>2 DEF AnsweredOrPending
<1>10. Fresh'
  BY <1>1 DEF Fresh, TypeOK
<1>11. IdleIsEmpty'
  BY <1>1, <1>2 DEF IdleIsEmpty
<1> QED BY <1>3, <1>6, <1>8, <1>9, <1>10, <1>11

\* The steps that retire the broker.
LEMMA RetireStepsKeep ==
    ASSUME BrokerInv,
           \/ Close
           \/ EndTurn /\ Unfinished # 0
           \/ \E c \in Calls : CallFails(c)
           \/ \E c \in Calls : CallFailsPending(c) /\ c \in pending
           \/ \E c \in Calls : expire(c) /\ c \in pending
           \/ \E R \in SUBSET Calls : Abandon(R)
    PROVE  BrokerInv'
<1> USE DEF BrokerInv
<1>0. {"ErrClosed", "ErrCall", "ErrCapacity", "ErrTimeout", "Canceled"} \subseteq Reasons
  BY DEF Reasons
<1>1. CASE Close
  BY <1>0, <1>1, RetireKeeps DEF Close, TypeOK
<1>2. CASE EndTurn /\ Unfinished # 0
  <2>1. active' \in BOOLEAN
    BY <1>2, Zenon DEF EndTurn
  <2> QED
    BY <1>0, <1>2, <2>1, RetireKeeps DEF EndTurn, TypeOK
<1>3. CASE \E c \in Calls : CallFails(c)
  <2>1. PICK c \in Calls : CallFails(c)
    BY <1>3
  <2>2. pc' \in [Calls -> Places] /\ ret' \in [Calls -> Returns]
    BY <2>1 DEF CallFails, Return, TypeOK, Places, Returns
  <2> QED
    BY <1>0, <2>1, <2>2, RetireKeeps DEF CallFails, Return, TypeOK
<1>4. CASE \E c \in Calls : CallFailsPending(c) /\ c \in pending
  <2>1. PICK c \in Calls : CallFailsPending(c) /\ c \in pending
    BY <1>4
  <2>2. pc' \in [Calls -> Places]
    BY <2>1 DEF CallFailsPending, TypeOK, Places
  <2> QED
    BY <1>0, <2>1, <2>2, RetireKeeps DEF CallFailsPending, failPending, TypeOK
<1>5. CASE \E c \in Calls : expire(c) /\ c \in pending
  BY <1>0, <1>5, RetireKeeps DEF expire, failPending, TypeOK
<1>6. CASE \E R \in SUBSET Calls : Abandon(R)
  BY <1>0, <1>6, RetireKeeps DEF Abandon, TypeOK
<1> QED BY <1>1, <1>2, <1>3, <1>4, <1>5, <1>6

\* A cancellation or a timer of a call that was answered before.
LEMMA LateKeeps ==
    ASSUME BrokerInv, NEW c \in Calls, c \notin pending, CallFailsPending(c) \/ expire(c)
    PROVE  BrokerInv'
<1>1. UNCHANGED retireVars
  BY DEF CallFailsPending, expire, failPending
<1>2. TypeOK'
  BY <1>1 DEF CallFailsPending, expire, BrokerInv, TypeOK, retireVars, keptVars, histVars,
              Places
<1> QED
  BY <1>1, <1>2, CoreKeeps DEF CallFailsPending, expire, BrokerInv, TypeOK, retireVars

\* The borders of a prompt.
LEMMA TurnKeeps ==
    ASSUME BrokerInv, BeginTurn \/ (EndTurn /\ Unfinished = 0)
    PROVE  BrokerInv'
<1> USE DEF BrokerInv
<1>1. /\ UNCHANGED <<pc, ret, reserved>> /\ UNCHANGED keptVars /\ UNCHANGED retireVars
      /\ Unfinished = 0
  BY DEF BeginTurn, EndTurn, callVars, keptVars, retireVars
<1>2. active' \in BOOLEAN
  BY Zenon DEF BeginTurn, EndTurn
<1>3. TypeOK'
  BY <1>1, <1>2 DEF TypeOK, keptVars, retireVars, histVars
<1>4. Validating' = Validating /\ Waiting' = Waiting
  BY <1>1 DEF Validating, Waiting
<1>5. pending = {} /\ Validating = {}
  <2>1. IsFiniteSet(pending)
    BY CallsAssumption, FS_Subset DEF TypeOK
  <2>2. Cardinality(pending) \in Nat /\ (Cardinality(pending) = 0 <=> pending = {})
    BY <2>1, FS_CardinalityType, FS_EmptySet
  <2>3. Cardinality(pending) = 0 /\ reserved = 0
    BY <1>1, <2>2 DEF Unfinished, TypeOK
  <2> QED BY <2>2, <2>3, ValidatingCount DEF Counted
<1>6. BatchPartition'
  BY <1>1 DEF BatchPartition, Repeats, retireVars
<1>7. AnsweredOrPending' /\ Fresh' /\ Counted'
  BY <1>1, <1>4 DEF AnsweredOrPending, Fresh, Counted, retireVars
<1>8. IdleIsEmpty'
  BY <1>1, <1>4, <1>5 DEF IdleIsEmpty, retireVars
<1> QED BY <1>3, <1>6, <1>7, <1>8

LEMMA SealKeeps ==
    ASSUME BrokerInv, Seal
    PROVE  BrokerInv'
<1> USE DEF BrokerInv
<1>1. /\ UNCHANGED callVars
      /\ UNCHANGED <<pending, seen, reserved, bytes, active, wake, err, admitted, acked>>
      /\ reader' = "away"
  BY DEF Seal
<1>2. Validating' = Validating /\ Waiting' = Waiting
  BY <1>1 DEF Validating, Waiting, callVars
<1>3. AnsweredOrPending' /\ Fresh' /\ Counted' /\ IdleIsEmpty'
  BY <1>1, <1>2 DEF AnsweredOrPending, Fresh, Counted, IdleIsEmpty, callVars
<1>4. CASE err = "nil" /\ sealed = <<>> /\ queued # <<>>
  <2>1. PICK n \in 0..Len(queued) :
             /\ sealed' = SubSeq(queued, 1, n)
             /\ queued' = SubSeq(queued, n + 1, Len(queued))
             /\ batchOf' = [c \in Calls |-> IF \E i \in 1..n : queued[i] = c
                                            THEN number + 1 ELSE batchOf[c]]
             /\ delivered' = (n = 0 /\ delivered)
    BY <1>4 DEF Seal, Rest
  <2>2. /\ sealed' \in Seq(Calls) /\ queued' \in Seq(Calls)
        /\ Range(sealed') \cup Range(queued') = Range(queued)
    BY <2>1, CutRange DEF TypeOK
  <2>3. /\ ~Repeats(sealed') /\ ~Repeats(queued')
        /\ Range(sealed') \cap Range(queued') = {}
    BY <2>1, CutRepeats DEF TypeOK, BatchPartition
  <2>4. Range(sealed) = {}
    BY <1>4, EmptyRange
  <2>5. BatchPartition'
    BY <1>1, <2>2, <2>3, <2>4 DEF BatchPartition
  <2>6. delivered' \in BOOLEAN
    BY <2>1 DEF TypeOK
  <2>7. number' \in Nat /\ batchOf' \in [Calls -> Nat]
    BY <1>4, <2>1 DEF Seal, TypeOK
  <2>8. TypeOK'
    BY <1>1, <2>2, <2>6, <2>7 DEF TypeOK, callVars
  <2> QED BY <1>3, <2>5, <2>8
<1>5. CASE ~(err = "nil" /\ sealed = <<>> /\ queued # <<>>)
  <2>1. UNCHANGED <<number, sealed, queued, batchOf, delivered>>
    BY <1>5 DEF Seal
  <2>2. BatchPartition' /\ TypeOK'
    BY <1>1, <2>1 DEF BatchPartition, Repeats, TypeOK, callVars
  <2> QED BY <1>3, <2>2
<1> QED BY <1>4, <1>5

LEMMA ResolveKeeps ==
    ASSUME BrokerInv, NEW R \in SUBSET Calls, Resolve(R)
    PROVE  BrokerInv'
<1> USE DEF BrokerInv
<1> DEFINE B == Range(sealed)
<1>1. /\ UNCHANGED <<pc, ret, reserved, active, queued, err>> /\ UNCHANGED keptVars
      /\ err = "nil"
      /\ B \subseteq R
      /\ timer' = Stopped(B)
      /\ bytes' = bytes - Bytes(B)
      /\ pending' = pending \ B
      /\ sealed' = <<>>
  BY DEF Resolve, matchesDelivered
<1>2. B \subseteq pending /\ pending \subseteq Calls
  BY DEF BatchPartition, TypeOK
<1>3. /\ done' = [c \in Calls |-> IF c \in B THEN "client" ELSE done[c]]
      /\ sends' = [c \in Calls |-> IF c \in B THEN sends[c] + 1 ELSE sends[c]]
  BY <1>1 DEF Resolve, Send
<1>4. Validating' = Validating /\ Waiting' = Waiting
  BY <1>1 DEF Validating, Waiting
<1>5. \A c \in B : c \in Waiting /\ done[c] = "none" /\ sends[c] = 0
  BY <1>2 DEF AnsweredOrPending, Fresh
<1>6. TypeOK'
  <2>1. delivered' \in BOOLEAN
    BY Zenon DEF Resolve
  <2>2. wake' \in BOOLEAN
    <3>1. CASE queued # <<>>
      <4>1. wake' = TRUE
        BY <3>1, Zenon DEF Resolve, signal
      <4> QED BY <4>1, Zenon
    <3>2. CASE queued = <<>>
      BY <3>2 DEF Resolve, TypeOK
    <3> QED BY <3>1, <3>2
  <2>3. done' \in [Calls -> {"none"} \cup Results]
    BY <1>3 DEF TypeOK, Results
  <2>4. sends' \in [Calls -> Nat]
    BY <1>3 DEF TypeOK
  <2>5. timer' \in [Calls -> {"off", "armed", "fired"}]
    BY <1>1 DEF TypeOK, Stopped
  <2>6. sealed' \in Seq(Calls)
    BY <1>1, EmptySeq
  <2>7. bytes' \in Int
    BY <1>1 DEF TypeOK
  <2> QED
    BY <1>1, <2>1, <2>2, <2>3, <2>4, <2>5, <2>6, <2>7 DEF TypeOK, keptVars, histVars
<1>7. BatchPartition'
  <2>1. Range(sealed') = {} /\ ~Repeats(sealed')
    BY <1>1, EmptyRange
  <2>2. queued' = queued /\ ~Repeats(queued')
    BY <1>1 DEF BatchPartition, Repeats
  <2> QED BY <1>1, <2>1, <2>2 DEF BatchPartition
<1>8. AnsweredOrPending'
  <2>1. \A c \in Waiting : c \in Calls
    BY DEF Waiting
  <2>2. \A c \in Waiting : done'[c] = "none" <=> (done[c] = "none" /\ c \notin B)
    BY <1>3, <2>1
  <2>3. pending' = {c \in Waiting : done'[c] = "none"}
    BY <1>1, <2>2 DEF AnsweredOrPending
  <2>4. \A c \in Calls : sends'[c] <= 1
    BY <1>3, <1>5 DEF AnsweredOrPending
  <2> QED BY <1>1, <1>4, <2>3, <2>4 DEF AnsweredOrPending
<1>9. Fresh'
  <2>1. \A c \in B : pc[c] \in {"suspended", "cancelling", "draining"}
    BY <1>5 DEF Waiting
  <2> QED BY <1>1, <1>3, <2>1 DEF Fresh
<1>10. Counted'
  BY <1>1, <1>4 DEF Counted
<1>11. IdleIsEmpty'
  BY <1>1, <1>4 DEF IdleIsEmpty
<1> QED BY <1>6, <1>7, <1>8, <1>9, <1>10, <1>11

----------------------------------------------------------------------------
(* The theorems.                                                           *)

\* Every step of the broker keeps the invariant.
LEMMA NextInv == BrokerInv /\ [Next]_vars => BrokerInv'
<1> SUFFICES ASSUME BrokerInv, [Next]_vars PROVE BrokerInv'
  OBVIOUS
<1>1. CASE Close
  BY <1>1, RetireStepsKeep
<1>2. CASE BeginTurn
  BY <1>2, TurnKeeps
<1>3. CASE EndTurn
  BY <1>3, TurnKeeps, RetireStepsKeep
<1>4. ASSUME NEW c \in Calls, CallStep(c) PROVE BrokerInv'
  <2>1. CASE CallFails(c)
    BY <2>1, RetireStepsKeep
  <2>2. CASE CallReserves(c)
    BY <2>2, ReserveKeeps
  <2>3. CASE CallDropped(c)
    BY <2>3, DropKeeps
  <2>4. CASE CallSuspends(c)
    BY <2>4, SuspendKeeps
  <2>5. CASE CallFailsPending(c)
    BY <2>5, RetireStepsKeep, LateKeeps
  <2> QED
    BY <1>4, <2>1, <2>2, <2>3, <2>4, <2>5, CallKeeps DEF CallStep
<1>5. ASSUME NEW c \in Calls, CancelContext(c) \/ TimerFires(c) \/ expire(c)
      PROVE  BrokerInv'
  BY <1>5, CallKeeps, RetireStepsKeep, LateKeeps
<1>6. CASE RoundEnters \/ RoundPolls \/ RoundWakes \/ RoundLeavesSelect
  BY <1>6, RoundKeeps
<1>7. CASE Seal
  BY <1>7, SealKeeps
<1>8. CASE \E n \in 1..MaxBatches : Delivered(n)
  BY <1>8, RoundKeeps
<1>9. ASSUME NEW R \in SUBSET Calls, Resolve(R) \/ Abandon(R) PROVE BrokerInv'
  BY <1>9, ResolveKeeps, RetireStepsKeep
<1>10. CASE UNCHANGED vars
  <2>1. TypeOK'
    BY <1>10 DEF BrokerInv, TypeOK, vars, callVars, brokerVars, histVars
  <2> QED
    BY <1>10, <2>1, CoreKeeps DEF vars, callVars, brokerVars
<1> QED
  BY <1>1, <1>2, <1>3, <1>4, <1>5, <1>6, <1>7, <1>8, <1>9, <1>10 DEF Next

\* The conjunction holds in every reachable state.
THEOREM Invariance == Spec => []BrokerInv
BY InitInv, NextInv, PTL DEF Spec

\* Every field keeps its type, for any number of calls and any limits.
THEOREM TypeCorrect == Spec => []TypeOK
<1>1. BrokerInv => TypeOK
  BY DEF BrokerInv
<1> QED BY <1>1, Invariance, PTL

\* The pending table, the queue and the sealed batch always agree.
THEOREM PartitionHolds == Spec => []BatchPartition
<1>1. BrokerInv => BatchPartition
  BY DEF BrokerInv
<1> QED BY <1>1, Invariance, PTL

\* A blocked call is pending or answered, never both and never neither, and no
\* send on its one-place channel can block with the lock held.
THEOREM AnswerHolds == Spec => []AnsweredOrPending
<1>1. BrokerInv => AnsweredOrPending
  BY DEF BrokerInv
<1> QED BY <1>1, Invariance, PTL

\* No tool call survives the prompt that owns it, unless the relay is retired.
THEOREM IdleHolds == Spec => []IdleIsEmpty
<1>1. BrokerInv => IdleIsEmpty
  BY DEF BrokerInv
<1> QED BY <1>1, Invariance, PTL

\* The steps that send on a channel; every other step leaves them all alone.
LEMMA SendingSteps ==
    ASSUME BrokerInv, [Next]_vars
    PROVE  \/ UNCHANGED <<done, sends>>
           \/ \E reason \in Reasons : err = "nil" /\ failLocked(reason)
           \/ \E R \in SUBSET Calls : Resolve(R)
<1>0. {"ErrClosed", "ErrCall", "ErrCapacity", "ErrTimeout", "Canceled"} \subseteq Reasons
  BY DEF Reasons
<1>1. ASSUME NEW reason \in Reasons, failLocked(reason)
      PROVE  UNCHANGED <<done, sends>> \/ (err = "nil" /\ failLocked(reason))
  BY <1>1 DEF failLocked, retireVars
<1>2. CASE Close
  BY <1>0, <1>1, <1>2 DEF Close
<1>3. CASE BeginTurn
  BY <1>3 DEF BeginTurn, callVars
<1>4. CASE EndTurn
  BY <1>0, <1>1, <1>4 DEF EndTurn, retireVars
<1>5. ASSUME NEW c \in Calls,
             CallStep(c) \/ CancelContext(c) \/ TimerFires(c) \/ expire(c)
      PROVE  \/ UNCHANGED <<done, sends>>
             \/ \E reason \in Reasons : err = "nil" /\ failLocked(reason)
  <2>1. CASE CallFails(c)
    BY <1>0, <1>1, <2>1 DEF CallFails
  <2>2. CASE CallFailsPending(c)
    BY <1>0, <1>1, <2>2 DEF CallFailsPending, failPending, retireVars
  <2>3. CASE expire(c)
    BY <1>0, <1>1, <2>3 DEF expire, failPending, retireVars
  <2> QED
    BY <1>5, <2>1, <2>2, <2>3
       DEF CallStep, CallInvalid, CallRefused, CallOverflows, CallReserves, CallDropped,
           CallSuspends, CallReceives, CallCancels, CancelContext, TimerFires, retireVars
<1>6. CASE RoundEnters \/ RoundPolls \/ RoundWakes \/ RoundLeavesSelect \/ Seal
  BY <1>6 DEF RoundEnters, RoundPolls, RoundWakes, RoundLeavesSelect, Seal, callVars
<1>7. CASE \E n \in 1..MaxBatches : Delivered(n)
  BY <1>7 DEF Delivered, callVars
<1>8. ASSUME NEW R \in SUBSET Calls, Abandon(R)
      PROVE  \/ UNCHANGED <<done, sends>>
             \/ \E reason \in Reasons : err = "nil" /\ failLocked(reason)
  BY <1>0, <1>1, <1>8 DEF Abandon
<1>9. CASE UNCHANGED vars
  BY <1>9 DEF vars, callVars
<1> QED BY <1>2, <1>3, <1>4, <1>5, <1>6, <1>7, <1>8, <1>9 DEF Next

\* A value sent to a call stays: later cancellations, timers and retirements
\* find the call gone from the pending table.
THEOREM CommittedHolds == Spec => CommittedResult
<1>1. ASSUME BrokerInv, [Next]_vars, NEW c \in Calls, done[c] # "none"
      PROVE  done'[c] = done[c] /\ sends'[c] = sends[c]
  <2>1. c \notin pending /\ Range(sealed) \subseteq pending
    BY <1>1 DEF BrokerInv, AnsweredOrPending, BatchPartition
  <2>2. CASE \E reason \in Reasons : err = "nil" /\ failLocked(reason)
    BY <1>1, <2>1, <2>2, RetireEffect
  <2>3. CASE \E R \in SUBSET Calls : Resolve(R)
    BY <1>1, <2>1, <2>3 DEF Resolve, Send
  <2> QED BY <1>1, <2>2, <2>3, SendingSteps
<1>2. BrokerInv /\ [Next]_vars =>
          [\A c \in Calls : done[c] # "none" =>
               done'[c] = done[c] /\ sends'[c] = sends[c]]_vars
  BY <1>1
<1> QED BY <1>2, Invariance, PTL DEF Spec, CommittedResult
----------------------------------------------------------------------------
(* The refinement.  The broker implements ToolHandoff: the line of blocked *)
(* calls is the sealed batch followed by the queue, the client holds the   *)
(* batch once it is delivered, and a call's answer is what was sent on its *)
(* channel.                                                                *)

Offered == IF delivered THEN Len(sealed) ELSE 0

\* A delivered batch is not empty.
DeliveredBatch == delivered => sealed # <<>>

RefInv == BrokerInv /\ DeliveredBatch

\* Retirement does nothing, or empties the batch and the acknowledgement.
LEMMA RetireBatch ==
    ASSUME NEW reason, failLocked(reason), DeliveredBatch
    PROVE  DeliveredBatch'
BY DEF failLocked, retireVars, DeliveredBatch

LEMMA BatchKeeps == DeliveredBatch /\ [Next]_vars => DeliveredBatch'
<1> SUFFICES ASSUME DeliveredBatch, [Next]_vars PROVE DeliveredBatch'
  OBVIOUS
<1>1. CASE Close
  BY <1>1, RetireBatch DEF Close
<1>2. CASE BeginTurn
  BY <1>2 DEF BeginTurn, DeliveredBatch
<1>3. CASE EndTurn
  BY <1>3, RetireBatch DEF EndTurn, retireVars, DeliveredBatch
<1>4. ASSUME NEW c \in Calls,
             CallStep(c) \/ CancelContext(c) \/ TimerFires(c) \/ expire(c)
      PROVE  DeliveredBatch'
  <2>1. CASE CallFails(c)
    BY <2>1, RetireBatch DEF CallFails
  <2>2. CASE CallFailsPending(c)
    BY <2>2, RetireBatch DEF CallFailsPending, failPending, retireVars, DeliveredBatch
  <2>3. CASE expire(c)
    BY <2>3, RetireBatch DEF expire, failPending, retireVars, DeliveredBatch
  <2> QED
    BY <1>4, <2>1, <2>2, <2>3
       DEF CallStep, CallInvalid, CallRefused, CallOverflows, CallReserves, CallDropped,
           CallSuspends, CallReceives, CallCancels, CancelContext, TimerFires, retireVars,
           brokerVars, DeliveredBatch
<1>5. CASE RoundEnters \/ RoundPolls \/ RoundWakes \/ RoundLeavesSelect
  BY <1>5 DEF RoundEnters, RoundPolls, RoundWakes, RoundLeavesSelect, brokerVars,
              DeliveredBatch
<1>6. CASE Seal
  <2>1. CASE err = "nil" /\ sealed = <<>> /\ queued # <<>>
    BY <1>6, <2>1 DEF Seal, DeliveredBatch
  <2>2. CASE ~(err = "nil" /\ sealed = <<>> /\ queued # <<>>)
    BY <1>6, <2>2 DEF Seal, DeliveredBatch
  <2> QED BY <2>1, <2>2
<1>7. CASE \E n \in 1..MaxBatches : Delivered(n)
  BY <1>7 DEF Delivered, DeliveredBatch
<1>8. ASSUME NEW R \in SUBSET Calls, Resolve(R) \/ Abandon(R) PROVE DeliveredBatch'
  <2>1. CASE Resolve(R)
    BY <2>1, Zenon DEF Resolve, DeliveredBatch
  <2>2. CASE Abandon(R)
    BY <2>2, RetireBatch DEF Abandon
  <2> QED BY <1>8, <2>1, <2>2
<1>9. CASE UNCHANGED vars
  BY <1>9 DEF vars, brokerVars, DeliveredBatch
<1> QED BY <1>1, <1>2, <1>3, <1>4, <1>5, <1>6, <1>7, <1>8, <1>9 DEF Next

THEOREM RefInvariance == Spec => []RefInv
<1>1. Init => RefInv
  BY InitInv DEF Init, RefInv, DeliveredBatch
<1>2. RefInv /\ [Next]_vars => RefInv'
  BY NextInv, BatchKeeps DEF RefInv
<1> QED BY <1>1, <1>2, PTL DEF Spec

----------------------------------------------------------------------------
(* The line.                                                               *)

LEMMA LineFacts ==
    ASSUME BrokerInv
    PROVE  /\ Line \in Seq(Calls)
           /\ Len(Line) = Len(sealed) + Len(queued)
           /\ Len(sealed) \in Nat /\ Len(queued) \in Nat
           /\ pending = {Line[i] : i \in 1..Len(Line)}
           /\ \A i \in 1..Len(sealed) : Line[i] = sealed[i]
           /\ \A i \in 1..Len(queued) : Line[Len(sealed) + i] = queued[i]
<1>0. sealed \in Seq(Calls) /\ queued \in Seq(Calls)
  BY DEF BrokerInv, TypeOK
<1>1. Len(sealed) \in Nat /\ Len(queued) \in Nat
  BY <1>0, LenProperties
<1>2. /\ Line \in Seq(Calls)
      /\ Len(Line) = Len(sealed) + Len(queued)
      /\ \A i \in 1..(Len(sealed) + Len(queued)) :
             Line[i] = IF i <= Len(sealed) THEN sealed[i] ELSE queued[i - Len(sealed)]
  BY <1>0, ConcatProperties DEF Line
<1>3. Range(Line) = {Line[i] : i \in 1..Len(Line)}
  BY <1>2, RangeEquality
<1>4. Range(Line) = Range(sealed) \cup Range(queued)
  BY <1>0, RangeConcatenation DEF Line
<1>5. \A i \in 1..Len(sealed) : Line[i] = sealed[i]
  BY <1>1, <1>2
<1>6. ASSUME NEW i \in 1..Len(queued) PROVE Line[Len(sealed) + i] = queued[i]
  BY <1>1, <1>2
<1> QED
  BY <1>1, <1>2, <1>3, <1>4, <1>5, <1>6 DEF BrokerInv, BatchPartition

\* A retirement of an open broker is a revocation.
LEMMA RetireRefines ==
    ASSUME RefInv, NEW reason \in Reasons, err = "nil", failLocked(reason)
    PROVE  Handoff!Revoke(Message(reason)) /\ Message(reason) \in Handoff!Revocations
<1>1. /\ Line \in Seq(Calls) /\ Len(Line) \in Nat
      /\ pending = {Line[i] : i \in 1..Len(Line)}
  BY LineFacts, LenProperties DEF RefInv
<1>2. /\ done' = [c \in Calls |-> IF c \in pending THEN Message(reason) ELSE done[c]]
      /\ sealed' = <<>> /\ queued' = <<>> /\ err' = reason
  BY DEF failLocked, Send
<1>3. Line' = <<>>
  <2>1. <<>> \in Seq(Calls)
    BY EmptySeq
  <2> QED BY <1>2, <2>1, ConcatEmptySeq DEF Line
<1>4. SubSeq(Line, Len(Line) + 1, Len(Line)) = <<>>
  BY <1>1, SubSeqEmpty
<1>5. Handoff!Tell(Len(Line), Message(reason))
  <2>1. done' = [c \in Calls |-> IF \E i \in 1..Len(Line) : Line[i] = c
                                 THEN Message(reason) ELSE done[c]]
    BY <1>1, <1>2
  <2> QED BY <1>3, <1>4, <2>1 DEF Handoff!Tell
<1>6. ~delivered'
  BY DEF failLocked
<1>7. Message(reason) \in Handoff!Revocations
  BY DEF Message, Handoff!Revocations
<1>8. err' # "nil"
  BY <1>2 DEF Reasons
<1> QED BY <1>5, <1>6, <1>7, <1>8 DEF Handoff!Revoke

\* A suspended call joins the line.
LEMMA SuspendRefines ==
    ASSUME RefInv, NEW c \in Calls, CallSuspends(c)
    PROVE  Handoff!Accept(c)
<1>1. /\ pc[c] = "validating" /\ err = "nil" /\ queued' = Append(queued, c)
      /\ UNCHANGED <<sealed, delivered, done, err>>
  BY DEF CallSuspends, Acceptable
<1>2. sealed \in Seq(Calls) /\ queued \in Seq(Calls) /\ <<c>> \in Seq(Calls)
  BY DEF RefInv, BrokerInv, TypeOK
<1>3. Line' = Append(Line, c)
  <2>1. Append(queued, c) = queued \o <<c>>
    BY <1>2, AppendIsConcat
  <2>2. Line \in Seq(Calls) /\ Append(Line, c) = Line \o <<c>>
    BY <1>2, ConcatProperties, AppendIsConcat DEF Line
  <2>3. (sealed \o queued) \o <<c>> = sealed \o (queued \o <<c>>)
    BY <1>2, ConcatAssociative
  <2> QED BY <1>1, <2>1, <2>2, <2>3 DEF Line
<1>4. done[c] = "none" /\ c \notin pending
  BY <1>1 DEF RefInv, BrokerInv, Fresh, AnsweredOrPending, Waiting
<1>5. \A i \in 1..Len(Line) : Line[i] # c
  BY <1>4, LineFacts DEF RefInv
<1> QED BY <1>1, <1>3, <1>4, <1>5 DEF Handoff!Accept

\* Sealing moves calls from the queue to the batch, which the line does not see.
LEMMA SealRefines ==
    ASSUME RefInv, Seal
    PROVE  UNCHANGED <<Line, Offered, done, err>>
<1>1. UNCHANGED <<done, err>>
  BY DEF Seal, callVars
<1>2. CASE err = "nil" /\ sealed = <<>> /\ queued # <<>>
  <2>1. PICK n \in 0..Len(queued) :
             /\ sealed' = SubSeq(queued, 1, n)
             /\ queued' = SubSeq(queued, n + 1, Len(queued))
             /\ delivered' = (n = 0 /\ delivered)
    BY <1>2 DEF Seal, Rest
  <2>2a. ~delivered
    BY <1>2 DEF RefInv, DeliveredBatch
  <2>2. ~delivered /\ ~delivered'
    BY <2>1, <2>2a, Zenon
  <2>3. queued \in Seq(Calls) /\ Len(queued) \in Nat
    BY LenProperties DEF RefInv, BrokerInv, TypeOK
  <2>4. SubSeq(queued, 1, n) \o SubSeq(queued, n + 1, Len(queued))
            = SubSeq(queued, 1, Len(queued))
    <3>1. 1 \in 1..(Len(queued) + 1) /\ n \in (1 - 1)..Len(queued) /\ Len(queued) \in n..Len(queued)
      BY <2>3
    <3> QED BY <2>3, <3>1, ConcatAdjacentSubSeq, Zenon
  <2>5. SubSeq(queued, 1, Len(queued)) = queued /\ <<>> \o queued = queued
    BY <2>3, SubSeqFull, ConcatEmptySeq
  <2>6. Line' = Line
    BY <1>2, <2>1, <2>4, <2>5 DEF Line
  <2> QED BY <1>1, <2>2, <2>6 DEF Offered
<1>3. CASE ~(err = "nil" /\ sealed = <<>> /\ queued # <<>>)
  BY <1>1, <1>3 DEF Seal, Line, Offered
<1> QED BY <1>2, <1>3

\* Acknowledging the batch offers it.
LEMMA DeliverRefines ==
    ASSUME RefInv, NEW n \in 1..MaxBatches, Delivered(n)
    PROVE  \E k \in 1..Len(Line) : Handoff!Offer(k)
<1>1. /\ err = "nil" /\ sealed # <<>> /\ ~delivered /\ delivered'
      /\ UNCHANGED <<sealed, queued, done, err>>
  BY DEF Delivered, callVars
<1>2. Len(sealed) \in Nat \ {0}
  BY <1>1, EmptySeq DEF RefInv, BrokerInv, TypeOK
<1>3. Len(sealed) \in 1..Len(Line)
  BY <1>2, LineFacts DEF RefInv
<1>4. Line' = Line
  BY <1>1 DEF Line
<1>5. Handoff!Offer(Len(sealed))
  BY <1>1, <1>4 DEF Handoff!Offer
<1> QED BY <1>3, <1>5

\* Resolving the batch answers what was offered.
LEMMA ResolveRefines ==
    ASSUME RefInv, NEW R \in SUBSET Calls, Resolve(R)
    PROVE  Handoff!Answer
<1>1. /\ err = "nil" /\ delivered /\ Range(sealed) \subseteq R
      /\ sealed' = <<>> /\ queued' = queued /\ err' = err
  BY DEF Resolve, matchesDelivered
<1>2. ~delivered'
  BY Zenon DEF Resolve
<1>3. sealed \in Seq(Calls) /\ queued \in Seq(Calls)
  BY DEF RefInv, BrokerInv, TypeOK
<1>4. Len(sealed) \in Nat \ {0}
  BY <1>1, <1>3, EmptySeq DEF RefInv, DeliveredBatch
<1>5. /\ Line \in Seq(Calls) /\ Len(Line) = Len(sealed) + Len(queued) /\ Len(queued) \in Nat
      /\ \A i \in 1..Len(sealed) : Line[i] = sealed[i]
      /\ \A i \in 1..Len(queued) : Line[Len(sealed) + i] = queued[i]
  BY LineFacts DEF RefInv
<1>6. done' = [c \in Calls |-> IF \E i \in 1..Len(sealed) : Line[i] = c
                               THEN "client" ELSE done[c]]
  <2>1. done' = [c \in Calls |-> IF c \in Range(sealed) THEN "client" ELSE done[c]]
    BY <1>1 DEF Resolve, Send
  <2>2. Range(sealed) = {sealed[i] : i \in 1..Len(sealed)}
    BY <1>3, RangeEquality
  <2>3. \A c : c \in Range(sealed) <=> \E i \in 1..Len(sealed) : Line[i] = c
    BY <1>5, <2>2
  <2> QED BY <2>1, <2>3
<1>7. Line' = SubSeq(Line, Len(sealed) + 1, Len(Line))
  <2> DEFINE r == SubSeq(Line, Len(sealed) + 1, Len(Line))
  <2>1. Line' = queued
    BY <1>1, <1>3, ConcatEmptySeq DEF Line
  <2>2. /\ r \in Seq(Calls) /\ Len(r) = Len(queued)
        /\ \A i \in 1..Len(queued) : r[i] = Line[Len(sealed) + i]
    <3>1. Len(sealed) \in 0..Len(Line) /\ Len(Line) - Len(sealed) = Len(queued)
      BY <1>4, <1>5
    <3> QED BY <1>5, <3>1, CutRange
  <2>3. r = queued
    BY <1>3, <1>5, <2>2, SeqEqual
  <2> QED BY <2>1, <2>3
<1>8. Handoff!Tell(Len(sealed), "client")
  BY <1>6, <1>7 DEF Handoff!Tell
<1> QED BY <1>1, <1>2, <1>4, <1>8 DEF Handoff!Answer

----------------------------------------------------------------------------
\* Every other step leaves the line, the offer, the answers and the error alone.
LEMMA StepRefines ==
    ASSUME RefInv, [Next]_vars
    PROVE  Handoff!Next \/ UNCHANGED <<Line, Offered, done, err>>
<1>0. {"ErrClosed", "ErrCall", "ErrCapacity", "ErrTimeout", "Canceled"} \subseteq Reasons
  BY DEF Reasons
<1>1. ASSUME NEW reason \in Reasons, failLocked(reason)
      PROVE  Handoff!Next \/ UNCHANGED <<Line, Offered, done, err>>
  <2>1. CASE err = "nil"
    BY <1>1, <2>1, RetireRefines DEF Handoff!Next
  <2>2. CASE err # "nil"
    BY <1>1, <2>2 DEF failLocked, retireVars, Line, Offered
  <2> QED BY <2>1, <2>2
<1>2. ASSUME UNCHANGED retireVars PROVE UNCHANGED <<Line, Offered, done, err>>
  BY <1>2 DEF retireVars, Line, Offered
<1>3. CASE Close
  BY <1>0, <1>1, <1>3 DEF Close
<1>4. CASE BeginTurn
  BY <1>4 DEF BeginTurn, callVars, Line, Offered
<1>5. CASE EndTurn
  BY <1>0, <1>1, <1>2, <1>5 DEF EndTurn
<1>6. ASSUME NEW c \in Calls,
             CallStep(c) \/ CancelContext(c) \/ TimerFires(c) \/ expire(c)
      PROVE  Handoff!Next \/ UNCHANGED <<Line, Offered, done, err>>
  <2>1. CASE CallFails(c)
    BY <1>0, <1>1, <2>1 DEF CallFails
  <2>2. CASE CallFailsPending(c)
    BY <1>0, <1>1, <1>2, <2>2 DEF CallFailsPending, failPending
  <2>3. CASE expire(c)
    BY <1>0, <1>1, <1>2, <2>3 DEF expire, failPending
  <2>4. CASE CallSuspends(c)
    BY <2>4, SuspendRefines DEF Handoff!Next
  <2>5. CASE CallReserves(c) \/ CallDropped(c)
    BY <1>2, <2>5 DEF CallReserves, CallDropped
  <2>6. CASE \/ CallInvalid(c) \/ CallRefused(c) \/ CallOverflows(c) \/ CallReceives(c)
             \/ CallCancels(c) \/ CancelContext(c) \/ TimerFires(c)
    BY <2>6 DEF CallInvalid, CallRefused, CallOverflows, CallReceives, CallCancels,
                CancelContext, TimerFires, brokerVars, Line, Offered
  <2> QED BY <1>6, <2>1, <2>2, <2>3, <2>4, <2>5, <2>6 DEF CallStep
<1>7. CASE RoundEnters \/ RoundPolls \/ RoundWakes \/ RoundLeavesSelect
  BY <1>7 DEF RoundEnters, RoundPolls, RoundWakes, RoundLeavesSelect, callVars, brokerVars,
              Line, Offered
<1>8. CASE Seal
  BY <1>8, SealRefines
<1>9. CASE \E n \in 1..MaxBatches : Delivered(n)
  BY <1>9, DeliverRefines DEF Handoff!Next
<1>10. ASSUME NEW R \in SUBSET Calls, Resolve(R) \/ Abandon(R)
       PROVE  Handoff!Next \/ UNCHANGED <<Line, Offered, done, err>>
  <2>1. CASE Resolve(R)
    BY <2>1, ResolveRefines DEF Handoff!Next
  <2>2. CASE Abandon(R)
    BY <1>0, <1>1, <2>2 DEF Abandon
  <2> QED BY <1>10, <2>1, <2>2
<1>11. CASE UNCHANGED vars
  BY <1>11 DEF vars, callVars, brokerVars, Line, Offered
<1> QED
  BY <1>3, <1>4, <1>5, <1>6, <1>7, <1>8, <1>9, <1>10, <1>11 DEF Next

\* The broker keeps the promise of the handoff: calls are offered in the order
\* they were accepted, a prefix at a time, and each is answered once.
THEOREM Refinement == Spec => HandoffSpec
<1>1. Init => Handoff!Init
  <2>1. <<>> \o <<>> = <<>>
    <3>1. <<>> \in Seq(Calls)
      BY EmptySeq
    <3> QED BY <3>1, ConcatEmptySeq
  <2>2. ASSUME Init PROVE Line = <<>> /\ ~delivered /\ err = "nil" /\ done = [c \in Calls |-> "none"]
    BY <2>1, <2>2 DEF Init, Line
  <2> QED BY <2>2 DEF Handoff!Init
<1>2. RefInv /\ [Next]_vars => [Handoff!Next]_(Handoff!vars)
  <2>1. ASSUME UNCHANGED <<Line, Offered, done, err>> PROVE UNCHANGED Handoff!vars
    BY <2>1 DEF Handoff!vars, Offered
  <2> QED BY <2>1, StepRefines
<1> QED BY <1>1, <1>2, RefInvariance, PTL DEF Spec, HandoffSpec, Handoff!Spec

----------------------------------------------------------------------------
(* Steps that admit nothing.                                               *)

\* Retirement empties the pending table and asks nothing of the calls under
\* validation.
LEMMA RetireShrinks ==
    ASSUME BrokerInv, NEW reason, failLocked(reason)
    PROVE  pending' \subseteq pending
BY DEF failLocked, retireVars

\* Only two steps of a call can add to what the limits count.
LEMMA AdmissionSteps ==
    ASSUME BrokerInv, [Next]_vars
    PROVE  \/ \E c \in Calls : CallReserves(c) \/ CallSuspends(c)
           \/ /\ pending' \subseteq pending
              /\ Validating' \subseteq Validating
              /\ UNCHANGED <<seen, admitted>>
<1> DEFINE Shrinks == /\ pending' \subseteq pending
                      /\ Validating' \subseteq Validating
                      /\ UNCHANGED <<seen, admitted>>
<1>0. pc \in [Calls -> Places]
  BY DEF BrokerInv, TypeOK
<1>1. CASE Close \/ EndTurn
  BY <1>1, RetireShrinks DEF Close, EndTurn, retireVars, keptVars, histVars, Validating
<1>2. CASE BeginTurn
  BY <1>2 DEF BeginTurn, callVars, histVars, Validating
<1>3. ASSUME NEW c \in Calls,
             CallStep(c) \/ CancelContext(c) \/ TimerFires(c) \/ expire(c),
             ~CallReserves(c), ~CallSuspends(c)
      PROVE  Shrinks
  <2>1. CASE CallFails(c) \/ CallDropped(c)
    BY <1>0, <2>1, RetireShrinks
       DEF CallFails, CallDropped, Return, retireVars, keptVars, histVars, Validating
  <2>2. CASE CallFailsPending(c) \/ expire(c)
    BY <1>0, <2>2, RetireShrinks
       DEF CallFailsPending, expire, failPending, retireVars, keptVars, histVars, Validating
  <2>3. CASE CallInvalid(c) \/ CallRefused(c) \/ CallOverflows(c) \/ CallReceives(c)
    BY <1>0, <2>3 DEF CallInvalid, CallRefused, CallOverflows, CallReceives, Return,
                      brokerVars, histVars, Validating
  <2>4. CASE CallCancels(c) \/ CancelContext(c) \/ TimerFires(c)
    BY <1>0, <2>4 DEF CallCancels, CancelContext, TimerFires, brokerVars, histVars, Validating
  <2> QED BY <1>3, <2>1, <2>2, <2>3, <2>4 DEF CallStep
<1>4. CASE RoundEnters \/ RoundPolls \/ RoundWakes \/ RoundLeavesSelect \/ Seal
  BY <1>4 DEF RoundEnters, RoundPolls, RoundWakes, RoundLeavesSelect, Seal, callVars,
              brokerVars, histVars, Validating
<1>5. CASE \E n \in 1..MaxBatches : Delivered(n)
  BY <1>5 DEF Delivered, callVars, Validating
<1>6. ASSUME NEW R \in SUBSET Calls, Resolve(R) \/ Abandon(R) PROVE Shrinks
  <2>1. CASE Resolve(R)
    BY <2>1 DEF Resolve, keptVars, histVars, Validating
  <2>2. CASE Abandon(R)
    BY <2>2, RetireShrinks DEF Abandon, keptVars, histVars, Validating
  <2> QED BY <1>6, <2>1, <2>2
<1>7. CASE UNCHANGED vars
  BY <1>7 DEF vars, callVars, brokerVars, histVars, Validating
<1> QED BY <1>1, <1>2, <1>3, <1>4, <1>5, <1>6, <1>7 DEF Next

----------------------------------------------------------------------------
(* Identities and limits.                                                  *)

\* The identity of every admitted call is in the history of identities, whose
\* limit, like that of the calls, holds at every step.
Admission == /\ \A c \in admitted : IdOf[c] \in seen
             /\ IdentityOnce
             /\ IsFiniteSet(seen)
             /\ CallLimits

LEMMA AdmissionKeeps ==
    ASSUME BrokerInv, Admission, [Next]_vars
    PROVE  Admission'
<1>0. /\ PendingLimit \in Nat /\ CallHistory \in Nat
      /\ pc \in [Calls -> Places]
      /\ IsFiniteSet(pending) /\ IsFiniteSet(Validating)
      /\ Cardinality(pending) \in Nat /\ Cardinality(Validating) \in Nat
      /\ Cardinality(seen) \in Nat
  <2>1. pending \subseteq Calls /\ Validating \subseteq Calls /\ pc \in [Calls -> Places]
    BY DEF BrokerInv, TypeOK, Validating
  <2>2. IsFiniteSet(pending) /\ IsFiniteSet(Validating)
    BY <2>1, CallsAssumption, FS_Subset
  <2> QED BY <2>1, <2>2, LimitAssumption, FS_CardinalityType DEF Admission
<1>1. reserved' = Cardinality(Validating')
  BY NextInv DEF BrokerInv, Counted
<1>2. ASSUME NEW c \in Calls, CallReserves(c) PROVE Admission'
  <2>1. /\ pc[c] = "idle" /\ pc' = [pc EXCEPT ![c] = "validating"]
        /\ pending' = pending /\ seen' = seen \cup {IdOf[c]}
        /\ admitted' = admitted \cup {c}
        /\ IdOf[c] \notin seen
        /\ Cardinality(seen) < CallHistory
        /\ Cardinality(pending) + reserved < PendingLimit
    BY <1>0, <1>2 DEF CallReserves, Refusal, Unfinished, retireVars, Admission, CallLimits
  <2>2. Cardinality(Validating') = Cardinality(Validating) + 1
    <3>1. Validating' = Validating \cup {c} /\ c \notin Validating
      BY <1>0, <2>1 DEF Validating
    <3> QED BY <1>0, <3>1, FS_AddElement
  <2>3. IsFiniteSet(seen') /\ Cardinality(seen') = Cardinality(seen) + 1
    BY <2>1, FS_AddElement DEF Admission
  <2>4. CallLimits'
    BY <1>0, <1>1, <2>1, <2>2, <2>3 DEF Admission, CallLimits
  <2>5. IdentityOnce' /\ \A d \in admitted' : IdOf[d] \in seen'
    BY <2>1 DEF Admission, IdentityOnce
  <2> QED BY <2>3, <2>4, <2>5 DEF Admission
<1>3. ASSUME NEW c \in Calls, CallSuspends(c) PROVE Admission'
  <2>1. /\ pc[c] = "validating" /\ pc' = [pc EXCEPT ![c] = "suspended"]
        /\ pending' = pending \cup {c} /\ UNCHANGED <<seen, admitted>>
    BY <1>3 DEF CallSuspends, keptVars, histVars
  <2>2. Cardinality(Validating') = Cardinality(Validating) - 1
    <3>1. Validating' = Validating \ {c} /\ c \in Validating
      BY <1>0, <2>1, <1>3 DEF Validating, Places
    <3> QED BY <3>1, ValidatingCount
  <2>3. /\ Cardinality(pending') <= Cardinality(pending) + 1
        /\ Cardinality(pending') \in Nat
    <3>1. /\ IsFiniteSet(pending \cup {c})
          /\ Cardinality(pending \cup {c})
                 = IF c \in pending THEN Cardinality(pending) ELSE Cardinality(pending) + 1
      BY <1>0, FS_AddElement, Zenon
    <3> QED BY <1>0, <2>1, <3>1
  <2> QED BY <1>0, <1>1, <2>1, <2>2, <2>3 DEF Admission, IdentityOnce, CallLimits
<1>4. CASE /\ pending' \subseteq pending
           /\ Validating' \subseteq Validating
           /\ UNCHANGED <<seen, admitted>>
  <2>1. /\ Cardinality(pending') <= Cardinality(pending)
        /\ Cardinality(Validating') <= Cardinality(Validating)
        /\ Cardinality(pending') \in Nat /\ Cardinality(Validating') \in Nat
    BY <1>0, <1>4, FS_Subset, FS_CardinalityType
  <2> QED BY <1>0, <1>1, <1>4, <2>1 DEF Admission, IdentityOnce, CallLimits
<1> QED BY <1>2, <1>3, <1>4, AdmissionSteps

LEMMA AdmissionInvariance == Spec => [](BrokerInv /\ Admission)
<1>1. Init => BrokerInv /\ Admission
  <2>1. ASSUME Init PROVE Admission
    <3>1. Validating = {} /\ pending = {} /\ seen = {} /\ admitted = {} /\ reserved = 0
      BY <2>1 DEF Init, Validating
    <3>2. CallLimits
      BY <3>1, FS_EmptySet, LimitAssumption DEF CallLimits
    <3> QED BY <3>1, <3>2, FS_EmptySet DEF Admission, IdentityOnce
  <2> QED BY <2>1, InitInv
<1>2. BrokerInv /\ Admission /\ [Next]_vars => BrokerInv' /\ Admission'
  BY NextInv, AdmissionKeeps
<1> QED BY <1>1, <1>2, PTL DEF Spec

\* An identity is admitted once in the life of the broker: call.ID enters b.seen
\* before validation and never leaves it.
THEOREM IdentityHolds == Spec => []IdentityOnce
<1>1. Admission => IdentityOnce
  BY DEF Admission
<1> QED BY <1>1, AdmissionInvariance, PTL

\* The limits on pending calls and on identities hold although validation runs
\* without b.mu: a reservation is counted from the first section on.
THEOREM LimitsHold == Spec => []CallLimits
<1>1. Admission => CallLimits
  BY DEF Admission
<1> QED BY <1>1, AdmissionInvariance, PTL

----------------------------------------------------------------------------
(* Bytes.                                                                  *)

\* The sum of the sizes of a set of calls is the number of their bytes.  Bytes is
\* a fold over the set; that it counts them follows from a smallest subset for
\* which it would not.
ByteSet(S) == UNION {{c} \X (1..Size[c]) : c \in S}

LEMMA ByteSetFinite ==
    ASSUME NEW S \in SUBSET Calls
    PROVE  IsFiniteSet(ByteSet(S)) /\ Cardinality(ByteSet(S)) \in Nat
<1>1. IsFiniteSet(S)
  BY FS_Subset, CallsAssumption
<1> DEFINE f == [c \in S |-> {c} \X (1..Size[c])]
           T == {{c} \X (1..Size[c]) : c \in S}
<1>2. f \in Surjection(S, T)
  BY DEF Surjection
<1>3. IsFiniteSet(T)
  BY <1>1, <1>2, FS_Surjection
<1>4. ASSUME NEW c \in S PROVE IsFiniteSet({c} \X (1..Size[c]))
  <2>1. Size[c] \in Int
    BY SizeAssumption
  <2>2. IsFiniteSet(1..Size[c])
    BY <2>1, FS_Interval
  <2> QED BY <2>2, FS_Singleton, FS_Product
<1>5. IsFiniteSet(UNION T)
  BY <1>3, <1>4, FS_UNION
<1> QED BY <1>5, FS_CardinalityType DEF ByteSet

LEMMA ByteSetOne ==
    ASSUME NEW c \in Calls PROVE Cardinality(ByteSet({c})) = Size[c]
<1>1. ByteSet({c}) = {c} \X (1..Size[c])
  BY DEF ByteSet
<1>2. Size[c] \in Nat \ {0}
  BY SizeAssumption
<1>3. IsFiniteSet(1..Size[c]) /\ Cardinality(1..Size[c]) = Size[c]
  <2>1. ASSUME NEW n \in Nat \ {0} PROVE IsFiniteSet(1..n) /\ Cardinality(1..n) = n
    <3>1. IsFiniteSet(1..n) /\ Cardinality(1..n) = IF 1 > n THEN 0 ELSE n - 1 + 1
      BY FS_Interval
    <3> QED BY <3>1
  <2> QED BY <1>2, <2>1
<1>4. IsFiniteSet({c}) /\ Cardinality({c}) = 1
  BY FS_Singleton
<1>5. Cardinality({c} \X (1..Size[c])) = Cardinality({c}) * Cardinality(1..Size[c])
  BY <1>3, <1>4, FS_Product
<1>6. ASSUME NEW n \in Nat PROVE 1 * n = n
  OBVIOUS
<1>7. Cardinality({c} \X (1..Size[c])) = 1 * Size[c]
  BY <1>3, <1>4, <1>5, Zenon
<1>8. Size[c] \in Nat
  BY <1>2
<1>9. 1 * Size[c] = Size[c]
  BY <1>6, <1>8, Zenon
<1> QED BY <1>1, <1>7, <1>9, Zenon

\* The bytes of a set are those of a part and those of the rest.
LEMMA ByteSetAdds ==
    ASSUME NEW S \in SUBSET Calls, NEW T \in SUBSET S
    PROVE  Cardinality(ByteSet(S)) = Cardinality(ByteSet(T)) + Cardinality(ByteSet(S \ T))
<1>1. ByteSet(S) = ByteSet(T) \cup ByteSet(S \ T) /\ ByteSet(T) \cap ByteSet(S \ T) = {}
  BY DEF ByteSet
<1>2. /\ IsFiniteSet(ByteSet(T)) /\ Cardinality(ByteSet(T)) \in Nat
      /\ IsFiniteSet(ByteSet(S \ T)) /\ Cardinality(ByteSet(S \ T)) \in Nat
  BY ByteSetFinite
<1>3. Cardinality(ByteSet(S)) = Cardinality(ByteSet(T)) + Cardinality(ByteSet(S \ T)) - Cardinality({})
  BY <1>1, <1>2, FS_Union
<1> QED BY <1>2, <1>3, FS_EmptySet

LEMMA BytesCounted ==
    ASSUME NEW S \in SUBSET Calls
    PROVE  Bytes(S) = Cardinality(ByteSet(S))
<1> DEFINE x(s) == CHOOSE c \in s : TRUE
           Sum(f) == [s \in SUBSET S |-> IF s = {} THEN 0 ELSE Size[x(s)] + f[s \ {x(s)}]]
           g == CHOOSE f : f = Sum(f)
           count == [s \in SUBSET S |-> Cardinality(ByteSet(s))]
<1>1. Bytes(S) = g[S]
  BY DEF Bytes, MapThenSumSet, MapThenFoldSet
<1>2. count = Sum(count)
  <2>1. ASSUME NEW s \in SUBSET S, s # {}
        PROVE  count[s] = Size[x(s)] + count[s \ {x(s)}]
    <3>1. x(s) \in s
      BY <2>1
    <3> HIDE DEF x
    <3>2. count[s] = Cardinality(ByteSet({x(s)})) + Cardinality(ByteSet(s \ {x(s)}))
      BY <3>1, ByteSetAdds
    <3> QED BY <3>1, <3>2, ByteSetOne
  <2>2. count[{}] = 0
    BY FS_EmptySet DEF ByteSet
  <2> HIDE DEF x
  <2> QED BY <2>1, <2>2
<1>3. g = Sum(g)
  <2> HIDE DEF count, Sum
  <2> QED BY <1>2
<1>4. g = count
  <2> HIDE DEF g
  <2> DEFINE bad == {s \in SUBSET S : g[s] # count[s]}
  <2>1. SUFFICES bad = {}
    BY <1>3
  <2>2. SUFFICES ASSUME bad # {} PROVE FALSE
    OBVIOUS
  <2>3. IsFiniteSet(S)
    BY FS_Subset, CallsAssumption
  <2>4. /\ IsWellFoundedOn(StrictSubsetOrdering(S), FiniteSubsetsOf(S)) /\ bad \subseteq FiniteSubsetsOf(S)
    BY <2>3, FS_StrictSubsetOrderingWellFounded, FS_FiniteSubsetsOfFinite
  <2>5. PICK s \in bad : \A t \in bad : <<t, s>> \notin StrictSubsetOrdering(S)
    BY <2>2, <2>4, WFMin
  <2>6. s # {}
    BY <1>2, <1>3, <2>5
  <2>7. x(s) \in s
    BY <2>6
  <2> HIDE DEF x, count
  <2>8. s \ {x(s)} \notin bad
    <3> DEFINE t == s \ {x(s)}
    <3>1. s \in SUBSET S /\ t \in SUBSET S /\ t \subseteq s /\ t # s
      BY <2>7
    <3>2. <<t, s>> \in StrictSubsetOrdering(S)
      BY <3>1 DEF StrictSubsetOrdering
    <3> HIDE DEF t, bad
    <3>3. t \notin bad
      BY <2>5, <3>2
    <3> QED BY <3>3 DEF t
  <2>9. g[s \ {x(s)}] = count[s \ {x(s)}]
    BY <2>8
  <2>10. g[s] = Size[x(s)] + g[s \ {x(s)}]
    BY <1>3, <2>6
  <2>11. count[s] = Size[x(s)] + count[s \ {x(s)}]
    BY <1>2, <2>6
  <2> QED BY <2>5, <2>9, <2>10, <2>11
<1> QED BY <1>1, <1>4

LEMMA BytesOfParts ==
    /\ Bytes({}) = 0
    /\ \A S \in SUBSET Calls : Bytes(S) \in Nat
    /\ \A S \in SUBSET Calls : \A c \in Calls \ S : Bytes(S \cup {c}) = Bytes(S) + Size[c]
    /\ \A S \in SUBSET Calls : \A T \in SUBSET S : Bytes(S \ T) = Bytes(S) - Bytes(T)
<1>1. Bytes({}) = 0
  <2>1. ByteSet({}) = {}
    BY DEF ByteSet
  <2> QED BY <2>1, BytesCounted, FS_EmptySet
<1>2. ASSUME NEW S \in SUBSET Calls PROVE Bytes(S) \in Nat
  BY BytesCounted, ByteSetFinite
<1>3. ASSUME NEW S \in SUBSET Calls, NEW c \in Calls \ S
      PROVE  Bytes(S \cup {c}) = Bytes(S) + Size[c]
  <2>1. S \cup {c} \in SUBSET Calls /\ S \in SUBSET (S \cup {c}) /\ (S \cup {c}) \ S = {c}
    BY <1>3
  <2>2. Cardinality(ByteSet(S \cup {c})) = Cardinality(ByteSet(S)) + Cardinality(ByteSet({c}))
    BY <2>1, ByteSetAdds
  <2> QED BY <2>1, <2>2, ByteSetOne, BytesCounted
<1>4. ASSUME NEW S \in SUBSET Calls, NEW T \in SUBSET S
      PROVE  Bytes(S \ T) = Bytes(S) - Bytes(T)
  <2>1. Bytes(S) = Bytes(T) + Bytes(S \ T)
    BY ByteSetAdds, BytesCounted
  <2>2. Bytes(S) \in Nat /\ Bytes(T) \in Nat /\ Bytes(S \ T) \in Nat
    BY <1>2
  <2> QED BY <2>1, <2>2
<1> QED BY <1>1, <1>2, <1>3, <1>4

\* The counter of bytes is what it counts, and within its limit.
Weighed == bytes = Bytes(pending) /\ bytes <= PendingBytes

LEMMA RetireWeighed ==
    ASSUME Weighed, NEW reason, failLocked(reason) PROVE Weighed'
BY BytesOfParts, LimitAssumption DEF Weighed, failLocked, retireVars

LEMMA WeighedKeeps ==
    ASSUME BrokerInv, Weighed, [Next]_vars
    PROVE  Weighed'
<1>0. pending \in SUBSET Calls /\ PendingBytes \in Nat /\ Size \in [Calls -> Nat \ {0}]
  BY LimitAssumption, SizeAssumption DEF BrokerInv, TypeOK
<1>1. ASSUME UNCHANGED <<bytes, pending>> PROVE Weighed'
  BY <1>1 DEF Weighed
<1>2. CASE Close \/ EndTurn \/ BeginTurn
  BY <1>1, <1>2, RetireWeighed DEF Close, EndTurn, BeginTurn, retireVars
<1>3. ASSUME NEW c \in Calls,
             CallStep(c) \/ CancelContext(c) \/ TimerFires(c) \/ expire(c)
      PROVE  Weighed'
  <2>1. CASE CallSuspends(c)
    <3>1. /\ pc[c] = "validating" /\ bytes + Size[c] <= PendingBytes
          /\ pending' = pending \cup {c} /\ bytes' = bytes + Size[c]
      BY <2>1 DEF CallSuspends, Acceptable
    <3>2. c \notin pending
      BY <3>1 DEF BrokerInv, AnsweredOrPending, Waiting
    <3>3. Bytes(pending \cup {c}) = Bytes(pending) + Size[c]
      BY <1>0, <3>2, BytesOfParts
    <3> QED BY <3>1, <3>3 DEF Weighed
  <2>2. CASE CallFails(c) \/ CallFailsPending(c) \/ expire(c)
    BY <1>1, <2>2, RetireWeighed DEF CallFails, CallFailsPending, expire, failPending, retireVars
  <2>3. CASE \/ CallInvalid(c) \/ CallRefused(c) \/ CallOverflows(c) \/ CallReserves(c) \/ CallDropped(c)
             \/ CallReceives(c) \/ CallCancels(c) \/ CancelContext(c) \/ TimerFires(c)
    BY <1>1, <2>3 DEF CallInvalid, CallRefused, CallOverflows, CallReserves, CallDropped, CallReceives,
                      CallCancels, CancelContext, TimerFires, brokerVars, retireVars
  <2> QED BY <1>3, <2>1, <2>2, <2>3 DEF CallStep
<1>4. CASE \/ RoundEnters \/ RoundPolls \/ RoundWakes \/ RoundLeavesSelect \/ Seal
           \/ (\E n \in 1..MaxBatches : Delivered(n))
  BY <1>1, <1>4 DEF RoundEnters, RoundPolls, RoundWakes, RoundLeavesSelect, Seal, Delivered, brokerVars
<1>5. ASSUME NEW R \in SUBSET Calls, Resolve(R) \/ Abandon(R) PROVE Weighed'
  <2>1. CASE Resolve(R)
    <3>1. Range(sealed) \in SUBSET pending
      BY DEF BrokerInv, BatchPartition
    <3>2. bytes' = bytes - Bytes(Range(sealed)) /\ pending' = pending \ Range(sealed)
      BY <2>1 DEF Resolve
    <3>3. /\ Bytes(pending \ Range(sealed)) = Bytes(pending) - Bytes(Range(sealed))
          /\ Bytes(Range(sealed)) \in Nat /\ Bytes(pending) \in Nat
      BY <1>0, <3>1, BytesOfParts
    <3> QED BY <1>0, <3>2, <3>3 DEF Weighed
  <2>2. CASE Abandon(R)
    BY <2>2, RetireWeighed DEF Abandon
  <2> QED BY <1>5, <2>1, <2>2
<1>6. CASE UNCHANGED vars
  BY <1>1, <1>6 DEF vars, brokerVars
<1> QED BY <1>2, <1>3, <1>4, <1>5, <1>6 DEF Next

\* Calls, bytes and identities stay within their limits, and the counters equal
\* what they count: Call adds the size of its Use under the same lock that admits
\* it, and Resolve and failLocked take off what they take out of the table.
THEOREM CapacityHolds == Spec => []Capacity
<1>1. Init => Weighed
  BY BytesOfParts, LimitAssumption DEF Init, Weighed
<1>2. BrokerInv /\ Admission /\ Weighed => Capacity
  BY DEF Admission, Weighed, Capacity
<1> QED BY <1>1, <1>2, WeighedKeeps, AdmissionInvariance, PTL DEF Spec

----------------------------------------------------------------------------
(* Wakeups.                                                                *)

\* The queue only grows where b.wake is signalled, and only a round that polls
\* takes the token.
LEMMA WakeKeeps ==
    ASSUME NoLostWakeup, [Next]_vars
    PROVE  NoLostWakeup'
<1>0. ASSUME NEW reason, failLocked(reason), reader' = reader PROVE NoLostWakeup'
  BY <1>0 DEF failLocked, retireVars, NoLostWakeup
<1>1. CASE Close \/ EndTurn
  BY <1>0, <1>1 DEF Close, EndTurn, retireVars, keptVars, NoLostWakeup
<1>2. CASE BeginTurn
  BY <1>2 DEF BeginTurn, NoLostWakeup
<1>3. ASSUME NEW c \in Calls,
             CallStep(c) \/ CancelContext(c) \/ TimerFires(c) \/ expire(c)
      PROVE  NoLostWakeup'
  <2>1. CASE CallFails(c) \/ CallFailsPending(c) \/ expire(c)
    BY <1>0, <2>1 DEF CallFails, CallFailsPending, expire, failPending, retireVars, keptVars,
                      NoLostWakeup
  <2>2. CASE CallSuspends(c)
    BY <2>2 DEF CallSuspends, signal, NoLostWakeup
  <2>3. CASE CallReserves(c) \/ CallDropped(c)
    BY <2>3 DEF CallReserves, CallDropped, retireVars, keptVars, NoLostWakeup
  <2>4. CASE \/ CallInvalid(c) \/ CallRefused(c) \/ CallOverflows(c) \/ CallReceives(c)
             \/ CallCancels(c) \/ CancelContext(c) \/ TimerFires(c)
    BY <2>4 DEF CallInvalid, CallRefused, CallOverflows, CallReceives, CallCancels,
                CancelContext, TimerFires, brokerVars, NoLostWakeup
  <2> QED BY <1>3, <2>1, <2>2, <2>3, <2>4 DEF CallStep
<1>4. CASE RoundEnters \/ RoundPolls \/ RoundWakes \/ RoundLeavesSelect \/ Seal
  BY <1>4 DEF RoundEnters, RoundPolls, RoundWakes, RoundLeavesSelect, Seal, brokerVars,
              NoLostWakeup
<1>5. CASE \E n \in 1..MaxBatches : Delivered(n)
  BY <1>5 DEF Delivered, NoLostWakeup
<1>6. ASSUME NEW R \in SUBSET Calls, Resolve(R) \/ Abandon(R) PROVE NoLostWakeup'
  <2>1. CASE Resolve(R)
    BY <2>1 DEF Resolve, signal, keptVars, NoLostWakeup
  <2>2. CASE Abandon(R)
    BY <1>0, <2>2 DEF Abandon, keptVars
  <2> QED BY <1>6, <2>1, <2>2
<1>7. CASE UNCHANGED vars
  BY <1>7 DEF vars, brokerVars, NoLostWakeup
<1> QED BY <1>1, <1>2, <1>3, <1>4, <1>5, <1>6, <1>7 DEF Next

\* No wakeup of the response round is lost: round.Next parks only on an empty
\* queue, and every later enqueue leaves a token in b.wake.
THEOREM WakeupHolds == Spec => []NoLostWakeup
<1>1. Init => NoLostWakeup
  BY DEF Init, NoLostWakeup
<1>2. NoLostWakeup /\ [Next]_vars => NoLostWakeup'
  BY WakeKeeps
<1> QED BY <1>1, <1>2, PTL DEF Spec

----------------------------------------------------------------------------
(* Delivered answers.                                                      *)

\* The sealed batch is the latest one, and its acknowledgement is what the flag
\* says.
Acknowledged == /\ \A i \in 1..Len(sealed) : batchOf[sealed[i]] = number
                /\ delivered => number \in acked
                /\ DeliveredAnswer

\* Retirement answers no call with a client's result.
LEMMA RetireAcknowledged ==
    ASSUME RefInv, Acknowledged, NEW reason, failLocked(reason),
           UNCHANGED <<number, batchOf, acked>>
    PROVE  Acknowledged'
<1>1. CASE err # "nil"
  BY <1>1 DEF failLocked, retireVars, Acknowledged, DeliveredAnswer
<1>2. CASE err = "nil"
  <2>1. \A c \in Calls : done'[c] = "client" => done[c] = "client"
    BY <1>2 DEF failLocked, Send, Message
  <2>2. sealed' = <<>> /\ ~delivered'
    BY <1>2 DEF failLocked
  <2>3. 1..Len(<<>>) = {}
    BY EmptySeq
  <2> QED BY <2>1, <2>2, <2>3 DEF Acknowledged, DeliveredAnswer
<1> QED BY <1>1, <1>2

\* Sealing numbers calls that are still unanswered.
LEMMA SealAcknowledged ==
    ASSUME RefInv, Acknowledged, Seal
    PROVE  Acknowledged'
<1>1. CASE err = "nil" /\ sealed = <<>> /\ queued # <<>>
  <2>1. PICK n \in 0..Len(queued) :
             /\ sealed' = SubSeq(queued, 1, n)
             /\ batchOf' = [c \in Calls |->
                              IF \E i \in 1..n : queued[i] = c
                              THEN number + 1 ELSE batchOf[c]]
             /\ delivered' = (n = 0 /\ delivered)
    BY <1>1 DEF Seal
  <2>2. number' = number + 1 /\ UNCHANGED <<done, acked>>
    BY <1>1 DEF Seal, callVars
  <2>3a. ~delivered
    BY <1>1 DEF RefInv, DeliveredBatch
  <2>3. ~delivered'
    BY <2>1, <2>3a, Zenon
  <2>4. queued \in Seq(Calls) /\ Len(queued) \in Nat
    BY LenProperties DEF RefInv, BrokerInv, TypeOK
  <2>5. /\ Len(sealed') = n
        /\ \A i \in 1..n : sealed'[i] = queued[i]
    BY <2>1, <2>4, CutRange
  <2>6. \A i \in 1..n : queued[i] \in Calls
    BY <2>4, ElementOfSeq
  <2>7. \A i \in 1..Len(sealed') : batchOf'[sealed'[i]] = number'
    BY <2>1, <2>2, <2>5, <2>6
  <2>8. ASSUME NEW c \in Calls, done'[c] = "client" PROVE batchOf'[c] \in acked'
    <3>1. done[c] = "client" /\ batchOf[c] \in acked
      BY <2>2, <2>8 DEF Acknowledged, DeliveredAnswer
    <3>2. c \notin pending /\ Range(queued) \subseteq pending
      BY <3>1 DEF RefInv, BrokerInv, AnsweredOrPending, BatchPartition
    <3>3. \A i \in 1..n : queued[i] # c
      BY <2>4, <3>2, RangeEquality
    <3> QED BY <2>1, <2>2, <3>1, <3>3
  <2> QED BY <2>3, <2>7, <2>8 DEF Acknowledged, DeliveredAnswer
<1>2. CASE ~(err = "nil" /\ sealed = <<>> /\ queued # <<>>)
  BY <1>2 DEF Seal, callVars, Acknowledged, DeliveredAnswer
<1> QED BY <1>1, <1>2

\* Only calls of the delivered batch are resolved.
LEMMA ResolveAcknowledged ==
    ASSUME RefInv, Acknowledged, NEW R \in SUBSET Calls, Resolve(R)
    PROVE  Acknowledged'
<1>1. /\ delivered /\ sealed' = <<>> /\ UNCHANGED <<number, batchOf, acked>>
      /\ done' = [c \in Calls |-> IF c \in Range(sealed)
                                  THEN IF c \in R THEN "client" ELSE "empty"
                                  ELSE done[c]]
  BY DEF Resolve, matchesDelivered, Send, keptVars, histVars
<1>2. ~delivered'
  BY Zenon DEF Resolve
<1>3. \A c \in Range(sealed) : batchOf[c] = number
  <2>1. Range(sealed) = {sealed[i] : i \in 1..Len(sealed)}
    BY RangeEquality DEF RefInv, BrokerInv, TypeOK
  <2> QED BY <2>1 DEF Acknowledged
<1>4. 1..Len(<<>>) = {}
  BY EmptySeq
<1> QED BY <1>1, <1>2, <1>3, <1>4 DEF Acknowledged, DeliveredAnswer

LEMMA AcknowledgedKeeps ==
    ASSUME RefInv, Acknowledged, [Next]_vars
    PROVE  Acknowledged'
<1>0. ASSUME UNCHANGED <<sealed, delivered, number, batchOf, acked, done>> PROVE Acknowledged'
  BY <1>0 DEF Acknowledged, DeliveredAnswer
<1>1. CASE Close \/ EndTurn
  BY <1>0, <1>1, RetireAcknowledged DEF Close, EndTurn, retireVars, keptVars, histVars
<1>2. CASE BeginTurn
  BY <1>0, <1>2 DEF BeginTurn, callVars, histVars
<1>3. ASSUME NEW c \in Calls,
             CallStep(c) \/ CancelContext(c) \/ TimerFires(c) \/ expire(c)
      PROVE  Acknowledged'
  <2>1. CASE CallFails(c) \/ CallFailsPending(c) \/ expire(c)
    BY <1>0, <2>1, RetireAcknowledged
       DEF CallFails, CallFailsPending, expire, failPending, retireVars, keptVars, histVars
  <2>2. CASE CallSuspends(c) \/ CallReserves(c) \/ CallDropped(c)
    BY <1>0, <2>2 DEF CallSuspends, CallReserves, CallDropped, retireVars, keptVars, histVars
  <2>3. CASE \/ CallInvalid(c) \/ CallRefused(c) \/ CallOverflows(c) \/ CallReceives(c)
             \/ CallCancels(c) \/ CancelContext(c) \/ TimerFires(c)
    BY <1>0, <2>3 DEF CallInvalid, CallRefused, CallOverflows, CallReceives, CallCancels,
                      CancelContext, TimerFires, brokerVars, histVars
  <2> QED BY <1>3, <2>1, <2>2, <2>3 DEF CallStep
<1>4. CASE RoundEnters \/ RoundPolls \/ RoundWakes \/ RoundLeavesSelect
  BY <1>0, <1>4 DEF RoundEnters, RoundPolls, RoundWakes, RoundLeavesSelect, callVars,
                    brokerVars, histVars
<1>5. CASE Seal
  BY <1>5, SealAcknowledged
<1>6. ASSUME NEW n \in 1..MaxBatches, Delivered(n) PROVE Acknowledged'
  BY <1>6 DEF Delivered, callVars, Acknowledged, DeliveredAnswer
<1>7. ASSUME NEW R \in SUBSET Calls, Resolve(R) \/ Abandon(R) PROVE Acknowledged'
  <2>1. CASE Resolve(R)
    BY <2>1, ResolveAcknowledged
  <2>2. CASE Abandon(R)
    BY <2>2, RetireAcknowledged DEF Abandon, keptVars, histVars
  <2> QED BY <1>7, <2>1, <2>2
<1>8. CASE UNCHANGED vars
  BY <1>0, <1>8 DEF vars, callVars, brokerVars, histVars
<1> QED BY <1>1, <1>2, <1>3, <1>4, <1>5, <1>6, <1>7, <1>8 DEF Next

\* A result of the client answers a call only after the response that carried
\* the call's own batch was acknowledged (Delivered before Resolve).
THEOREM DeliveredHolds == Spec => []DeliveredAnswer
<1>1. Init => Acknowledged
  <2>1. 1..Len(<<>>) = {}
    BY EmptySeq
  <2> QED BY <2>1 DEF Init, Acknowledged, DeliveredAnswer
<1>2. RefInv /\ Acknowledged /\ [Next]_vars => Acknowledged'
  BY AcknowledgedKeeps
<1>3. Acknowledged => DeliveredAnswer
  BY DEF Acknowledged
<1> QED BY <1>1, <1>2, <1>3, RefInvariance, PTL DEF Spec

----------------------------------------------------------------------------
(* Causes of retirement.                                                   *)

\* A call on its way to failPending has a cancelled context.
CancelledFirst == \A c \in Calls : pc[c] = "cancelling" => canceled[c]

LEMMA CancelledKeeps ==
    ASSUME BrokerInv, CancelledFirst, [Next]_vars
    PROVE  CancelledFirst'
<1>0. pc \in [Calls -> Places] /\ canceled \in [Calls -> BOOLEAN]
  BY DEF BrokerInv, TypeOK
<1>1. CASE Close \/ BeginTurn \/ EndTurn
  BY <1>1 DEF Close, BeginTurn, EndTurn, callVars, keptVars, CancelledFirst
<1>2. ASSUME NEW c \in Calls,
             CallStep(c) \/ CancelContext(c) \/ TimerFires(c) \/ expire(c)
      PROVE  CancelledFirst'
  <2>1. CASE CancelContext(c)
    BY <1>0, <2>1 DEF CancelContext, CancelledFirst
  <2>2. CASE CallCancels(c)
    BY <1>0, <2>2 DEF CallCancels, CancelledFirst
  <2>3. ASSUME ~CancelContext(c), ~CallCancels(c)
        PROVE  /\ canceled' = canceled
               /\ \E at \in Places \ {"cancelling"} :
                      pc' = pc \/ pc' = [pc EXCEPT ![c] = at]
    <3>1. CASE \/ CallInvalid(c) \/ CallRefused(c) \/ CallOverflows(c) \/ CallReceives(c)
               \/ TimerFires(c) \/ expire(c)
      BY <3>1 DEF CallInvalid, CallRefused, CallOverflows, CallReceives, TimerFires, expire,
                  Return, keptVars, Places
    <3>2. CASE \/ CallFails(c) \/ CallReserves(c) \/ CallDropped(c) \/ CallSuspends(c)
               \/ CallFailsPending(c)
      BY <3>2 DEF CallFails, CallReserves, CallDropped, CallSuspends, CallFailsPending,
                  Return, keptVars, Places
    <3> QED BY <1>2, <2>3, <3>1, <3>2 DEF CallStep
  <2> QED BY <1>0, <2>1, <2>2, <2>3 DEF CancelledFirst
<1>3. CASE RoundEnters \/ RoundPolls \/ RoundWakes \/ RoundLeavesSelect \/ Seal
  BY <1>3 DEF RoundEnters, RoundPolls, RoundWakes, RoundLeavesSelect, Seal, callVars,
              CancelledFirst
<1>4. CASE \E n \in 1..MaxBatches : Delivered(n)
  BY <1>4 DEF Delivered, callVars, CancelledFirst
<1>5. CASE \E R \in SUBSET Calls : Resolve(R) \/ Abandon(R)
  BY <1>5 DEF Resolve, Abandon, keptVars, CancelledFirst
<1>6. CASE UNCHANGED vars
  BY <1>6 DEF vars, callVars, CancelledFirst
<1> QED BY <1>1, <1>2, <1>3, <1>4, <1>5, <1>6 DEF Next

\* Every step that retires an open broker with a reason of one call finds that
\* call pending, its timer fired or its context cancelled.
LEMMA CauseOfStep ==
    ASSUME BrokerInv, CancelledFirst, [Next]_vars, err = "nil"
    PROVE  /\ err' = "ErrTimeout" => \E c \in pending : timer[c] = "fired"
           /\ err' = "Canceled" => \E c \in pending : canceled[c]
<1> DEFINE Caused == /\ err' = "ErrTimeout" => \E c \in pending : timer[c] = "fired"
                     /\ err' = "Canceled" => \E c \in pending : canceled[c]
<1>0. ASSUME err' = err PROVE Caused
  BY <1>0
<1>1. ASSUME NEW reason, failLocked(reason) PROVE err' = reason
  BY <1>1 DEF failLocked
<1>2. CASE Close \/ EndTurn
  BY <1>0, <1>1, <1>2 DEF Close, EndTurn, retireVars
<1>3. CASE BeginTurn
  BY <1>0, <1>3 DEF BeginTurn
<1>4. ASSUME NEW c \in Calls,
             CallStep(c) \/ CancelContext(c) \/ TimerFires(c) \/ expire(c)
      PROVE  Caused
  <2>1. CASE CallFails(c)
    BY <1>1, <2>1 DEF CallFails
  <2>2. CASE CallFailsPending(c)
    BY <1>0, <1>1, <2>2 DEF CallFailsPending, failPending, retireVars, CancelledFirst
  <2>3. CASE expire(c)
    BY <1>0, <1>1, <2>3 DEF expire, failPending, retireVars
  <2>4. CASE CallSuspends(c) \/ CallReserves(c) \/ CallDropped(c)
    BY <1>0, <2>4 DEF CallSuspends, CallReserves, CallDropped, retireVars
  <2>5. CASE \/ CallInvalid(c) \/ CallRefused(c) \/ CallOverflows(c) \/ CallReceives(c)
             \/ CallCancels(c) \/ CancelContext(c) \/ TimerFires(c)
    BY <1>0, <2>5 DEF CallInvalid, CallRefused, CallOverflows, CallReceives, CallCancels,
                      CancelContext, TimerFires, brokerVars
  <2> QED BY <1>4, <2>1, <2>2, <2>3, <2>4, <2>5 DEF CallStep
<1>5. CASE RoundEnters \/ RoundPolls \/ RoundWakes \/ RoundLeavesSelect \/ Seal
  BY <1>0, <1>5 DEF RoundEnters, RoundPolls, RoundWakes, RoundLeavesSelect, Seal, brokerVars
<1>6. CASE \E n \in 1..MaxBatches : Delivered(n)
  BY <1>0, <1>6 DEF Delivered
<1>7. ASSUME NEW R \in SUBSET Calls, Resolve(R) \/ Abandon(R) PROVE Caused
  BY <1>0, <1>1, <1>7 DEF Resolve, Abandon
<1>8. CASE UNCHANGED vars
  BY <1>0, <1>8 DEF vars, brokerVars
<1> QED BY <1>2, <1>3, <1>4, <1>5, <1>6, <1>7, <1>8 DEF Next

\* A timer or a cancelled context retires the broker only for a call that is
\* still pending: expire and failPending look again under b.mu, and lose to a
\* resolution that came first.
THEOREM OwnFailureHolds == Spec => OnlyOwnFailure
<1>1. Init => CancelledFirst
  BY DEF Init, CancelledFirst
<1>2. BrokerInv /\ CancelledFirst /\ [Next]_vars => CancelledFirst'
  BY CancelledKeeps
<1>3. BrokerInv /\ CancelledFirst /\ [Next]_vars =>
          [/\ err = "nil" /\ err' = "ErrTimeout" =>
                  \E c \in pending : timer[c] = "fired"
           /\ err = "nil" /\ err' = "Canceled" =>
                  \E c \in pending : canceled[c]]_vars
  BY CauseOfStep
<1> QED BY <1>1, <1>2, <1>3, Invariance, PTL DEF Spec, OnlyOwnFailure

----------------------------------------------------------------------------
(* The socket: its inductive invariant.                                    *)

ChildPlaces == {"none", "attach", "joined", "serving", "draining", "gone"}
Handlers == {"none", "first", "wait", "check", "call", "reply", "again", "claim", "offer", "ack", "join", "ready", "live", "done"}
Ends == {"none", "backlog", "open", "closed"}
JobPlaces == {"none", "dial", "sent", "write", "done"}

\* Only what the argument needs the type of.
SocketTypes ==
    /\ setup \in {"running", "succeeded", "failed"}
    /\ bind \in {"none", "checked", "bound", "refused"}
    /\ closing \in {"no", "closed", "broker", "joined", "removed"}
    /\ accepting \in BOOLEAN
    /\ peer \in Children \cup {None}
    /\ h \in [Conns -> Handlers] /\ srv \in [Conns -> Ends]
    /\ place \in [Children -> ChildPlaces]
    /\ job \in [Requests -> JobPlaces] /\ owner \in [Requests -> Children \cup {None}]
    /\ replies \in [Requests -> Nat]

\* A child is refused for the end of the setup only when the setup has failed.
LateTrue ==
    /\ setup = "succeeded" => bind = "bound"
    /\ \A c \in Children : h[c] = "again" => setup # "running"
    /\ late # {} => setup = "failed"

\* Close takes away what the steps before it have left, and nothing of it comes back.
CloseTrue ==
    /\ Closed => \A k \in Conns : srv[k] \in {"none", "closed"}
    /\ closing \in {"broker", "joined", "removed"} => broker = "closed"
    /\ closing \in {"joined", "removed"} => ~accepting /\ Serving = {}
    /\ closing = "removed" /\ peer # None /\ ~cleanupErr => place[peer] = "gone"

\* A request is without a reply until its job ends, and a job ends before its child, with it, or
\* with a reply.
ReplyTrue ==
    \A x \in Requests :
        /\ job[x] = "none" <=> owner[x] = None
        /\ job[x] # "done" => replies[x] = 0
        /\ job[x] # "none" => place[owner[x]] \in {"serving", "draining", "gone"}
        /\ job[x] \in {"dial", "sent", "write"} => place[owner[x]] \in {"serving", "draining"}
        /\ job[x] = "done" /\ place[owner[x]] = "serving" => replies[x] = 1
        /\ replies[x] <= 1

SocketInv == SocketTypes /\ LateTrue /\ CloseTrue /\ ReplyTrue

----------------------------------------------------------------------------
(* The socket: each step keeps it.                                         *)

LEMMA SocketInvInit == SocketInit => SocketInv
<1> SUFFICES ASSUME SocketInit PROVE SocketInv
  OBVIOUS
<1>1. SocketTypes
  <2>1. h = [k \in Conns |-> "none"] /\ srv = [k \in Conns |-> "none"] /\ place = [c \in Children |-> "none"]
    BY DEF SocketInit
  <2>2. h \in [Conns -> Handlers] /\ srv \in [Conns -> Ends] /\ place \in [Children -> ChildPlaces]
    BY <2>1 DEF Handlers, Ends, ChildPlaces
  <2>3. job \in [Requests -> JobPlaces] /\ owner \in [Requests -> Children \cup {None}] /\ replies \in [Requests -> Nat]
    BY DEF SocketInit, JobPlaces
  <2> QED BY <2>2, <2>3 DEF SocketInit, SocketTypes
<1>2. LateTrue /\ CloseTrue
  BY DEF SocketInit, LateTrue, CloseTrue, Closed, Conns
<1>3. ReplyTrue
  BY DEF SocketInit, ReplyTrue
<1> QED BY <1>1, <1>2, <1>3 DEF SocketInv

\* Steps of the setup, of Close and of the broker.
LEMMA SocketOwnerKeeps ==
    ASSUME SocketInv,
           \/ BindChecks \/ BindSets \/ SetupSucceeds \/ SetupFails \/ AcceptEnds \/ BrokerEnds
           \/ CloseStarts \/ CloseBroker \/ CloseJoins \/ CloseEnds \/ CloseGivesUp
    PROVE  SocketInv'
<1>1. UNCHANGED <<peer, late, h, place, job, owner, replies>>
  BY DEF BindChecks, BindSets, SetupSucceeds, SetupFails, AcceptEnds, BrokerEnds, CloseStarts, CloseBroker, CloseJoins, CloseEnds,
         CloseGivesUp, child
<1>2. srv' \in [Conns -> Ends]
  <2>1. srv \in [Conns -> Ends] /\ {"none", "closed"} \subseteq Ends
    BY DEF SocketInv, SocketTypes, Ends
  <2>2. srv' = srv \/ srv' = [k \in Conns |-> IF srv[k] = "none" THEN "none" ELSE "closed"]
    BY DEF BindChecks, BindSets, SetupSucceeds, SetupFails, AcceptEnds, BrokerEnds, CloseStarts, CloseBroker, CloseJoins, CloseEnds,
           CloseGivesUp
  <2> QED BY <2>1, <2>2
<1>3. SocketTypes'
  BY ZenonT(60), <1>1, <1>2 DEF SocketInv, SocketTypes, BindChecks, BindSets, SetupSucceeds, SetupFails, AcceptEnds, BrokerEnds, CloseStarts,
         CloseBroker, CloseJoins, CloseEnds, CloseGivesUp
<1>4. LateTrue'
  BY <1>1 DEF SocketInv, SocketTypes, LateTrue, Closed, BindChecks, BindSets, SetupSucceeds, SetupFails, AcceptEnds, BrokerEnds, CloseStarts,
         CloseBroker, CloseJoins, CloseEnds, CloseGivesUp
<1>5. Serving' = Serving
  BY <1>1 DEF Serving
<1>6. CloseTrue'
  BY <1>1, <1>5 DEF SocketInv, SocketTypes, CloseTrue, Closed, BindChecks, BindSets, SetupSucceeds, SetupFails, AcceptEnds, BrokerEnds,
         CloseStarts, CloseBroker, CloseJoins, CloseEnds, CloseGivesUp
<1>7. ReplyTrue'
  BY <1>1 DEF SocketInv, ReplyTrue
<1> QED BY <1>3, <1>4, <1>6, <1>7 DEF SocketInv

\* What a handler may do: go on, or end and close its connection; only the handler of a child
\* that has seen the setup end looks again, and only the one without a group is late.
HandlerMoves(k, state) ==
    /\ UNCHANGED <<setup, bind, closing, accepting, cleanupErr, place, job, owner, replies>>
    /\ broker' \in {broker, "closed"}
    /\ h[k] \notin {"none", "done"} /\ h' = [h EXCEPT ![k] = state]
    /\ state = "again" => setup # "running"
    /\ srv' = srv \/ srv' = [srv EXCEPT ![k] = "closed"]
    /\ late' = late \/ (k \in Children /\ h[k] = "again" /\ bind # "bound")
    /\ peer' = peer \/ (~Closed /\ k \in Children /\ peer' = k)

LEMMA HandlerKeeps ==
    ASSUME SocketInv, NEW k \in Conns, NEW state \in Handlers, HandlerMoves(k, state)
    PROVE  SocketInv'
<1>1. h' \in [Conns -> Handlers] /\ srv' \in [Conns -> Ends]
  BY DEF HandlerMoves, SocketInv, SocketTypes, Ends
<1>2. SocketTypes'
  BY <1>1 DEF HandlerMoves, SocketInv, SocketTypes
<1>3. LateTrue'
  <2>1. \A c \in Children : h'[c] = "again" => setup # "running"
    BY DEF HandlerMoves, SocketInv, SocketTypes, LateTrue, Conns
  <2> QED BY <2>1 DEF HandlerMoves, SocketInv, SocketTypes, LateTrue
<1>4. Serving # {}
  BY DEF HandlerMoves, Serving
<1>5. CloseTrue'
  BY <1>1, <1>4 DEF HandlerMoves, SocketInv, SocketTypes, CloseTrue, Closed
<1>6. ReplyTrue'
  BY DEF HandlerMoves, SocketInv, ReplyTrue
<1> QED BY <1>2, <1>3, <1>5, <1>6 DEF SocketInv

\* The handler goes on, and nothing else is changed but what is written to the connection.
LEMMA HandlerGoes ==
    ASSUME SocketInv, NEW k \in Conns, NEW state \in Handlers, h[k] \notin {"none", "done"},
           Handler(k, state), state = "again" => setup # "running",
           UNCHANGED <<setup, bind, broker, closing, accepting, cleanupErr, peer, late, srv, child>>
    PROVE  SocketInv'
<1>1. HandlerMoves(k, state)
  BY DEF HandlerMoves, Handler, child
<1> QED BY <1>1, HandlerKeeps

\* The handler ends.
LEMMA HandlerEnds ==
    ASSUME SocketInv, NEW k \in Conns, h[k] \notin {"none", "done"}, Handler(k, "done"), Shut(srv, k),
           broker' \in {broker, "closed"}, UNCHANGED <<setup, bind, closing, accepting, cleanupErr, peer, child>>,
           late' = late \/ (k \in Children /\ h[k] = "again" /\ bind # "bound")
    PROVE  SocketInv'
<1>1. HandlerMoves(k, "done") /\ "done" \in Handlers
  BY DEF HandlerMoves, Handler, Shut, child, Handlers
<1> QED BY <1>1, HandlerKeeps

\* Handlers of either kind.
LEMMA ConnKeeps ==
    ASSUME SocketInv, NEW k \in Conns, Accept(k) \/ ReadFirst(k) \/ ReadFails(k)
    PROVE  SocketInv'
<1>1. CASE Accept(k)
  <2>1. /\ UNCHANGED <<setup, bind, broker, closing, cleanupErr, accepting, peer, late, place, job, owner, replies>>
        /\ accepting /\ srv[k] = "backlog"
        /\ h' = h \/ h' = [h EXCEPT ![k] = "first"]
        /\ srv' = [srv EXCEPT ![k] = "closed"] \/ srv' = [srv EXCEPT ![k] = "open"]
    BY <1>1 DEF Accept, Shut, Handler, server, child
  <2>2. ~Closed
    BY <2>1 DEF SocketInv, CloseTrue
  <2>3. h' \in [Conns -> Handlers] /\ srv' \in [Conns -> Ends]
    BY <2>1 DEF SocketInv, SocketTypes, Ends, Handlers
  <2>4. SocketTypes'
    BY <2>1, <2>3 DEF SocketInv, SocketTypes
  <2>5. LateTrue'
    <3>1. \A c \in Children : h'[c] = "again" => h[c] = "again"
      BY <2>1 DEF SocketInv, SocketTypes, Conns
    <3> QED BY <2>1, <3>1 DEF SocketInv, LateTrue
  <2>6. CloseTrue'
    BY <2>1, <2>2 DEF SocketInv, CloseTrue, Closed
  <2>7. ReplyTrue'
    BY <2>1 DEF SocketInv, ReplyTrue
  <2> QED BY <2>4, <2>5, <2>6, <2>7 DEF SocketInv
<1>2. CASE ReadFirst(k)
  <2>1. \E state \in {"wait", "check"} : Handler(k, state)
    BY <1>2 DEF ReadFirst
  <2> QED BY <1>2, <2>1, HandlerGoes DEF ReadFirst, server, Handlers
<1>3. CASE ReadFails(k)
  BY <1>3, HandlerEnds DEF ReadFails, ServeReturns, server
<1> QED BY <1>1, <1>2, <1>3

\* The handler of a call.
LEMMA RequestKeeps ==
    ASSUME SocketInv, NEW x \in Requests, Check(x) \/ CallReturns(x) \/ CallCancelled(x) \/ Reply(x)
    PROVE  SocketInv'
<1>0. x \in Conns /\ {"call", "reply"} \subseteq Handlers
  BY DEF Conns, Handlers
<1>1. CASE Check(x)
  <2>1. CASE ServeReturns(x)
    BY <1>0, <1>1, <2>1, HandlerEnds DEF Check, ServeReturns, server
  <2>2. CASE ~ServeReturns(x)
    BY <1>0, <1>1, <2>2, HandlerGoes DEF Check, server
  <2> QED BY <2>1, <2>2
<1>2. CASE CallReturns(x)
  BY <1>0, <1>2, HandlerGoes DEF CallReturns, server
<1>3. CASE CallCancelled(x)
  BY <1>0, <1>3, HandlerEnds DEF CallCancelled, ServeReturns, server
<1>4. CASE Reply(x)
  BY <1>0, <1>4, HandlerEnds DEF Reply, server
<1> QED BY <1>1, <1>2, <1>3, <1>4

\* The handler of an attachment.
LEMMA AttachKeeps ==
    ASSUME SocketInv, NEW c \in Children,
           \/ WaitBound(c) \/ WaitCloses(c) \/ WaitTimes(c) \/ WaitSetup(c) \/ Again(c) \/ Claim(c) \/ Offer(c)
           \/ Ack(c) \/ AckFails(c) \/ AckTimes(c) \/ Join(c) \/ Ready(c) \/ LiveEnds(c)
    PROVE  SocketInv'
<1>0. c \in Conns /\ {"claim", "again", "offer", "ack", "join", "ready", "live"} \subseteq Handlers
  BY DEF Conns, Handlers
<1>1. ASSUME Retires(c), h[c] \notin {"none", "done"} PROVE SocketInv'
  BY <1>0, <1>1, HandlerEnds DEF Retires, ServeReturns
<1>2. ASSUME NEW frame, NEW state \in Handlers \ {"again"}, Writes(c, frame, state), h[c] \notin {"none", "done"}
      PROVE  SocketInv'
  BY <1>0, <1>2, HandlerGoes DEF Writes, server
<1>3. CASE WaitBound(c) \/ WaitSetup(c) \/ Ack(c)
  BY <1>0, <1>3, HandlerGoes DEF WaitBound, WaitSetup, Ack, server
<1>4. CASE WaitCloses(c) \/ WaitTimes(c)
  BY <1>0, <1>4, HandlerEnds DEF WaitCloses, WaitTimes, ServeReturns, server
<1>5. CASE Again(c)
  <2>1. CASE bind = "bound"
    BY <1>0, <1>5, <2>1, HandlerGoes DEF Again
  <2>2. CASE bind # "bound"
    BY <1>0, <1>5, <2>2, HandlerEnds DEF Again, ServeReturns
  <2> QED BY <2>1, <2>2
<1>6. CASE Claim(c)
  <2>1. CASE Closed \/ peer # None
    BY <1>0, <1>6, <2>1, HandlerEnds DEF Claim, ServeReturns
  <2>2. CASE ~(Closed \/ peer # None)
    <3>1. HandlerMoves(c, "offer")
      BY <1>6, <2>2 DEF Claim, HandlerMoves, Handler, child
    <3> QED BY <1>0, <3>1, HandlerKeeps
  <2> QED BY <2>1, <2>2
<1>7. CASE AckFails(c) \/ AckTimes(c) \/ LiveEnds(c)
  BY <1>1, <1>7 DEF AckFails, AckTimes, LiveEnds
<1>8. CASE Offer(c) \/ Ready(c)
  BY <1>0, <1>1, <1>2, <1>8 DEF Offer, Ready
<1>9. CASE Join(c)
  <2>1. CASE Closed
    BY <1>1, <1>9, <2>1 DEF Join
  <2>2. CASE ~Closed
    BY <1>0, <1>9, <2>2, HandlerGoes DEF Join
  <2> QED BY <2>1, <2>2
<1> QED BY <1>3, <1>4, <1>5, <1>6, <1>7, <1>8, <1>9

\* A child that ends takes its jobs with it, answered or not.
LEMMA ExitKeeps ==
    ASSUME SocketInv, NEW c \in Children, Exits(c)
    PROVE  SocketInv'
<1>1. /\ UNCHANGED <<setup, bind, broker, closing, cleanupErr, accepting, peer, late, h, srv, owner, replies>>
      /\ place' = [place EXCEPT ![c] = "gone"]
      /\ job' = [x \in Requests |-> IF x \in Jobs(c) THEN "done" ELSE job[x]]
  BY DEF Exits, Step, server
<1>2. SocketTypes'
  BY <1>1 DEF SocketInv, SocketTypes, ChildPlaces, JobPlaces
<1>3. LateTrue' /\ CloseTrue'
  BY <1>1 DEF SocketInv, SocketTypes, LateTrue, CloseTrue, Closed, Serving
<1>4. ASSUME NEW x \in Requests
      PROVE  /\ job'[x] = "none" <=> owner'[x] = None
             /\ job'[x] # "done" => replies'[x] = 0
             /\ job'[x] # "none" => place'[owner'[x]] \in {"serving", "draining", "gone"}
             /\ job'[x] \in {"dial", "sent", "write"} => place'[owner'[x]] \in {"serving", "draining"}
             /\ job'[x] = "done" /\ place'[owner'[x]] = "serving" => replies'[x] = 1
             /\ replies'[x] <= 1
  <2>1. CASE owner[x] = c
    BY <1>1, <1>4, <2>1, RelaySocketAssumption DEF SocketInv, SocketTypes, ReplyTrue, Jobs
  <2>2. CASE owner[x] # c
    BY <1>1, <1>4, <2>2, RelaySocketAssumption DEF SocketInv, SocketTypes, ReplyTrue, Jobs
  <2> QED BY <2>1, <2>2
<1>5. ReplyTrue'
  BY <1>4 DEF ReplyTrue
<1> QED BY <1>2, <1>3, <1>5 DEF SocketInv

\* A child goes on: it never starts to serve again.
LEMMA ChildKeeps ==
    ASSUME SocketInv, NEW c \in Children,
           \/ Launch(c) \/ GetsOffer(c) \/ GetsReady(c) \/ AttachFails(c) \/ AttachTimes(c) \/ AttachmentLost(c)
           \/ InputEnds(c) \/ ChildExits(c) \/ ChildDies(c)
    PROVE  SocketInv'
<1>1. CASE Exits(c)
  BY <1>1, ExitKeeps
<1>2. ASSUME NEW state \in ChildPlaces,
             UNCHANGED <<setup, bind, broker, closing, cleanupErr, accepting, peer, late, h, job, owner, replies>>,
             place' = [place EXCEPT ![c] = state],
             place[c] = "serving" => state = "draining", place[c] # "gone", place[c] # "draining",
             srv' = srv \/ (~Closed /\ srv' = [srv EXCEPT ![c] = "backlog"]),
             state = "serving" => place[c] = "joined"
      PROVE  SocketInv'
  <2>0. srv' \in [Conns -> Ends] /\ place' \in [Children -> ChildPlaces]
    <3>1. srv \in [Conns -> Ends] /\ c \in Conns /\ "backlog" \in Ends /\ place \in [Children -> ChildPlaces]
      BY DEF SocketInv, SocketTypes, Ends, Conns
    <3> QED BY <1>2, <3>1
  <2>1. SocketTypes'
    BY <1>2, <2>0 DEF SocketInv, SocketTypes
  <2>2. LateTrue' /\ CloseTrue'
    BY <1>2 DEF SocketInv, SocketTypes, LateTrue, CloseTrue, Closed, Serving
  <2>3. ASSUME NEW x \in Requests
        PROVE  /\ job'[x] = "none" <=> owner'[x] = None
               /\ job'[x] # "done" => replies'[x] = 0
               /\ job'[x] # "none" => place'[owner'[x]] \in {"serving", "draining", "gone"}
               /\ job'[x] \in {"dial", "sent", "write"} => place'[owner'[x]] \in {"serving", "draining"}
               /\ job'[x] = "done" /\ place'[owner'[x]] = "serving" => replies'[x] = 1
               /\ replies'[x] <= 1
    <3>1. CASE owner[x] = c
      BY <1>2, <2>3, <3>1, RelaySocketAssumption DEF SocketInv, SocketTypes, ReplyTrue
    <3>2. CASE owner[x] # c
      BY <1>2, <2>3, <3>2, RelaySocketAssumption DEF SocketInv, SocketTypes, ReplyTrue
    <3> QED BY <3>1, <3>2
  <2>4. ReplyTrue'
    BY <2>3 DEF ReplyTrue
  <2> QED BY <2>1, <2>2, <2>4 DEF SocketInv
<1>3. {"attach", "joined", "serving", "draining"} \subseteq ChildPlaces
  BY DEF ChildPlaces
<1>4. CASE Launch(c) /\ ~Exits(c)
  BY <1>2, <1>3, <1>4 DEF Launch, Dials, Step, server
<1>5. CASE GetsOffer(c) \/ GetsReady(c) \/ AttachmentLost(c) \/ InputEnds(c)
  BY <1>2, <1>3, <1>5 DEF GetsOffer, GetsReady, AttachmentLost, InputEnds, Step, server
<1> QED BY <1>1, <1>4, <1>5 DEF AttachFails, AttachTimes, ChildExits, ChildDies

LEMMA JobKeeps ==
    ASSUME SocketInv, NEW x \in Requests,
           Request(x) \/ JobDials(x) \/ JobReads(x) \/ JobCancelled(x) \/ JobFails(x) \/ JobWrites(x)
    PROVE  SocketInv'
<1>1. UNCHANGED <<setup, bind, broker, closing, cleanupErr, accepting, peer, late, h, place>>
  BY DEF Request, JobDials, JobReads, JobCancelled, JobFails, JobWrites, server
<1>2. srv' = srv \/ (~Closed /\ srv' = [srv EXCEPT ![x] = "backlog"])
  BY DEF Request, JobDials, Dials, JobReads, JobCancelled, JobFails, JobWrites
<1>3. LateTrue' /\ CloseTrue' /\ srv' \in [Conns -> Ends]
  <2>1. srv \in [Conns -> Ends] /\ x \in Conns /\ "backlog" \in Ends
    BY DEF SocketInv, SocketTypes, Ends, Conns
  <2>2. srv' \in [Conns -> Ends]
    BY <1>2, <2>1
  <2>3. LateTrue'
    BY <1>1 DEF SocketInv, LateTrue
  <2>4. Serving' = Serving
    BY <1>1 DEF Serving
  <2>5. CloseTrue'
    BY <1>1, <1>2, <2>4 DEF SocketInv, CloseTrue, Closed
  <2> QED BY <2>2, <2>3, <2>5
<1>4. /\ \A y \in Requests \ {x} : job'[y] = job[y] /\ owner'[y] = owner[y] /\ replies'[y] = replies[y]
      /\ job' \in [Requests -> JobPlaces] /\ owner' \in [Requests -> Children \cup {None}] /\ replies' \in [Requests -> Nat]
  BY DEF Request, JobDials, JobReads, JobCancelled, JobFails, JobWrites, JobStep, SocketInv, SocketTypes, JobPlaces
<1>5. SocketTypes'
  BY <1>1, <1>3, <1>4 DEF SocketInv, SocketTypes
<1>6. /\ job'[x] = "none" <=> owner'[x] = None
      /\ job'[x] # "done" => replies'[x] = 0
      /\ job'[x] # "none" => place'[owner'[x]] \in {"serving", "draining", "gone"}
      /\ job'[x] \in {"dial", "sent", "write"} => place'[owner'[x]] \in {"serving", "draining"}
      /\ job'[x] = "done" /\ place'[owner'[x]] = "serving" => replies'[x] = 1
      /\ replies'[x] <= 1
  <2>1. CASE Request(x)
    <3>1. PICK c \in Children :
            /\ place[c] = "serving" /\ owner' = [owner EXCEPT ![x] = c] /\ job[x] = "none"
            /\ \/ job' = [job EXCEPT ![x] = "done"] /\ replies' = [replies EXCEPT ![x] = @ + 1]
               \/ job' = [job EXCEPT ![x] = "dial"] /\ UNCHANGED replies
      BY <2>1 DEF Request, JobStep
    <3> QED BY <1>1, <3>1, RelaySocketAssumption DEF SocketInv, SocketTypes, ReplyTrue
  <2>2. CASE JobDials(x) \/ JobReads(x) \/ JobCancelled(x) \/ JobFails(x)
    BY <1>1, <2>2 DEF JobDials, JobReads, JobCancelled, JobFails, JobStep, SocketInv, SocketTypes, ReplyTrue
  <2>3. CASE JobWrites(x)
    BY <1>1, <2>3 DEF JobWrites, JobStep, SocketInv, SocketTypes, ReplyTrue
  <2> QED BY <2>1, <2>2, <2>3
<1>7. ReplyTrue'
  BY <1>1, <1>4, <1>6 DEF SocketInv, ReplyTrue
<1> QED BY <1>3, <1>5, <1>7 DEF SocketInv

LEMMA SocketKeeps == SocketInv /\ [SocketNext]_socketVars => SocketInv'
<1> SUFFICES ASSUME SocketInv, [SocketNext]_socketVars PROVE SocketInv'
  OBVIOUS
<1>1. CASE OwnStep
  BY <1>1, SocketOwnerKeeps, ConnKeeps, RequestKeeps, AttachKeeps, ChildKeeps, JobKeeps DEF OwnStep
<1>2. CASE OtherStep
  BY <1>2, SocketOwnerKeeps, RequestKeeps, AttachKeeps, ChildKeeps, JobKeeps DEF OtherStep
<1>3. CASE UNCHANGED socketVars
  <2>1. UNCHANGED <<setup, bind, broker, closing, cleanupErr, accepting, peer, late, h, srv, place, job, owner, replies>>
    BY <1>3 DEF socketVars, server, child
  <2> QED BY <2>1 DEF SocketInv, SocketTypes, LateTrue, CloseTrue, ReplyTrue, Closed, Serving
<1> QED BY <1>1, <1>2, <1>3 DEF SocketNext

LEMMA SocketAlways == SocketSpec => []SocketInv
BY SocketInvInit, SocketKeeps, PTL DEF SocketSpec

----------------------------------------------------------------------------
(* The socket: theorems.                                                   *)

\* No child is refused because a setup that succeeded has ended its context (attach looks at the
\* bound group a second time).
THEOREM LateHolds == SocketSpec => []LateChild
<1>1. SocketInv => LateChild
  BY DEF SocketInv, LateTrue, LateChild
<1> QED BY <1>1, SocketAlways, PTL

\* When Socket.Close returns there is no handler, no connection and no open broker, and the attached
\* child is gone unless Close has reported it.
THEOREM CloseHolds == SocketSpec => []NothingLeft
<1>1. SocketInv => NothingLeft
  BY DEF SocketInv, CloseTrue, NothingLeft, Closed
<1> QED BY <1>1, SocketAlways, PTL

\* Every tool request of the backend is answered exactly once by a child that goes on serving, and
\* at most once by any.
THEOREM RepliesHold == SocketSpec => []AnsweredOnce
<1>1. SocketInv => AnsweredOnce
  BY DEF SocketInv, ReplyTrue, AnsweredOnce
<1> QED BY <1>1, SocketAlways, PTL

----------------------------------------------------------------------------
(* The socket: nobody waits on the others.                                 *)

\* The places of a handler that has claimed the slot.
Held == {"offer", "ack", "join", "ready", "live"}

\* The attached child has a handler until the broker is closed, a child that dialled has a
\* connection, and one that has gone has closed its end.
EndTrue ==
    /\ cli \in [Conns -> {"none", "open", "closed"}]
    /\ peer # None => h[peer] \in Held \/ (h[peer] = "done" /\ broker = "closed")
    /\ \A k \in Conns : /\ srv[k] = "none" <=> cli[k] = "none"
                        /\ h[k] # "none" => srv[k] \in {"open", "closed"}
    /\ \A x \in Requests : /\ job[x] \in {"none", "dial"} => srv[x] = "none"
                           /\ job[x] = "sent" => srv[x] # "none"
    /\ \A c \in Children : /\ place[c] = "none" => srv[c] = "none"
                           /\ place[c] \notin {"none", "gone"} => srv[c] # "none"
                           /\ place[c] = "gone" => cli[c] # "open"

LEMMA EndInit == SocketInit => EndTrue
<1> SUFFICES ASSUME SocketInit PROVE EndTrue
  OBVIOUS
<1>1. h = [k \in Conns |-> "none"] /\ srv = h /\ cli = h /\ peer = None
  BY DEF SocketInit
<1>2. place = [c \in Children |-> "none"] /\ job = [x \in Requests |-> "none"]
  BY DEF SocketInit
<1> QED BY <1>1, <1>2 DEF EndTrue, Conns

LEMMA EndOwner ==
    ASSUME SocketInv, EndTrue,
           \/ BindChecks \/ BindSets \/ SetupSucceeds \/ SetupFails \/ AcceptEnds \/ BrokerEnds
           \/ CloseStarts \/ CloseBroker \/ CloseJoins \/ CloseEnds \/ CloseGivesUp
    PROVE  EndTrue'
<1>1. UNCHANGED <<peer, h, cli, place, job>> /\ broker' \in {broker, "closed"}
  BY DEF BindChecks, BindSets, SetupSucceeds, SetupFails, AcceptEnds, BrokerEnds, CloseStarts, CloseBroker, CloseJoins,
         CloseEnds, CloseGivesUp, child
<1>2. \A k \in Conns : (srv'[k] = "none" <=> srv[k] = "none") /\ (srv'[k] = srv[k] \/ srv'[k] = "closed")
  BY DEF SocketInv, SocketTypes, Conns, BindChecks, BindSets, SetupSucceeds, SetupFails, AcceptEnds, BrokerEnds, CloseStarts, CloseBroker, CloseJoins,
         CloseEnds, CloseGivesUp
<1> QED BY <1>1, <1>2 DEF EndTrue, Conns, SocketInv, SocketTypes

\* What a handler may do here: claim the slot if nobody has, or go on with what it holds, and close
\* the broker when it ends.
EndMoves(k, state) ==
    /\ UNCHANGED <<cli, place, job>> /\ broker' \in {broker, "closed"}
    /\ h[k] \notin {"none", "done"} /\ h' = [h EXCEPT ![k] = state] /\ state # "none"
    /\ srv' = srv \/ srv' = [srv EXCEPT ![k] = "closed"]
    /\ \/ peer' = peer /\ (h[k] \in Held => state \in Held \/ (state = "done" /\ broker' = "closed"))
       \/ peer' = k /\ k \in Children /\ state \in Held

LEMMA EndHandler ==
    ASSUME SocketInv, EndTrue, NEW k \in Conns, NEW state, EndMoves(k, state)
    PROVE  EndTrue'
<1>1. peer \in Children \cup {None} /\ srv \in [Conns -> Ends] /\ h \in [Conns -> Handlers] /\ Children \subseteq Conns
  BY DEF SocketInv, SocketTypes, Conns
<1>2. \A j \in Conns : /\ srv'[j] = "none" <=> srv[j] = "none"
                       /\ h'[j] # "none" => srv'[j] \in {"open", "closed"}
  BY <1>1 DEF EndMoves, EndTrue
<1>3. peer' # None => h'[peer'] \in Held \/ (h'[peer'] = "done" /\ broker' = "closed")
  <2>1. CASE peer' = k
    <3>1. h'[peer'] = state
      BY <1>1, <2>1 DEF EndMoves
    <3> QED BY <2>1, <3>1, <1>1 DEF EndMoves, EndTrue, Held
  <2>2. CASE peer' # k
    <3>1. peer' = peer
      BY <2>2 DEF EndMoves
    <3>2. peer # None => h'[peer] = h[peer]
      BY <1>1, <2>2, <3>1 DEF EndMoves
    <3> QED BY <3>1, <3>2 DEF EndMoves, EndTrue
  <2> QED BY <2>1, <2>2
<1> QED BY <1>1, <1>2, <1>3 DEF EndMoves, EndTrue, Conns

LEMMA EndConn ==
    ASSUME SocketInv, EndTrue, NEW k \in Conns, Accept(k) \/ ReadFirst(k) \/ ReadFails(k)
    PROVE  EndTrue'
<1>1. CASE Accept(k)
  <2>1. /\ UNCHANGED <<broker, peer, cli, place, job>> /\ srv[k] = "backlog"
        /\ h' = h \/ h' = [h EXCEPT ![k] = "first"]
        /\ srv' = [srv EXCEPT ![k] = "closed"] \/ srv' = [srv EXCEPT ![k] = "open"]
    BY <1>1 DEF Accept, Shut, Handler, server, child
  <2>2. srv \in [Conns -> Ends] /\ h \in [Conns -> Handlers] /\ peer \in Children \cup {None} /\ Children \subseteq Conns
    BY DEF SocketInv, SocketTypes, Conns
  <2>3. peer # k
    BY <2>1, RelaySocketAssumption DEF EndTrue, Held, Conns
  <2>4. \A j \in Conns : /\ srv'[j] = "none" <=> srv[j] = "none"
                         /\ h'[j] # "none" => srv'[j] \in {"open", "closed"}
    BY <2>1, <2>2 DEF EndTrue
  <2>5. peer # None => h'[peer] = h[peer]
    BY <2>1, <2>2, <2>3
  <2> QED BY <2>1, <2>2, <2>4, <2>5 DEF EndTrue, Conns
<1>2. CASE ReadFirst(k)
  <2>1. \E state \in {"wait", "check"} : EndMoves(k, state)
    BY <1>2 DEF ReadFirst, Handler, EndMoves, Held, server, child
  <2> QED BY <2>1, EndHandler
<1>3. CASE ReadFails(k)
  <2>1. EndMoves(k, "done")
    BY <1>3 DEF ReadFails, ServeReturns, Shut, Handler, EndMoves, Held, server, child
  <2> QED BY <2>1, EndHandler
<1> QED BY <1>1, <1>2, <1>3

LEMMA EndRequest ==
    ASSUME SocketInv, EndTrue, NEW x \in Requests, Check(x) \/ CallReturns(x) \/ CallCancelled(x) \/ Reply(x)
    PROVE  EndTrue'
<1>1. x \in Conns
  BY DEF Conns
<1>2. \E state \in {"call", "reply", "done"} : EndMoves(x, state)
  BY DEF Check, CallReturns, CallCancelled, Reply, ServeReturns, Shut, Handler, EndMoves, Held, server, child
<1> QED BY <1>1, <1>2, EndHandler

LEMMA EndAttach ==
    ASSUME SocketInv, EndTrue, NEW c \in Children,
           \/ WaitBound(c) \/ WaitCloses(c) \/ WaitTimes(c) \/ WaitSetup(c) \/ Again(c) \/ Claim(c) \/ Offer(c)
           \/ Ack(c) \/ AckFails(c) \/ AckTimes(c) \/ Join(c) \/ Ready(c) \/ LiveEnds(c)
    PROVE  EndTrue'
<1>1. c \in Conns
  BY DEF Conns
<1>2. ASSUME Retires(c), h[c] \notin {"none", "done"} PROVE EndMoves(c, "done")
  BY <1>2 DEF Retires, ServeReturns, Shut, Handler, EndMoves, child
<1>3. CASE WaitBound(c) \/ WaitSetup(c) \/ Ack(c)
  <2>1. \E state \in {"claim", "again", "join"} : EndMoves(c, state)
    BY <1>3 DEF WaitBound, WaitSetup, Ack, Handler, EndMoves, Held, server, child
  <2> QED BY <1>1, <2>1, EndHandler
<1>4. CASE WaitCloses(c) \/ WaitTimes(c)
  <2>1. EndMoves(c, "done")
    BY <1>4 DEF WaitCloses, WaitTimes, ServeReturns, Shut, Handler, EndMoves, Held, server, child
  <2> QED BY <1>1, <2>1, EndHandler
<1>5. CASE Again(c) \/ Claim(c)
  <2>1. \E state \in {"claim", "offer", "done"} : EndMoves(c, state)
    BY <1>5 DEF Again, Claim, ServeReturns, Shut, Handler, EndMoves, Held, child
  <2> QED BY <1>1, <2>1, EndHandler
<1>6. CASE AckFails(c) \/ AckTimes(c) \/ LiveEnds(c)
  BY <1>1, <1>2, <1>6, EndHandler DEF AckFails, AckTimes, LiveEnds
<1>7. CASE Offer(c) \/ Join(c) \/ Ready(c)
  <2>1. \E state \in {"ack", "ready", "live", "done"} : EndMoves(c, state)
    <3>1. CASE Retires(c)
      BY <1>2, <1>7, <3>1 DEF Offer, Join, Ready
    <3>2. CASE ~Retires(c)
      BY <1>7, <3>2 DEF Offer, Join, Ready, Writes, Handler, EndMoves, Held, server, child
    <3> QED BY <3>1, <3>2
  <2> QED BY <1>1, <2>1, EndHandler
<1> QED BY <1>3, <1>4, <1>5, <1>6, <1>7

LEMMA EndChild ==
    ASSUME SocketInv, EndTrue, NEW c \in Children,
           \/ Launch(c) \/ GetsOffer(c) \/ GetsReady(c) \/ AttachFails(c) \/ AttachTimes(c) \/ AttachmentLost(c)
           \/ InputEnds(c) \/ ChildExits(c) \/ ChildDies(c)
    PROVE  EndTrue'
<1>0. /\ place \in [Children -> ChildPlaces] /\ srv \in [Conns -> Ends] /\ c \in Conns
      /\ Children \subseteq Conns /\ Requests \subseteq Conns /\ c \notin Requests
  BY RelaySocketAssumption DEF SocketInv, SocketTypes, Conns
<1>1. CASE Exits(c)
  <2>1. /\ UNCHANGED <<broker, peer, h, srv>> /\ place' = [place EXCEPT ![c] = "gone"]
        /\ cli' = [k \in Conns |-> IF k \in {c} \cup Jobs(c) /\ cli[k] # "none" THEN "closed" ELSE cli[k]]
        /\ job' = [x \in Requests |-> IF x \in Jobs(c) THEN "done" ELSE job[x]]
    BY <1>1 DEF Exits, Step, server
  <2>2. cli' \in [Conns -> {"none", "open", "closed"}]
    BY <2>1 DEF EndTrue
  <2>3. \A k \in Conns : (cli'[k] = "none" <=> cli[k] = "none") /\ (cli'[k] = "open" => cli[k] = "open")
    BY <2>1 DEF EndTrue
  <2>4. cli'[c] # "open"
    BY <1>0, <2>1 DEF EndTrue
  <2>5. \A x \in Requests : job'[x] # "done" => job[x] = job'[x]
    BY <2>1
  <2>6. \A e \in Children : place'[e] = IF e = c THEN "gone" ELSE place[e]
    BY <1>0, <2>1
  <2> QED BY <1>0, <2>1, <2>2, <2>3, <2>4, <2>5, <2>6 DEF EndTrue
<1>2. CASE ~Exits(c) /\ Launch(c)
  <2>1. /\ UNCHANGED <<broker, peer, h, job>> /\ place[c] = "none" /\ place' = [place EXCEPT ![c] = "attach"]
        /\ cli' = [cli EXCEPT ![c] = "open"] /\ srv' = [srv EXCEPT ![c] = "backlog"]
    BY <1>2 DEF Launch, Dials, Step, server
  <2>2. h[c] = "none"
    BY <1>0, <2>1 DEF EndTrue
  <2>3. cli' \in [Conns -> {"none", "open", "closed"}]
    BY <1>0, <2>1 DEF EndTrue
  <2>4. \A k \in Conns : /\ srv'[k] = "none" <=> cli'[k] = "none"
                         /\ h'[k] # "none" => srv'[k] \in {"open", "closed"}
    BY <1>0, <2>1, <2>2 DEF EndTrue
  <2>5. \A x \in Requests : srv'[x] = srv[x]
    BY <1>0, <2>1
  <2>6. \A e \in Children : /\ place'[e] = IF e = c THEN "attach" ELSE place[e]
                            /\ srv'[e] = IF e = c THEN "backlog" ELSE srv[e]
                            /\ cli'[e] = IF e = c THEN "open" ELSE cli[e]
    BY <1>0, <2>1 DEF EndTrue
  <2> QED BY <2>1, <2>3, <2>4, <2>5, <2>6 DEF EndTrue
<1>3. CASE GetsOffer(c) \/ GetsReady(c) \/ AttachmentLost(c) \/ InputEnds(c)
  <2>1. /\ UNCHANGED <<broker, peer, h, job, srv>> /\ place[c] \notin {"none", "gone"}
        /\ \E to \in {"joined", "serving", "draining"} : place' = [place EXCEPT ![c] = to]
        /\ cli' = cli \/ cli' = [cli EXCEPT ![c] = "closed"]
    BY <1>3 DEF GetsOffer, GetsReady, AttachmentLost, InputEnds, Step, Shut, server
  <2>2. srv[c] # "none" /\ cli[c] # "none"
    BY <1>0, <2>1 DEF EndTrue
  <2>3. /\ cli' \in [Conns -> {"none", "open", "closed"}]
        /\ \A k \in Conns : (cli'[k] = "none" <=> cli[k] = "none") /\ (cli'[k] = "open" => cli[k] = "open")
    BY <1>0, <2>1, <2>2 DEF EndTrue
  <2>4. \A e \in Children : IF e = c THEN place'[e] \notin {"none", "gone"} ELSE place'[e] = place[e]
    BY <1>0, <2>1
  <2> QED BY <1>0, <2>1, <2>2, <2>3, <2>4 DEF EndTrue
<1> QED BY <1>1, <1>2, <1>3 DEF AttachFails, AttachTimes, ChildExits, ChildDies

LEMMA EndJob ==
    ASSUME SocketInv, EndTrue, NEW x \in Requests,
           Request(x) \/ JobDials(x) \/ JobReads(x) \/ JobCancelled(x) \/ JobFails(x) \/ JobWrites(x)
    PROVE  EndTrue'
<1>0. /\ srv \in [Conns -> Ends] /\ job \in [Requests -> JobPlaces] /\ x \in Conns /\ x \notin Children
      /\ Children \subseteq Conns /\ Requests \subseteq Conns
  BY RelaySocketAssumption DEF SocketInv, SocketTypes, Conns
<1>1. UNCHANGED <<broker, peer, h, place>>
  BY DEF Request, JobDials, JobReads, JobCancelled, JobFails, JobWrites, server
<1>2. CASE JobDials(x)
  <2>1. /\ cli' = [cli EXCEPT ![x] = "open"] /\ srv' = [srv EXCEPT ![x] = "backlog"]
        /\ job[x] = "dial" /\ job' = [job EXCEPT ![x] = "sent"]
    BY <1>2 DEF JobDials, Dials, JobStep
  <2>2. h[x] = "none"
    BY <1>0, <2>1 DEF EndTrue
  <2>3. cli' \in [Conns -> {"none", "open", "closed"}]
    BY <1>0, <2>1 DEF EndTrue
  <2>4. \A k \in Conns : /\ srv'[k] = "none" <=> cli'[k] = "none"
                         /\ h[k] # "none" => srv'[k] \in {"open", "closed"}
    BY <1>0, <2>1, <2>2 DEF EndTrue
  <2>5. \A y \in Requests : /\ job'[y] \in {"none", "dial"} => srv'[y] = "none"
                            /\ job'[y] = "sent" => srv'[y] # "none"
    BY <1>0, <2>1 DEF EndTrue
  <2>6. \A c \in Children : srv'[c] = srv[c] /\ cli'[c] = cli[c]
    BY <1>0, <2>1 DEF EndTrue
  <2> QED BY <1>1, <2>3, <2>4, <2>5, <2>6 DEF EndTrue
<1>3. CASE ~JobDials(x)
  <2>1. UNCHANGED srv
    BY <1>3 DEF Request, JobReads, JobCancelled, JobFails, JobWrites
  <2>2. \A y \in Requests : /\ job'[y] \in {"none", "dial"} => job[y] \in {"none", "dial"}
                            /\ job'[y] = "sent" => job[y] = "sent"
    BY <1>0, <1>3 DEF Request, JobReads, JobCancelled, JobFails, JobWrites, JobStep
  <2>3. /\ cli' \in [Conns -> {"none", "open", "closed"}]
        /\ \A k \in Conns : (cli'[k] = "none" <=> cli[k] = "none") /\ (cli'[k] = "open" => cli[k] = "open")
    <3>1. \/ cli' = cli
          \/ cli[x] # "none" /\ cli' = [cli EXCEPT ![x] = "closed"]
      <4>1. CASE JobReads(x)
        BY <1>0, <4>1 DEF JobReads, Shut, EndTrue
      <4>2. CASE JobCancelled(x) \/ JobFails(x)
        BY <1>0, <4>2 DEF JobCancelled, JobFails, EndTrue
      <4>3. CASE Request(x) \/ JobWrites(x)
        BY <4>3 DEF Request, JobWrites
      <4> QED BY <1>3, <4>1, <4>2, <4>3
    <3> QED BY <1>0, <3>1 DEF EndTrue
  <2> QED BY <1>0, <1>1, <2>1, <2>2, <2>3 DEF EndTrue
<1> QED BY <1>2, <1>3

LEMMA EndKeeps == SocketInv /\ EndTrue /\ [SocketNext]_socketVars => EndTrue'
<1> SUFFICES ASSUME SocketInv, EndTrue, [SocketNext]_socketVars PROVE EndTrue'
  OBVIOUS
<1>1. CASE OwnStep
  BY <1>1, EndOwner, EndConn, EndRequest, EndAttach, EndChild, EndJob DEF OwnStep
<1>2. CASE OtherStep
  BY <1>2, EndOwner, EndRequest, EndAttach, EndChild, EndJob DEF OtherStep
<1>3. CASE UNCHANGED socketVars
  BY <1>3 DEF socketVars, server, child, EndTrue
<1> QED BY <1>1, <1>2, <1>3 DEF SocketNext

LEMMA EndAlways == SocketSpec => []EndTrue
<1>1. SocketInv /\ EndTrue /\ [SocketNext]_socketVars => EndTrue'
  BY EndKeeps
<1> QED BY <1>1, EndInit, SocketAlways, PTL DEF SocketSpec

\* A handler of a socket that is closing has something to do.
LEMMA HandlerWorks ==
    ASSUME SocketInv, EndTrue, Closed, NEW k \in Serving
    PROVE  AtWork
<1>1. k \in Conns /\ h[k] \in Handlers /\ h[k] \notin {"none", "done"}
  BY DEF Serving, SocketInv, SocketTypes
<1>2. Lost(k)
  BY <1>1 DEF SocketInv, CloseTrue, EndTrue, Lost
<1> QED BY <1>1, <1>2 DEF AtWork, Handlers

\* So has a child of one, or one of its jobs.
LEMMA ChildWorks ==
    ASSUME SocketInv, EndTrue, Closed, NEW c \in Children, place[c] \notin {"none", "gone"}
    PROVE  AtWork
<1>1. c \in Conns /\ place[c] \in {"attach", "joined", "serving", "draining"}
  BY DEF SocketInv, SocketTypes, ChildPlaces, Conns
<1>2. srv[c] = "closed"
  BY <1>1 DEF EndTrue, SocketInv, CloseTrue
<1>3. CASE place[c] = "draining"
  <2>1. CASE \A x \in Jobs(c) : job[x] = "done"
    BY <1>3, <2>1 DEF AtWork
  <2>2. ASSUME NEW x \in Jobs(c), job[x] # "done" PROVE AtWork
    <3>1. x \in Requests /\ owner[x] = c /\ job[x] \in JobPlaces
      BY <2>2 DEF Jobs, SocketInv, SocketTypes
    <3>2. job[x] # "none"
      BY <3>1, RelaySocketAssumption DEF SocketInv, ReplyTrue
    <3> QED BY <1>3, <2>2, <3>1, <3>2 DEF AtWork, JobPlaces
  <2> QED BY <2>1, <2>2
<1> QED BY <1>1, <1>2, <1>3 DEF AtWork

\* So has the handler of an attached child that has gone, unless the broker is closed.
LEMMA PeerWorks ==
    ASSUME SocketInv, EndTrue, peer # None, place[peer] = "gone", broker # "closed"
    PROVE  AtWork
<1>1. peer \in Children /\ peer \in Conns /\ h[peer] \in Held
  BY DEF SocketInv, SocketTypes, EndTrue, Conns
<1>2. srv[peer] # "none" /\ cli[peer] \in {"none", "open", "closed"}
  BY <1>1 DEF EndTrue, Held
<1>3. Lost(peer)
  BY <1>1, <1>2 DEF EndTrue, Lost
<1> QED BY <1>1, <1>3 DEF AtWork, Held

\* Whatever ends a relay (its child, its broker or its setup), the goroutines of the socket and of
\* the child have something to do until Socket.Close has returned and every child has gone: in no
\* state do they wait for each other.
THEOREM SocketEnds == SocketSpec => [](AtWork \/ Ended)
<1>1. SocketInv /\ EndTrue => AtWork \/ Ended
  <2> SUFFICES ASSUME SocketInv, EndTrue, ~AtWork PROVE Ended
    OBVIOUS
  <2>1. closing = "removed" => \A c \in Children : place[c] \in {"none", "gone"}
    BY ChildWorks DEF Closed
  <2>2. ASSUME broker = "closed" \/ setup = "failed" \/ (peer # None /\ place[peer] = "gone")
        PROVE  closing = "removed"
    <3>1. closing # "no"
      BY <2>2, PeerWorks DEF AtWork
    <3>2. Closed /\ closing \in {"closed", "broker", "joined", "removed"}
      BY <3>1 DEF Closed, SocketInv, SocketTypes
    <3>3. ~accepting /\ closing # "closed"
      BY <3>2 DEF AtWork
    <3>4. closing # "broker"
      BY <3>2, <3>3, HandlerWorks DEF AtWork
    <3>5. closing # "joined"
      <4>1. CASE peer = None \/ place[peer] = "gone"
        BY <4>1 DEF AtWork
      <4>2. CASE peer # None /\ place[peer] # "gone"
        <5>1. peer \in Children /\ peer \in Conns
          BY <4>2 DEF SocketInv, SocketTypes, Conns
        <5>2. place[peer] # "none"
          BY <4>2, <5>1 DEF EndTrue, Held
        <5> QED BY <3>2, <4>2, <5>1, <5>2, ChildWorks
      <4> QED BY <4>1, <4>2
    <3> QED BY <3>2, <3>3, <3>4, <3>5
  <2> QED BY <2>1, <2>2 DEF Ended
<1> QED BY <1>1, SocketAlways, EndAlways, PTL
=============================================================================
