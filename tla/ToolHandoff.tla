----------------------------- MODULE ToolHandoff -----------------------------
(***************************************************************************)
(* What the relay promises the two parties it stands between: the Kiro     *)
(* process, whose tool calls block until they are answered, and the client *)
(* that executes the tools.                                                *)
(*                                                                         *)
(*   - blocked calls form one line, in the order they were accepted;       *)
(*   - the client is offered a prefix of the line, and nothing else until  *)
(*     it has answered all of that prefix together;                        *)
(*   - a call is answered once, by the client or by a revocation;          *)
(*   - a revocation answers every blocked call and ends the handoff.       *)
(***************************************************************************)
EXTENDS Integers, Sequences

CONSTANT Calls

VARIABLES line,    \* the blocked calls, oldest first
          offer,   \* how many calls at the head of the line the client holds
          answer,  \* what each call was told
          open     \* no revocation so far

vars == <<line, offer, answer, open>>

Revocations == {"cancelled", "timedout"}
Answers == {"none", "client"} \cup Revocations

Init == /\ line = <<>>
        /\ offer = 0
        /\ answer = [c \in Calls |-> "none"]
        /\ open = TRUE

\* Tell every call at positions 1..n of the line a, and take it off the line.
Tell(n, a) ==
    /\ answer' = [c \in Calls |->
                    IF \E i \in 1..n : line[i] = c THEN a ELSE answer[c]]
    /\ line' = SubSeq(line, n + 1, Len(line))

Accept(c) ==
    /\ open
    /\ answer[c] = "none"
    /\ \A i \in 1..Len(line) : line[i] # c
    /\ line' = Append(line, c)
    /\ UNCHANGED <<offer, answer, open>>

Offer(n) ==
    /\ open
    /\ offer = 0
    /\ offer' = n
    /\ UNCHANGED <<line, answer, open>>

Answer ==
    /\ open
    /\ offer > 0
    /\ Tell(offer, "client")
    /\ offer' = 0
    /\ UNCHANGED open

Revoke(a) ==
    /\ open
    /\ Tell(Len(line), a)
    /\ offer' = 0
    /\ open' = FALSE

Next ==
    \/ \E c \in Calls : Accept(c)
    \/ \E n \in 1..Len(line) : Offer(n)
    \/ Answer
    \/ \E a \in Revocations : Revoke(a)

Spec == Init /\ [][Next]_vars
=============================================================================
