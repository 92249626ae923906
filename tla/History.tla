------------------------------ MODULE History ------------------------------
(***************************************************************************)
(* The reconciliation of client histories, internal/history/history.go, in *)
(* the loop the session driver runs it in: plan a request against the      *)
(* committed snapshot, send a delta or the full history to the backend     *)
(* session, and commit the plan with the reply.                            *)
(*                                                                         *)
(* A node is a message: its role and the digest of its content, which is   *)
(* a member of Digests here.  A request is any sequence of nodes the       *)
(* client may send: an extension, a truncated or a rewritten history, or   *)
(* a retry.                                                                *)
(***************************************************************************)
EXTENDS Integers, Sequences, SequencesExt

CONSTANTS Nodes,        \* the messages that occur, [role, digest]
          MaxNodes,     \* history.MaxNodes
          MaxRequest    \* bound on the messages of a request

ASSUME NodesAssumption == \A n \in Nodes : n.role \in {"user", "assistant", "system"}
ASSUME LengthAssumption == MaxNodes \in Nat /\ MaxRequest \in 1..MaxNodes

VARIABLES snapshot,  \* d.snapshot: nodes and pairs
          backend,   \* what the backend session was sent and replied
          view       \* the last request with its reply: what the client knows

historyVars == <<snapshot, backend, view>>

Replies == {n \in Nodes : n.role = "assistant"}

\* LatestUserIndex + 1, or 0: trailing system messages are skipped.
LatestUser(r) ==
    LET others == {i \in 1..Len(r) : r[i].role # "system"}
    IN IF others = {} \/ r[Max(others)].role # "user" THEN 0 ELSE Max(others)

\* What Plan accepts at all.
Requests == {r \in SeqOf(Nodes, MaxRequest) : LatestUser(r) > 0}

\* pairs: each user message with the assistant message it answers, if any.
pairs(nodes) ==
    LET after[n \in 0..Len(nodes)] ==
          IF n = 0 THEN [previous |-> "", list |-> <<>>]
          ELSE LET acc == after[n - 1]
               IN CASE nodes[n].role = "assistant" -> [acc EXCEPT !.previous = nodes[n].digest]
                    [] nodes[n].role = "user" ->
                         [previous |-> "",
                          list |-> Append(acc.list, [assistant |-> acc.previous, user |-> nodes[n].digest])]
                    [] OTHER -> acc
    IN after[Len(nodes)].list

Snapshot(nodes) == [nodes |-> nodes, pairs |-> pairs(nodes)]
Empty == [nodes |-> <<>>, pairs |-> <<>>]

Valid(s) ==
    /\ Len(s.nodes) \in 2..MaxNodes
    /\ s.pairs # <<>>
    /\ Last(s.nodes).role = "assistant"
    /\ s.pairs = pairs(s.nodes)

----------------------------------------------------------------------------
(* Plan and Complete.                                                      *)

\* A mutant: the request is compared with the head of the snapshot.
MatchesHead(s, r, count) ==
    /\ SubSeq(s, 1, count) = SubSeq(r, 1, count)
    /\ \E i \in 1..count : r[i].role = "user"
    /\ \E i \in 1..count : r[i].role = "assistant"

\* The first count nodes of the request are the last ones of the snapshot, and an
\* assistant message alone proves nothing.
Matches(s, r, count) ==
    /\ SubSeq(s, Len(s) - count + 1, Len(s)) = SubSeq(r, 1, count)
    /\ \E i \in 1..count : r[i].role = "user"
    /\ \E i \in 1..count : r[i].role = "assistant"

\* A mutant: the loop counts up.
OverlapUp(s, r) ==
    LET top == IF Len(s) < Len(r) - 1 THEN Len(s) ELSE Len(r) - 1
        from[count \in 2..(top + 1)] ==
            IF count > top THEN -1
            ELSE IF Matches(s, r, count) THEN count ELSE from[count + 1]
    IN IF top < 2 THEN -1 ELSE from[2]

\* The loop over the overlaps, longest first.
Overlap(s, r) ==
    LET top == IF Len(s) < Len(r) - 1 THEN Len(s) ELSE Len(r) - 1
        from[count \in 1..top] ==
            IF count < 2 THEN -1
            ELSE IF Matches(s, r, count) THEN count ELSE from[count - 1]
    IN IF top < 2 THEN -1 ELSE from[top]

\* The nodes of a plan that extends the snapshot from start on.
Extended(s, r, start) == s \o SubSeq(r, start + 1, Len(r))

Plan(s, r) ==
    LET start == IF Len(r) > Len(s) /\ IsPrefix(s, r) THEN Len(s) ELSE Overlap(s, r)
    IN IF s = <<>> THEN [mode |-> "fresh", start |-> 0, nodes |-> r]
       ELSE IF Len(r) = Len(s) - 1 /\ r = Front(s)
            THEN [mode |-> "duplicate", start |-> 0, nodes |-> r]
       ELSE IF start < 0 \/ LatestUser(r) <= start \/ Len(s) + Len(r) - start >= MaxNodes
            THEN [mode |-> "diverged", start |-> 0, nodes |-> r]
       ELSE [mode |-> "extend", start |-> start, nodes |-> Extended(s, r, start)]

Completable(nodes) == Len(nodes) > 0 /\ Len(nodes) < MaxNodes

----------------------------------------------------------------------------
(* The driver's use of a plan.                                             *)

HistoryInit == snapshot = Empty /\ backend = <<>> /\ view = <<>>

\* A turn: the delta goes to the session that is reused, the full history to a fresh
\* one; a turn that cannot be committed is aborted with its session.
Turn(r, reply) ==
    LET plan == Plan(snapshot.nodes, r)
        sent == IF plan.mode = "extend" THEN backend \o SubSeq(r, plan.start + 1, Len(r)) ELSE r
    IN IF Completable(plan.nodes)
       THEN /\ snapshot' = Snapshot(Append(plan.nodes, reply))
            /\ backend' = Append(sent, reply)
            /\ view' = Append(r, reply)
       ELSE /\ snapshot' = Empty
            /\ backend' = <<>>
            /\ view' = <<>>

\* The session is lost or aborted.
Lose ==
    /\ snapshot' = Empty
    /\ backend' = <<>>
    /\ view' = <<>>

HistoryNext == Lose \/ \E r \in Requests, reply \in Replies : Turn(r, reply)

HistorySpec == HistoryInit /\ [][HistoryNext]_historyVars

----------------------------------------------------------------------------
(* Properties.                                                             *)

\* The snapshot is empty or one that the next Plan accepts, also at MaxNodes; it states what the
\* backend session was sent and replied, which ends with exactly the conversation the client knows: a
\* truncated history is continued, never another one.
ViewContinued ==
    /\ snapshot = Empty \/ Valid(snapshot)
    /\ backend = snapshot.nodes
    /\ IsSuffix(view, snapshot.nodes)

\* The overlaps of the request with the snapshot that prove continuity.
Proofs(s, r) ==
    {k \in 1..(Len(r) - 1) :
        /\ k <= Len(s)
        /\ IsSuffix(SubSeq(r, 1, k), s)
        /\ {"user", "assistant"} \subseteq {r[i].role : i \in 1..k}}

\* Plan extends exactly when the longest proven overlap leaves a new user message and
\* room for the reply, and then from that overlap on; its order of cases does not
\* matter.
PlanIsLongest ==
    \A r \in Requests :
        LET s == snapshot.nodes
            p == Plan(s, r)
            ks == Proofs(s, r)
            new == s # <<>> /\ r # Front(s) /\ ks # {} /\ Max(ks) < LatestUser(r)
                     /\ Len(s) + Len(r) - Max(ks) < MaxNodes
        IN IF new THEN p.mode = "extend" /\ p.start = Max(ks) ELSE p.mode # "extend"

=============================================================================
