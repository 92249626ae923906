----------------------------- MODULE AcpClient -----------------------------
(***************************************************************************)
(* The ACP client of internal/acp/client.go: JSON-RPC over the standard    *)
(* streams of one Kiro process.  Each caller has at most one request under *)
(* way; a reader correlates answers with the pending table and queues      *)
(* notifications; a writer empties a bounded queue; the first failure of   *)
(* any of them retires the client, which answers every pending request and *)
(* starts the cleanup of the process.                                      *)
(*                                                                         *)
(* The process is external: it may send any frame and stop at any moment,  *)
(* which its streams and the wait for it show.                             *)
(* A frame is chosen when it is read, which loses nothing because the      *)
(* stream is read in order and all that limits an answer, the set of       *)
(* requests written so far, only grows.  Only AcpRouter, which consumes    *)
(* the notifications, makes this a system.                                 *)
(***************************************************************************)
EXTENDS Integers, Sequences, FiniteSets

CONSTANTS Callers,      \* goroutines that call the client
          Sessions, NoSession,
          MaxPending, EventQueue, WriteQueue,
          MaxID,        \* 2^53 - 1, the largest request id
          MaxFrames     \* bound on the frames the process sends

ASSUME ClientAssumption ==
    /\ IsFiniteSet(Callers) /\ IsFiniteSet(Sessions) /\ NoSession \notin Sessions
    /\ {MaxPending, EventQueue, WriteQueue, MaxID} \subseteq Nat \ {0}
    /\ MaxFrames \in Nat

VARIABLES
    cpc,        \* each caller: "idle", "full", "waiting" or "expired"
    id,         \* the id of its latest request, 0 if none
    pending,    \* the callers in c.pending
    box,        \* the done channel of a request
    nextID, err,
    events,     \* the sessions of the queued notifications
    activity,
    writes,     \* the packets to write: an id, or 0 for everything else
    written,    \* the ids the process was sent
    frames,     \* how many frames were read
    notes,      \* how many notifications of each session were read
    mark,       \* the notes that came before the latest answer to each caller
    cleanup     \* "no", "running" or "done"

callVars   == <<cpc, id>>
retireVars == <<pending, box, err, activity, cleanup>>
ioVars     == <<nextID, events, writes, written, frames, notes, mark>>
clientVars == <<callVars, retireVars, ioVars>>

Empty == [kind |-> "none", session |-> NoSession, id |-> 0]
Failure == [kind |-> "error", session |-> NoSession, id |-> 0]

\* Start has succeeded: the process runs, the loops are started, initialize was answered.
ClientInit ==
    /\ cpc = [c \in Callers |-> "idle"] /\ id = [c \in Callers |-> 0]
    /\ pending = {} /\ box = [c \in Callers |-> Empty]
    /\ nextID = 1 /\ err = FALSE
    /\ events = <<>> /\ activity = FALSE
    /\ writes = <<>> /\ written = {}
    /\ frames = 0 /\ notes = [s \in Sessions |-> 0] /\ mark = [c \in Callers |-> notes]
    /\ cleanup = "no"

----------------------------------------------------------------------------
(* Retirement.                                                             *)

retireUnseen ==
    IF err THEN UNCHANGED retireVars
    ELSE /\ err' = TRUE /\ cleanup' = "running"
         /\ box' = [c \in Callers |-> IF c \in pending THEN Failure ELSE box[c]]
         /\ pending' = {}
         /\ UNCHANGED activity

\* The first failure answers all that is pending and starts the cleanup.
retire ==
    IF err THEN UNCHANGED retireVars
    ELSE /\ err' = TRUE /\ activity' = TRUE /\ cleanup' = "running"
         /\ box' = [c \in Callers |-> IF c \in pending THEN Failure ELSE box[c]]
         /\ pending' = {}

\* enqueueLocked has room for one more packet.
Fits == Len(writes) < WriteQueue

----------------------------------------------------------------------------
(* Call.                                                                   *)

Waiting(c) == cpc[c] \in {"waiting", "full"}

\* Call returns at once: retired, or too many requests are pending.
refused == err \/ Cardinality(pending) >= MaxPending

\* An id beyond MaxID, or a frame beyond FrameBytes, retires the client after c.mu was
\* given up; the id of a frame that is too large is used up.
CallFails(c, large) ==
    /\ cpc[c] = "idle" /\ ~refused
    /\ large \/ nextID > MaxID
    /\ cpc' = [cpc EXCEPT ![c] = "expired"]
    /\ nextID' = IF nextID > MaxID THEN nextID ELSE nextID + 1
    /\ UNCHANGED <<id, retireVars, events, writes, written,
                   frames, notes, mark>>

\* The request is registered and queued; if the queue is full the caller has to retire
\* the client before it waits for the answer that brings.
CallRegisters(c) ==
    /\ cpc[c] = "idle" /\ ~refused
    /\ nextID <= MaxID
    /\ id' = [id EXCEPT ![c] = nextID]
    /\ nextID' = nextID + 1
    /\ pending' = pending \cup {c}
    /\ box' = [box EXCEPT ![c] = Empty]
    /\ writes' = IF Fits THEN Append(writes, nextID) ELSE writes
    /\ cpc' = [cpc EXCEPT ![c] = IF Fits THEN "waiting" ELSE "full"]
    /\ UNCHANGED <<err, activity, cleanup, events, written,
                   frames, notes, mark>>

\* The queue was full: retire.
CallRetires(c) ==
    /\ cpc[c] = "full"
    /\ cpc' = [cpc EXCEPT ![c] = "waiting"]
    /\ retire
    /\ UNCHANGED <<id, ioVars>>

\* The answer is there.
Answered(c) == cpc[c] = "waiting" /\ box[c] # Empty
TakesAnswer(c) == Answered(c) /\ cpc' = [cpc EXCEPT ![c] = "idle"]

\* The context of the call ends, and the second look at the channel finds nothing.
CallExpires(c) ==
    /\ cpc[c] = "waiting" /\ box[c] = Empty
    /\ cpc' = [cpc EXCEPT ![c] = "expired"]
    /\ UNCHANGED <<id, retireVars, ioVars>>

\* Call gives up: it retires the client and returns an error, whatever came meanwhile.
GivesUp(c) ==
    /\ cpc[c] = "expired"
    /\ cpc' = [cpc EXCEPT ![c] = "idle"]
    /\ retire
    /\ UNCHANGED <<id, ioVars>>

----------------------------------------------------------------------------
(* The loops.                                                              *)

\* One more frame comes.  Once the client is retired any frame, and any write, ends its loop.
Reads == ~err /\ frames < MaxFrames /\ frames' = frames + 1
Fails == retire /\ UNCHANGED <<events, writes>>

\* receive: a notification about a session, or about none.
ReadNote(s) ==
    /\ Reads
    /\ notes' = IF s = NoSession THEN notes ELSE [notes EXCEPT ![s] = @ + 1]
    /\ IF Len(events) >= EventQueue
       THEN Fails
       ELSE /\ events' = Append(events, s)
            /\ activity' = TRUE
            /\ UNCHANGED <<pending, box, err, cleanup, writes>>
    /\ UNCHANGED <<callVars, nextID, written, mark>>

\* A mutant: an answer goes to whoever has a request pending.
correlatedAny(i) == pending

\* The caller an answer is for.
correlated(i) == {c \in pending : id[c] = i}

\* receive: the process answers request i with session s or an error; an answer that nothing
\* waits for is a protocol error.
ReadAnswer(i, kind, s) ==
    /\ Reads
    /\ IF correlated(i) = {}
       THEN Fails /\ UNCHANGED mark
       ELSE \E c \in correlated(i) :
              /\ pending' = pending \ {c}
              /\ box' = [box EXCEPT ![c] = [kind |-> kind, session |-> s, id |-> i]]
              /\ mark' = [mark EXCEPT ![c] = notes]
              /\ UNCHANGED <<err, activity, cleanup, events, writes>>
    /\ UNCHANGED <<callVars, nextID, written, notes>>

\* receive: a request of the process is rejected, which takes a place in the queue.
ReadAsk ==
    /\ Reads
    /\ IF ~Fits
       THEN Fails
       ELSE writes' = Append(writes, 0) /\ UNCHANGED <<retireVars, events>>
    /\ UNCHANGED <<callVars, nextID, written, notes, mark>>

\* A frame that is malformed, too large or an authentication error, or the end of the stream.
ReadFails ==
    /\ ~err
    /\ Fails
    /\ UNCHANGED <<callVars, nextID, written, frames, notes, mark>>

\* writeLoop: one packet, written or not.
WritePacket(fault) ==
    /\ ~err /\ writes # <<>>
    /\ writes' = Tail(writes)
    /\ IF fault
       THEN retire /\ UNCHANGED written
       ELSE /\ written' = written \cup ({Head(writes)} \ {0})
            /\ UNCHANGED <<retireVars>>
    /\ UNCHANGED <<callVars, nextID, events, frames, notes, mark>>

\* waitLoop and stderrLoop: the process has exited, or it complains about its login.
ProcessNoticed ==
    /\ ~err
    /\ retire
    /\ UNCHANGED <<callVars, ioVars>>

----------------------------------------------------------------------------
(* Cleanup.                                                                *)

\* Pending prompts are cancelled, standard input is closed and the process group awaited, signalled
\* and killed; then the loops are joined and the queues emptied.  Every wait has a time limit.
CleanupRuns ==
    /\ cleanup = "running"
    /\ cleanup' = "done"
    /\ writes' = <<>> /\ events' = <<>>
    /\ UNCHANGED <<callVars, pending, box, err, activity, nextID, written, frames, notes, mark>>

----------------------------------------------------------------------------

ReadStep ==
    \/ ReadAsk \/ ReadFails
    \/ \E s \in Sessions \cup {NoSession} : ReadNote(s)
    \/ \E i \in written : \/ \E s \in Sessions : ReadAnswer(i, "result", s)
                            \/ ReadAnswer(i, "error", NoSession)
WriteStep == \E fault \in BOOLEAN : WritePacket(fault)
=============================================================================
