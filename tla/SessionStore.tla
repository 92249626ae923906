---------------------------- MODULE SessionStore ----------------------------
(***************************************************************************)
(* The records of idle sessions (internal/sessionstore over                *)
(* internal/privatefs) and how drivers of several proxy processes use them *)
(* (session/persistence.go and Driver.Start): a record lets a later driver *)
(* load the backend session and send only what is new.  It is removed, and *)
(* the removal made durable, before the session is touched again.          *)
(*                                                                         *)
(* A turn stands for a user message and its answer.  The backend's stored  *)
(* sessions are external and durable.  The directory is modelled twice, as *)
(* the processes see it and as the disk has it: without a sync, a power    *)
(* loss may or may not undo the last change.                               *)
(***************************************************************************)
EXTENDS Integers, Sequences, SequencesExt

CONSTANTS
    Procs,      \* proxy processes over one state directory
    Keys,       \* conversations, by the digest that names them
    Slots, SlotOf,  \* the cache slots, and the slot of each conversation
    None,
    MaxTurns, MaxKeys, MaxLosses    \* bounds: turns, history keys made, power losses

ASSUME SessionStoreAssumption ==
    /\ SlotOf \in [Keys -> Slots]
    /\ {MaxTurns, MaxKeys, MaxLosses} \subseteq Nat
    /\ None \notin Nat /\ None \notin Procs \X Keys

Drivers == Procs \X Keys
Slot(d) == SlotOf[d[2]]

VARIABLES
    key,        \* each process's history key, once it has one
    up,         \* of each process: "down", "keyed", "new", "written" or "up"
    keyfile, keydisk,   \* the history key in the directory and on the disk
    keys,       \* the history keys made so far
    view, disk, \* the record in each slot, as the processes and as the disk have it
    lock,       \* the driver whose lease holds the slot
    st,         \* what each driver does
    session,    \* the backend session of the driver's client, 0 if it has none
    snapshot,   \* the history the driver believes that session to have
    resume,     \* the record the driver loads the session from
    req,        \* the history of the request the driver works on
    conv,       \* each conversation, as its client has it
    backend,    \* what each backend session has been told
    turns, losses

own == <<st, session, snapshot, resume, req>>
boot == <<key, up, keyfile, keydisk, keys>>
world == <<conv, backend, turns>>
vars == <<boot, view, disk, lock, own, world, losses>>

Init ==
    /\ key = [p \in Procs |-> None] /\ up = [p \in Procs |-> "down"] /\ keyfile = None
    /\ keydisk = None /\ keys = 0
    /\ view = [s \in Slots |-> None] /\ disk = view /\ lock = view
    /\ st = [d \in Drivers |-> "none"] /\ session = [d \in Drivers |-> 0]
    /\ snapshot = [d \in Drivers |-> <<>>] /\ resume = [d \in Drivers |-> None]
    /\ req = [d \in Drivers |-> <<>>]
    /\ conv = [k \in Keys |-> <<>>] /\ backend = <<>> /\ turns = 0 /\ losses = 0

----------------------------------------------------------------------------
(* sessionstore.New, under key.lock.                                       *)

KeyLocked == \E p \in Procs : up[p] \in {"keyed", "new", "written"}

\* A mutant: the lock is not taken.
KeyLockNone(p) ==
    /\ up[p] = "down" /\ up' = [up EXCEPT ![p] = "keyed"]
    /\ UNCHANGED <<key, keyfile, keydisk, keys, view, disk, lock, own, world, losses>>

\* A process that does not get the lock does not start.
KeyLock(p) ==
    /\ up[p] = "down" /\ ~KeyLocked /\ up' = [up EXCEPT ![p] = "keyed"]
    /\ UNCHANGED <<key, keyfile, keydisk, keys, view, disk, lock, own, world, losses>>

KeyRead(p) ==
    /\ up[p] = "keyed" /\ keyfile # None
    /\ key' = [key EXCEPT ![p] = keyfile] /\ up' = [up EXCEPT ![p] = "up"]
    /\ UNCHANGED <<keyfile, keydisk, keys, view, disk, lock, own, world, losses>>

KeyNew(p) ==
    /\ up[p] = "keyed" /\ keyfile = None /\ keys < MaxKeys
    /\ keys' = keys + 1 /\ key' = [key EXCEPT ![p] = keys'] /\ up' = [up EXCEPT ![p] = "new"]
    /\ UNCHANGED <<keyfile, keydisk, view, disk, lock, own, world, losses>>

\* Dir.Write: a temporary file, renamed; the directory is synced before New returns.
KeyWrite(p) ==
    /\ up[p] = "new"
    /\ keyfile' = key[p] /\ up' = [up EXCEPT ![p] = "written"]
    /\ UNCHANGED <<key, keydisk, keys, view, disk, lock, own, world, losses>>

KeySync(p) ==
    /\ up[p] = "written" /\ up' = [up EXCEPT ![p] = "up"] /\ keydisk' = keyfile
    /\ UNCHANGED <<key, keyfile, keys, view, disk, lock, own, world, losses>>

----------------------------------------------------------------------------
(* A driver and its lease.                                                 *)

At(d, states) == st[d] \in states
Goto(d, state) == st' = [st EXCEPT ![d] = state]

\* Store.Claim, when the manager makes the driver: the slot's lock, or busy.
Claim(d) ==
    /\ At(d, {"none"}) /\ up[d[1]] = "up"
    /\ lock[Slot(d)] = None /\ lock' = [lock EXCEPT ![Slot(d)] = d]
    /\ Goto(d, "unstarted")
    /\ UNCHANGED <<boot, view, disk, session, snapshot, resume, req, world, losses>>

Extends(history, request) == history # <<>> /\ IsPrefix(history, request)

\* A mutant: the record of another conversation in the slot is taken.
ReadableAny(d, request) ==
    view[Slot(d)] # None /\ session[d] = 0

\* Lease.Read and resumeRecord: the record of this conversation, whose history the request extends.
Readable(d, request) ==
    /\ session[d] = 0 /\ view[Slot(d)] # None
    /\ view[Slot(d)].key = d[2] /\ Extends(view[Slot(d)].history, request)

\* Driver.Start.  The client continues its conversation, or an earlier point of it.  The record may
\* have expired or belong to another launch, and then is not used.
Start(d) ==
    /\ At(d, {"unstarted", "idle"}) /\ turns < MaxTurns /\ turns' = turns + 1
    /\ \E n \in 0..Len(conv[d[2]]) :
         LET request == Append(SubSeq(conv[d[2]], 1, n), turns')
         IN  /\ req' = [req EXCEPT ![d] = request]
             /\ \E r \in {None} \cup (IF Readable(d, request) THEN {view[Slot(d)]} ELSE {}) :
                    resume' = [resume EXCEPT ![d] = r]
    /\ Goto(d, "remove")
    /\ UNCHANGED <<boot, view, disk, lock, session, snapshot, conv, backend, losses>>

\* Lease.Invalidate: the record's name is removed,
InvalidateRemoves(d) ==
    /\ At(d, {"remove"}) /\ Goto(d, "sync")
    /\ view' = [view EXCEPT ![Slot(d)] = None]
    /\ UNCHANGED <<boot, disk, lock, session, snapshot, resume, req, world, losses>>

\* A mutant: the removal is not synced.
InvalidateUnsynced(d) ==
    /\ At(d, {"sync"}) /\ Goto(d, "prepare")
    /\ UNCHANGED <<boot, view, disk, lock, session, snapshot, resume, req, world, losses>>

\* and the directory synced.
InvalidateSyncs(d) ==
    /\ At(d, {"sync"}) /\ Goto(d, "prepare")
    /\ disk' = [disk EXCEPT ![Slot(d)] = view[Slot(d)]]
    /\ UNCHANGED <<boot, view, lock, session, snapshot, resume, req, world, losses>>

\* If either fails the request fails, with the session as it was.
InvalidateFails(d) ==
    /\ At(d, {"remove", "sync"})
    /\ Goto(d, IF session[d] = 0 THEN "unstarted" ELSE "idle")
    /\ resume' = [resume EXCEPT ![d] = None] /\ req' = [req EXCEPT ![d] = <<>>]
    /\ UNCHANGED <<boot, view, disk, lock, session, snapshot, world, losses>>

\* prepare with a record: session/load.
Loads(d) ==
    /\ At(d, {"prepare"}) /\ resume[d] # None
    /\ session' = [session EXCEPT ![d] = resume[d].session]
    /\ snapshot' = [snapshot EXCEPT ![d] = resume[d].history]
    /\ resume' = [resume EXCEPT ![d] = None] /\ Goto(d, "prepared")
    /\ UNCHANGED <<boot, view, disk, lock, req, world, losses>>

\* If that fails, prepare is called again without the record.
LoadFails(d) ==
    /\ At(d, {"prepare"}) /\ resume[d] # None
    /\ resume' = [resume EXCEPT ![d] = None]
    /\ UNCHANGED <<boot, view, disk, lock, st, session, snapshot, req, world, losses>>

Reuses(d) ==
    /\ At(d, {"prepare"}) /\ resume[d] = None
    /\ session[d] # 0 /\ Extends(snapshot[d], req[d]) /\ Goto(d, "prepared")
    /\ UNCHANGED <<boot, view, disk, lock, session, snapshot, resume, req, world, losses>>

\* session/new: always when nothing is extended, and when the process or the tools have changed.
Creates(d) ==
    /\ At(d, {"prepare"}) /\ resume[d] = None
    /\ backend' = Append(backend, <<>>) /\ session' = [session EXCEPT ![d] = Len(backend')]
    /\ snapshot' = [snapshot EXCEPT ![d] = <<>>] /\ Goto(d, "prepared")
    /\ UNCHANGED <<boot, view, disk, lock, resume, req, conv, turns, losses>>

Drops(d, state) ==
    /\ session' = [session EXCEPT ![d] = 0] /\ snapshot' = [snapshot EXCEPT ![d] = <<>>]
    /\ resume' = [resume EXCEPT ![d] = None] /\ req' = [req EXCEPT ![d] = <<>>]
    /\ Goto(d, state)

\* discardStart and failedStart.
StartFails(d) ==
    /\ At(d, {"prepare", "prepared"}) /\ Drops(d, "unstarted")
    /\ UNCHANGED <<boot, view, disk, lock, world, losses>>

\* session/prompt with what the session does not have.
Prompts(d) ==
    /\ At(d, {"prepared"}) /\ Goto(d, "prompting")
    /\ backend' = [backend EXCEPT ![session[d]] =
                       @ \o SubSeq(req[d], Len(snapshot[d]) + 1, Len(req[d]))]
    /\ UNCHANGED <<boot, view, disk, lock, session, snapshot, resume, req, conv, turns, losses>>

\* turn.complete, when the client has the whole answer.
Completes(d) ==
    /\ At(d, {"prompting"}) /\ Goto(d, "save")
    /\ conv' = [conv EXCEPT ![d[2]] = req[d]]
    /\ snapshot' = [snapshot EXCEPT ![d] = req[d]] /\ req' = [req EXCEPT ![d] = <<>>]
    /\ UNCHANGED <<boot, view, disk, lock, session, resume, backend, turns, losses>>

\* turn.abort.  The client may or may not have the answer.
Aborts(d) ==
    /\ At(d, {"prompting"}) /\ Drops(d, "unstarted")
    /\ conv' \in {conv, [conv EXCEPT ![d[2]] = req[d]]}
    /\ UNCHANGED <<boot, view, disk, lock, backend, turns, losses>>

\* persistIdle, Lease.Save: a synced temporary file is renamed to the record,
SaveRenames(d) ==
    /\ At(d, {"save"}) /\ Goto(d, "saved")
    /\ view' = [view EXCEPT ![Slot(d)] =
                    [key |-> d[2], session |-> session[d], history |-> snapshot[d]]]
    /\ UNCHANGED <<boot, disk, lock, session, snapshot, resume, req, world, losses>>

\* and the directory synced.
SaveSyncs(d) ==
    /\ At(d, {"saved"}) /\ Goto(d, "idle")
    /\ disk' = [disk EXCEPT ![Slot(d)] = view[Slot(d)]]
    /\ UNCHANGED <<boot, view, lock, session, snapshot, resume, req, world, losses>>

\* A failure is noted, and the session goes on without a record or with an unsynced one.
SaveFails(d) ==
    /\ At(d, {"save", "saved"}) /\ Goto(d, "idle")
    /\ UNCHANGED <<boot, view, disk, lock, session, snapshot, resume, req, world, losses>>

\* watchIdleProcess: the backend process ends while the driver is idle.
BackendEnds(d) ==
    /\ At(d, {"idle"}) /\ Drops(d, "unstarted")
    /\ UNCHANGED <<boot, view, disk, lock, world, losses>>

\* Close and CloseIdle: the client first,
ClosesClient(d) ==
    /\ At(d, {"unstarted", "idle"}) /\ Drops(d, "closing")
    /\ UNCHANGED <<boot, view, disk, lock, world, losses>>

\* Lease.Close.
Closes(d) ==
    /\ At(d, {"closing"}) /\ Drops(d, "none")
    /\ lock' = [lock EXCEPT ![Slot(d)] = IF @ = d THEN None ELSE @]
    /\ UNCHANGED <<boot, view, disk, world, losses>>

----------------------------------------------------------------------------
(* Faults.                                                                 *)

\* Every driver of these processes is gone, and the kernel has released their locks.
Gone(ps) ==
    LET gone == {d \in Drivers : d[1] \in ps}
    IN  /\ st' = [d \in Drivers |-> IF d \in gone THEN "none" ELSE st[d]]
        /\ session' = [d \in Drivers |-> IF d \in gone THEN 0 ELSE session[d]]
        /\ snapshot' = [d \in Drivers |-> IF d \in gone THEN <<>> ELSE snapshot[d]]
        /\ resume' = [d \in Drivers |-> IF d \in gone THEN None ELSE resume[d]]
        /\ req' = [d \in Drivers |-> IF d \in gone THEN <<>> ELSE req[d]]
        /\ lock' = [s \in Slots |-> IF lock[s] \in gone THEN None ELSE lock[s]]
        /\ up' = [p \in Procs |-> IF p \in ps THEN "down" ELSE up[p]]
        /\ key' = [p \in Procs |-> IF p \in ps THEN None ELSE key[p]]

Crash(p) ==
    /\ up[p] # "down" /\ Gone({p})
    /\ UNCHANGED <<keyfile, keydisk, keys, view, disk, world, losses>>

\* Of each slot the last change is kept or undone.
PowerLoss ==
    /\ losses < MaxLosses /\ losses' = losses + 1 /\ Gone(Procs)
    /\ \E undone \in SUBSET Slots :
           view' = [s \in Slots |-> IF s \in undone THEN disk[s] ELSE view[s]]
    /\ disk' = view'
    /\ keyfile' \in {keyfile, keydisk} /\ keydisk' = keyfile'
    /\ UNCHANGED <<keys, world>>

----------------------------------------------------------------------------

Boot(p) == KeyLock(p) \/ KeyRead(p) \/ KeyNew(p) \/ KeyWrite(p) \/ KeySync(p)

Works(d) ==
    \/ Claim(d) \/ Start(d) \/ InvalidateRemoves(d) \/ InvalidateSyncs(d) \/ InvalidateFails(d)
    \/ Loads(d) \/ LoadFails(d) \/ Reuses(d) \/ Creates(d) \/ StartFails(d) \/ Prompts(d)
    \/ Completes(d) \/ Aborts(d) \/ SaveRenames(d) \/ SaveSyncs(d) \/ SaveFails(d)
    \/ BackendEnds(d) \/ ClosesClient(d) \/ Closes(d)

Next ==
    \/ \E p \in Procs : Boot(p) \/ Crash(p)
    \/ \E d \in Drivers : Works(d)
    \/ PowerLoss

Spec == Init /\ [][Next]_vars

----------------------------------------------------------------------------
(* Properties.                                                             *)

\* A record never pretends an old history: whatever crashed and whichever change the disk has lost,
\* a record in the directory or on the disk states exactly what its backend session has been told.
RecordTrue ==
    \A s \in Slots : \A r \in {view[s], disk[s]} \ {None} : backend[r.session] = r.history

\* The backend answers the conversation the client has: when a prompt is under way its session has
\* been told the request's history and nothing else, whether it was made, kept or loaded.
ContextExact ==
    \A d \in Drivers : At(d, {"prompting"}) => backend[session[d]] = req[d]

\* All processes hash histories with the key in the directory, also when they start together, one
\* of them dies while it makes the key, or the power fails.
OneKey == \A p \in Procs : up[p] = "up" => key[p] = keyfile
=============================================================================
