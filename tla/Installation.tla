---------------------------- MODULE Installation ----------------------------
(***************************************************************************)
(* The per-user installation of internal/installation: a private manager   *)
(* directory with a marker, a lock, generations and two pointers, and the  *)
(* public link to the executable of the current generation.  Processes     *)
(* install, replace and uninstall it, or run the installed executable      *)
(* under a shared lease.  Each file system call is a step; a process may   *)
(* fail or be killed between any two of them, which releases its lock.     *)
(*                                                                         *)
(* The file system is external: names are looked up when a call is made,   *)
(* an open directory or lock keeps its inode, rename replaces atomically.  *)
(* Files changed by other programs and the loss of unsynced data are not   *)
(* modelled.                                                               *)
(***************************************************************************)
EXTENDS Integers, FiniteSets

CONSTANTS
    Installers, Runners,    \* processes
    Gens,                   \* the generations that may be made; each name is used once
    maxGenerations,         \* how many of them inspect accepts
    MaxManagers             \* bound: how often the manager directory is created

None == "none"
Procs == Installers \cup Runners

ASSUME InstallationAssumption ==
    /\ IsFiniteSet(Procs) /\ IsFiniteSet(Gens) /\ {maxGenerations, MaxManagers} \subseteq Nat
    /\ Installers \cap Runners = {} /\ None \notin Gens
    /\ maxGenerations >= 2      \* room for the current generation and its replacement

VARIABLES
    manager,    \* the inode of the manager directory, 0 if there is none
    made,       \* the manager directories made so far
    format, lockfile,   \* whether these files are in it
    dirs,       \* of each generation: "absent", "partial", "staged" or "generation"
    current, next,      \* the pointers
    public,     \* the link in the bin directory
    pc, kind,   \* where each process is, and what it does
    root,       \* the inode of the manager it has opened
    held,       \* the inode of the lock it holds, 0 if none
    created,    \* whether it has made the manager
    inv,        \* what inspect has found
    mine        \* the generation it makes or runs

files == <<manager, made, format, lockfile, dirs, current, next, public>>
vars == <<files, pc, kind, root, held, created, inv, mine>>

Nothing == [current |-> None, next |-> None, public |-> FALSE, gens |-> {}]

Init ==
    /\ manager = 0 /\ made = 0 /\ format = FALSE /\ lockfile = FALSE
    /\ dirs = [g \in Gens |-> "absent"] /\ current = None /\ next = None /\ public = FALSE
    /\ pc = [p \in Procs |-> "idle"] /\ kind = [p \in Procs |-> None]
    /\ root = [p \in Procs |-> 0] /\ held = [p \in Procs |-> 0]
    /\ created = [p \in Procs |-> FALSE] /\ inv = [p \in Procs |-> Nothing]
    /\ mine = [p \in Procs |-> None]

At(p, label) == pc[p] = label
Goto(p, label) == pc' = [pc EXCEPT ![p] = label]
Local == <<kind, root, held, created, inv, mine>>

\* The open directory is still the one the name refers to: its entries can be changed.
Here(p) == root[p] = manager

\* store.check: the directory and the lock are still the ones that were opened.
check(p) == Here(p) /\ lockfile

\* A process ends, in order or killed, and releases its lock.
Quits(p) ==
    /\ Goto(p, "idle")
    /\ kind' = [kind EXCEPT ![p] = None] /\ root' = [root EXCEPT ![p] = 0]
    /\ held' = [held EXCEPT ![p] = 0] /\ created' = [created EXCEPT ![p] = FALSE]
    /\ inv' = [inv EXCEPT ![p] = Nothing] /\ mine' = [mine EXCEPT ![p] = None]

Ends(p) == Quits(p) /\ UNCHANGED files

----------------------------------------------------------------------------
(* openStore.                                                              *)

Begin(p, k) ==
    /\ At(p, "idle") /\ Goto(p, "open")
    /\ kind' = [kind EXCEPT ![p] = k]
    /\ UNCHANGED <<files, root, held, created, inv, mine>>

\* The manager is missing: install makes it, if there is no public entry.
OpenMissing(p) ==
    /\ At(p, "open") /\ manager = 0
    /\ IF kind[p] \in {"install", "force"} /\ ~public
       THEN Goto(p, "mkdir") /\ UNCHANGED <<files, Local>>
       ELSE Ends(p)

MakeManager(p) ==
    /\ At(p, "mkdir")
    /\ IF manager # 0 THEN Ends(p)
       ELSE /\ made < MaxManagers
            /\ made' = made + 1 /\ manager' = made'
            /\ root' = [root EXCEPT ![p] = made'] /\ created' = [created EXCEPT ![p] = TRUE]
            /\ Goto(p, "bootlock")
            /\ UNCHANGED <<format, lockfile, dirs, current, next, public, kind, held, inv, mine>>

BootLock(p) ==
    /\ At(p, "bootlock") /\ Goto(p, "bootformat")
    /\ lockfile' = TRUE /\ held' = [held EXCEPT ![p] = root[p]]
    /\ UNCHANGED <<manager, made, format, dirs, current, next, public, kind, root, created, inv, mine>>

BootFormat(p) ==
    /\ At(p, "bootformat") /\ Goto(p, "check")
    /\ format' = TRUE
    /\ UNCHANGED <<manager, made, lockfile, dirs, current, next, public, Local>>

\* The manager exists: its marker has to be there, and then its lock, which is never made anew.
OpenManager(p) ==
    /\ At(p, "open") /\ manager # 0
    /\ Goto(p, "opened") /\ root' = [root EXCEPT ![p] = manager]
    /\ UNCHANGED <<files, kind, held, created, inv, mine>>

OpenLock(p) ==
    /\ At(p, "opened")
    /\ IF Here(p) /\ format /\ lockfile
       THEN Goto(p, "flock") /\ UNCHANGED <<files, Local>>
       ELSE Ends(p)

Shared(p) == kind[p] = "run"

Conflict(p) == \E q \in Procs \ {p} : held[q] = root[p] /\ ~(Shared(p) /\ Shared(q))

\* flock without waiting.
Flock(p) ==
    /\ At(p, "flock")
    /\ IF Conflict(p) THEN Ends(p)
       ELSE /\ Goto(p, "check") /\ held' = [held EXCEPT ![p] = root[p]]
            /\ UNCHANGED <<files, kind, root, created, inv, mine>>

OpenChecks(p) ==
    /\ At(p, "check")
    /\ IF check(p) THEN Goto(p, IF Shared(p) THEN "lease" ELSE "inspect") /\ UNCHANGED <<files, Local>>
       ELSE Ends(p)

----------------------------------------------------------------------------
(* install.                                                                *)

Retained == {g \in Gens : dirs[g] # "absent"}

\* verifyGeneration: the files are all there, as the manifest, written last, describes them.
verifyGeneration(g) == dirs[g] \in {"staged", "generation"}

\* inspect: every retained directory is complete, and the pointers lead to generations.
Intact ==
    /\ \A g \in Retained : verifyGeneration(g)
    /\ Cardinality(Retained) <= maxGenerations
    /\ {current, next} \subseteq {None} \cup {g \in Gens : dirs[g] = "generation"}
    /\ public => current # None

Inspect(p) ==
    /\ At(p, "inspect")
    /\ IF ~Intact THEN Ends(p)
       ELSE /\ inv' = [inv EXCEPT ![p] = [current |-> current, next |-> next, public |-> public,
                                          gens |-> Retained]]
            /\ Goto(p, IF kind[p] = "uninstall" THEN "unlink" ELSE "reclaim")
            /\ UNCHANGED <<files, kind, root, held, created, mine>>

\* Without --force an existing installation is left alone.
Exists(p) == At(p, "reclaim") /\ kind[p] = "install" /\ inv[p].public /\ Ends(p)

MayInstall(p) == kind[p] = "force" \/ ~inv[p].public

\* removeGeneration takes files away one by one, then the directory.
Remove(g) ==
    /\ g \in Retained
    /\ dirs' = [dirs EXCEPT ![g] = IF dirs[g] = "partial" THEN "absent" ELSE "partial"]

\* reclaim removes the temporary pointer first.
ReclaimNext(p) ==
    /\ At(p, "reclaim") /\ MayInstall(p) /\ check(p)
    /\ next # None /\ next' = None
    /\ UNCHANGED <<manager, made, format, lockfile, dirs, current, public, pc, Local>>

\* A mutant: the generations go before the pointer to one of them.
ReclaimEarly(p) ==
    /\ At(p, "reclaim") /\ MayInstall(p) /\ check(p)
    /\ \E g \in inv[p].gens \ {inv[p].current} : Remove(g)
    /\ UNCHANGED <<manager, made, format, lockfile, current, next, public, pc, Local>>

\* Then every generation that is not current.
Reclaim(p) ==
    /\ At(p, "reclaim") /\ MayInstall(p) /\ check(p) /\ next = None
    /\ \E g \in inv[p].gens \ {inv[p].current} : Remove(g)
    /\ UNCHANGED <<manager, made, format, lockfile, current, next, public, pc, Local>>

\* The directory of a new generation is made.  It counts as one only with its manifest.
Stage(p) ==
    /\ At(p, "reclaim") /\ MayInstall(p) /\ next = None
    /\ Retained \subseteq {inv[p].current}
    /\ \E g \in Gens : /\ dirs[g] = "absent" /\ \A q \in Procs : mine[q] # g
                       /\ dirs' = [dirs EXCEPT ![g] = "partial"]
                       /\ mine' = [mine EXCEPT ![p] = g]
    /\ Goto(p, "fill")
    /\ UNCHANGED <<manager, made, format, lockfile, current, next, public, kind, root, held, created, inv>>

\* The payload and then the manifest are written and verified.
Fill(p) ==
    /\ At(p, "fill") /\ Goto(p, "promote")
    /\ dirs' = [dirs EXCEPT ![mine[p]] = "staged"]
    /\ UNCHANGED <<manager, made, format, lockfile, current, next, public, Local>>

Promote(p) ==
    /\ At(p, "promote") /\ check(p) /\ Goto(p, "point")
    /\ dirs' = [dirs EXCEPT ![mine[p]] = "generation"]
    /\ UNCHANGED <<manager, made, format, lockfile, current, next, public, Local>>

samePublication(p) == check(p) /\ public = inv[p].public /\ current = inv[p].current

Point(p) ==
    /\ At(p, "point") /\ samePublication(p) /\ Goto(p, "publish")
    /\ next' = mine[p]
    /\ UNCHANGED <<manager, made, format, lockfile, dirs, current, public, Local>>

Publish(p) ==
    /\ At(p, "publish") /\ Goto(p, "link")
    /\ current' = mine[p] /\ next' = None
    /\ UNCHANGED <<manager, made, format, lockfile, dirs, public, Local>>

Link(p) ==
    /\ At(p, "link") /\ Goto(p, "clean")
    /\ public' = TRUE
    /\ UNCHANGED <<manager, made, format, lockfile, dirs, current, next, Local>>

\* A mutant: the old generation is removed before the new one is published.
CleanEarly(p) ==
    /\ pc[p] \in {"publish", "clean"} /\ check(p) /\ inv[p].current # None
    /\ Remove(inv[p].current)
    /\ UNCHANGED <<manager, made, format, lockfile, current, next, public, pc, Local>>

\* The old generation is removed, even when the caller has cancelled.
Clean(p) ==
    /\ At(p, "clean") /\ check(p) /\ inv[p].current # None
    /\ Remove(inv[p].current)
    /\ UNCHANGED <<manager, made, format, lockfile, current, next, public, pc, Local>>

InstallEnds(p) == At(p, "clean") /\ inv[p].current \notin Retained /\ Ends(p)

\* A failure or a cancellation before the publication: what was staged is removed.
Undo(p) ==
    /\ pc[p] \in {"fill", "promote", "point", "publish"}
    /\ Goto(p, "undo")
    /\ next' = IF next = mine[p] THEN None ELSE next
    /\ UNCHANGED <<manager, made, format, lockfile, dirs, current, public, Local>>

UndoStage(p) ==
    /\ At(p, "undo") /\ check(p)
    /\ Remove(mine[p])
    /\ UNCHANGED <<manager, made, format, lockfile, current, next, public, pc, Local>>

\* Then the manager, if this process has made it and nothing was published.
UndoEnds(p) ==
    /\ At(p, "undo") /\ mine[p] \notin Retained
    /\ IF created[p] /\ inv[p].current = None
       THEN Goto(p, "unformat") /\ UNCHANGED <<files, Local>>
       ELSE Ends(p)

\* The same before anything was staged.
Withdraw(p) ==
    /\ pc[p] \in {"inspect", "reclaim"} /\ kind[p] # "uninstall" /\ created[p]
    /\ Goto(p, "unformat") /\ UNCHANGED <<files, Local>>

----------------------------------------------------------------------------
(* Uninstall.                                                              *)

\* The public link goes first.
Unlink(p) ==
    /\ At(p, "unlink") /\ samePublication(p) /\ Goto(p, "unpoint")
    /\ public' = FALSE
    /\ UNCHANGED <<manager, made, format, lockfile, dirs, current, next, Local>>

\* Then the pointers, in any order, and the generations.
Unpoint(p) ==
    /\ At(p, "unpoint")
    /\ \/ current # None /\ current' = None /\ UNCHANGED next
       \/ next # None /\ next' = None /\ UNCHANGED current
    /\ UNCHANGED <<manager, made, format, lockfile, dirs, public, pc, Local>>

UninstallRemoves(p) ==
    /\ At(p, "unpoint") /\ current = None /\ next = None /\ check(p)
    /\ \E g \in inv[p].gens : Remove(g)
    /\ UNCHANGED <<manager, made, format, lockfile, current, next, public, pc, Local>>

UninstallEmpty(p) ==
    /\ At(p, "unpoint") /\ current = None /\ next = None /\ Retained = {}
    /\ Goto(p, "unformat")
    /\ UNCHANGED <<files, Local>>

\* removeManager: the marker, the lock and the directory, which has nothing else.
Unformat(p) ==
    /\ At(p, "unformat") /\ check(p) /\ Retained = {} /\ Goto(p, "unlock")
    /\ format' = FALSE
    /\ UNCHANGED <<manager, made, lockfile, dirs, current, next, public, Local>>

Unlock(p) ==
    /\ At(p, "unlock") /\ Goto(p, "rmdir")
    /\ lockfile' = FALSE
    /\ UNCHANGED <<manager, made, format, dirs, current, next, public, Local>>

Rmdir(p) ==
    /\ At(p, "rmdir") /\ Quits(p)
    /\ manager' = 0
    /\ UNCHANGED <<made, format, lockfile, dirs, current, next, public>>

----------------------------------------------------------------------------
(* Lease.                                                                  *)

\* The public link is followed to the executable.
Exec(r) ==
    /\ At(r, "idle") /\ public /\ Goto(r, "open")
    /\ kind' = [kind EXCEPT ![r] = "run"] /\ mine' = [mine EXCEPT ![r] = current]
    /\ UNCHANGED <<files, root, held, created, inv>>

\* The manifest is read and the executable has the size it states.
readManifest(g) == dirs[g] = "generation"

\* A mutant: the executable was looked up before the lock, and is not compared.
LeaseUnchecked(r) ==
    /\ At(r, "lease")
    /\ IF public /\ readManifest(mine[r]) THEN Goto(r, "leased") /\ UNCHANGED <<files, Local>>
       ELSE Ends(r)

Lease(r) ==
    /\ At(r, "lease")
    /\ IF current = mine[r] /\ public /\ readManifest(mine[r])
       THEN Goto(r, "leased") /\ UNCHANGED <<files, Local>>
       ELSE Ends(r)

----------------------------------------------------------------------------

\* A process fails or is killed wherever it is.
Dies(p) == ~At(p, "idle") /\ Ends(p)

Open(p) ==
    \/ OpenMissing(p) \/ MakeManager(p) \/ BootLock(p) \/ BootFormat(p) \/ OpenManager(p)
    \/ OpenLock(p) \/ Flock(p) \/ OpenChecks(p)

Install(p) ==
    \/ Inspect(p) \/ Exists(p) \/ ReclaimNext(p) \/ Reclaim(p) \/ Stage(p) \/ Fill(p) \/ Promote(p)
    \/ Point(p) \/ Publish(p) \/ Link(p) \/ Clean(p) \/ InstallEnds(p)
    \/ Undo(p) \/ UndoStage(p) \/ UndoEnds(p) \/ Withdraw(p)

Uninstall(p) ==
    \/ Unlink(p) \/ Unpoint(p) \/ UninstallRemoves(p) \/ UninstallEmpty(p)
    \/ Unformat(p) \/ Unlock(p) \/ Rmdir(p)

Next ==
    \/ \E p \in Installers : \/ \E k \in {"install", "force", "uninstall"} : Begin(p, k)
                             \/ Install(p) \/ Uninstall(p)
    \/ \E r \in Runners : Exec(r) \/ Lease(r)
    \/ \E p \in Procs : Open(p) \/ Dies(p)

Spec == Init /\ [][Next]_vars

----------------------------------------------------------------------------
(* Properties.                                                             *)

\* A process that holds a lease keeps the files it runs from, and starts its helpers from: its
\* generation is complete and current until it lets go, whoever installs or uninstalls meanwhile.
LeaseProtects ==
    \A r \in Runners : At(r, "leased") => dirs[mine[r]] = "generation" /\ current = mine[r] /\ public

\* Whenever the public link is there it leads to a complete executable: in the middle of a
\* replacement or a removal, and after a process has died anywhere in it.
PublicWorks == public => manager # 0 /\ current # None /\ dirs[current] = "generation"

\* Retrying recovers: when no process is at work, the manager is complete and no directory was left
\* half made or half removed, then the next installer accepts what it finds, of which there never is
\* too much.
Recoverable ==
    (/\ \A p \in Procs : At(p, "idle")
     /\ format /\ lockfile /\ \A g \in Gens : dirs[g] # "partial")
    => Intact

=============================================================================
