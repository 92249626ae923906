------------------------- MODULE InstallationProofs -------------------------
(***************************************************************************)
(* The lock of the installation protects what is run from it, for any      *)
(* number of installers, runners and generations.  The argument has three  *)
(* layers: who may hold the lock of the manager that the name refers to    *)
(* (LockInv), what the one process at work knows of the files (DataInv),   *)
(* and what is left behind wherever it dies (RestInv).                     *)
(***************************************************************************)
EXTENDS Installation, FiniteSetTheorems, TLAPS

\* Where a process may change the installation, and where it runs from it.
Working == {"inspect", "reclaim", "fill", "promote", "point", "publish", "link", "clean",
            "undo", "unlink", "unpoint", "unformat", "unlock", "rmdir"}
Running == {"lease", "leased"}
Opening == {"idle", "open", "mkdir", "bootlock", "opened", "flock"}
Places  == Working \cup Running \cup Opening \cup {"bootformat", "check"}

----------------------------------------------------------------------------
(* The lock.                                                               *)

LockTypes ==
    /\ manager \in Nat /\ made \in Nat
    /\ pc \in [Procs -> Places]
    /\ kind \in [Procs -> {None, "install", "force", "uninstall", "run"}]
    /\ root \in [Procs -> Nat] /\ held \in [Procs -> Nat]

\* Directories are told apart by an inode that is never used again.
Inodes == manager <= made /\ \A p \in Procs : root[p] <= made

\* The lock a process holds is that of the directory it has opened, and it is
\* shared with processes that run only.
Exclusive ==
    /\ \A p \in Procs : held[p] # 0 => held[p] = root[p]
    /\ \A p, q \in Procs : p # q /\ held[p] # 0 /\ held[p] = held[q] => Shared(p) /\ Shared(q)

\* What the place of a process says of the directory and the lock.
Position(p) ==
    /\ pc[p] \in Opening => held[p] = 0
    /\ pc[p] = "mkdir" => ~Shared(p)
    /\ pc[p] = "bootlock" => /\ manager # 0 /\ root[p] = manager /\ ~Shared(p) /\ ~lockfile
                             /\ \A q \in Procs \ {p} : root[q] = manager => pc[q] = "opened"
    /\ pc[p] = "bootformat" => manager # 0 /\ held[p] = manager /\ ~Shared(p)
    /\ pc[p] \in {"opened", "flock"} => root[p] # 0
    /\ pc[p] = "check" => root[p] # 0 /\ held[p] = root[p]
    /\ pc[p] \in Working => manager # 0 /\ held[p] = manager /\ ~Shared(p)
    /\ pc[p] \in Running => manager # 0 /\ held[p] = manager /\ Shared(p)
    /\ manager = 0 \/ pc[p] = "rmdir" => ~lockfile

LockInv == LockTypes /\ Inodes /\ Exclusive /\ \A p \in Procs : Position(p)

LockDefs == <<manager, made, lockfile, kind, root, held>>

\* A process at work is alone: nobody else works, runs, or sets a manager up.
LEMMA Alone ==
    ASSUME LockInv, NEW p \in Procs, pc[p] \in Working, NEW q \in Procs, q # p
    PROVE  pc[q] \notin Working \cup Running \cup {"bootlock", "bootformat"}
<1>1. manager # 0 /\ held[p] = manager /\ ~Shared(p) /\ root[p] = manager
  BY DEF LockInv, Position, Exclusive
<1>2. held[q] # manager
  BY <1>1 DEF LockInv, Exclusive
<1>3. pc[p] # "opened"
  BY DEF Working
<1> QED BY <1>1, <1>2, <1>3 DEF LockInv, Position

\* A step of the process at work that stays at work and leaves the directory and
\* its lock alone.
LEMMA WorkKeeps ==
    ASSUME LockInv, NEW p \in Procs, NEW x \in Working \ {"rmdir"}, pc[p] \in Working,
           pc' = [pc EXCEPT ![p] = x] \/ pc' = pc,
           UNCHANGED LockDefs
    PROVE  LockInv'
<1>1. \A q \in Procs \ {p} : pc'[q] = pc[q]
  BY DEF LockInv, LockTypes
<1>2. pc' \in [Procs -> Places] /\ pc'[p] \in Working /\ (pc'[p] = "rmdir" => pc[p] = "rmdir")
  BY DEF LockInv, LockTypes, Places
<1>3. (LockTypes /\ Inodes /\ Exclusive)'
  BY <1>2 DEF LockInv, LockTypes, Inodes, Exclusive, LockDefs, Shared
<1>4. Position(p)'
  BY <1>2 DEF LockInv, Position, LockDefs, Shared, Working, Running, Opening
<1>5. ASSUME NEW q \in Procs, q # p PROVE Position(q)'
  <2>1. pc[q] # "bootlock"
    BY <1>5, Alone
  <2> QED BY <1>1, <1>5, <2>1 DEF LockInv, Position, LockDefs, Shared
<1> QED BY <1>3, <1>4, <1>5 DEF LockInv

\* The end of a process, in order or not.
LEMMA QuitKeeps ==
    ASSUME LockInv, NEW p \in Procs, Quits(p), UNCHANGED <<manager, made, lockfile>>
    PROVE  LockInv'
<1>1. /\ pc' = [pc EXCEPT ![p] = "idle"] /\ kind' = [kind EXCEPT ![p] = None]
      /\ root' = [root EXCEPT ![p] = 0] /\ held' = [held EXCEPT ![p] = 0]
  BY DEF Quits, Goto
<1>2. LockTypes' /\ Inodes'
  BY <1>1 DEF LockInv, LockTypes, Inodes, Places, Opening
<1>3. \A q \in Procs \ {p} : /\ pc'[q] = pc[q] /\ kind'[q] = kind[q]
                             /\ root'[q] = root[q] /\ held'[q] = held[q]
  BY <1>1 DEF LockInv, LockTypes
<1>4. pc'[p] = "idle" /\ root'[p] = 0 /\ held'[p] = 0 /\ kind'[p] = None
  BY <1>1 DEF LockInv, LockTypes
<1>5. Exclusive'
  BY <1>3, <1>4 DEF LockInv, Exclusive, Shared
<1>6. Position(p)'
  BY <1>4 DEF LockInv, Position, Shared, Working, Running, None
<1>7. \A q \in Procs \ {p} : Position(q)'
  BY <1>3, <1>4 DEF LockInv, Position, Shared
<1> QED BY <1>2, <1>5, <1>6, <1>7 DEF LockInv

\* Steps of openStore that only move on.
LEMMA OpenKeeps ==
    ASSUME LockInv, NEW p \in Procs, NEW x \in Places,
           pc' = [pc EXCEPT ![p] = x], UNCHANGED <<manager, made, lockfile>>,
           \/ /\ pc[p] \in {"idle", "open"} /\ x \in {"open", "mkdir"}
              /\ (x = "mkdir" => kind[p] \in {"install", "force"})
              /\ UNCHANGED <<root, held>>
              /\ \/ UNCHANGED kind
                 \/ /\ x = "open"
                    /\ kind' = [kind EXCEPT ![p] = kind'[p]]
                    /\ kind'[p] \in {"install", "force", "uninstall", "run"}
           \/ /\ pc[p] = "open" /\ x = "opened" /\ manager # 0
              /\ root' = [root EXCEPT ![p] = manager] /\ UNCHANGED <<kind, held>>
           \/ /\ pc[p] = "opened" /\ x = "flock" /\ lockfile
              /\ UNCHANGED <<kind, root, held>>
    PROVE  LockInv'
<1>1. pc'[p] = x /\ \A q \in Procs \ {p} : /\ pc'[q] = pc[q] /\ kind'[q] = kind[q]
                                           /\ held'[q] = held[q] /\ root'[q] = root[q]
  BY DEF LockInv, LockTypes
<1>2. held' = held /\ held[p] = 0
  BY DEF LockInv, Position, Opening
<1>3. LockTypes' /\ Inodes'
  BY DEF LockInv, LockTypes, Inodes
<1>4. Exclusive'
  BY <1>1, <1>2 DEF LockInv, LockTypes, Exclusive, Shared
<1>5. Position(p)'
  BY <1>1, <1>2 DEF LockInv, LockTypes, Position, Shared, Working, Running
<1>6. ASSUME NEW q \in Procs \ {p} PROVE Position(q)'
  <2>1. CASE pc[q] = "bootlock"
    BY <1>1, <2>1 DEF LockInv, LockTypes, Position, Shared, Working, Running
  <2>2. CASE pc[q] # "bootlock"
    BY <1>1, <2>2 DEF LockInv, Position, Shared
  <2> QED BY <2>1, <2>2
<1> QED BY <1>3, <1>4, <1>5, <1>6 DEF LockInv

\* A directory that is made has an inode nobody has opened.
LEMMA MakeKeeps ==
    ASSUME LockInv, NEW p \in Procs, MakeManager(p)
    PROVE  LockInv'
<1>1. CASE manager # 0
  BY <1>1, QuitKeeps DEF MakeManager, Ends, files
<1>2. CASE manager = 0
  <2>1. /\ pc[p] = "mkdir" /\ pc' = [pc EXCEPT ![p] = "bootlock"]
        /\ made' = made + 1 /\ manager' = made + 1 /\ root' = [root EXCEPT ![p] = made + 1]
        /\ UNCHANGED <<lockfile, kind, held>>
    BY <1>2 DEF MakeManager, At, Goto
  <2>2. /\ pc'[p] = "bootlock" /\ root'[p] = made + 1 /\ held[p] = 0 /\ ~Shared(p) /\ ~lockfile
        /\ \A q \in Procs \ {p} : pc'[q] = pc[q] /\ root'[q] = root[q]
    BY <1>2, <2>1 DEF LockInv, LockTypes, Position, Opening
  <2>3. LockTypes' /\ Inodes'
    BY <2>1 DEF LockInv, LockTypes, Inodes, Places, Opening
  <2>4. Exclusive'
    BY <2>1, <2>2 DEF LockInv, Exclusive, Shared
  <2>5. \A q \in Procs \ {p} : root'[q] # manager'
    BY <2>1, <2>2 DEF LockInv, LockTypes, Inodes
  <2>6. Position(p)'
    BY <2>1, <2>2, <2>3, <2>5 DEF LockTypes, Inodes, LockInv, Position, Shared, Working, Running
  <2>7. \A q \in Procs \ {p} : Position(q)'
    BY <1>2, <2>1, <2>2 DEF LockInv, Position, Shared
  <2> QED BY <2>3, <2>4, <2>6, <2>7 DEF LockInv
<1> QED BY <1>1, <1>2

\* The lock of a fresh directory is created by the process that made it, and the
\* processes that opened the directory meanwhile have not looked for the lock.
LEMMA BootLockKeeps ==
    ASSUME LockInv, NEW p \in Procs, BootLock(p)
    PROVE  LockInv'
<1>1. /\ pc[p] = "bootlock" /\ pc' = [pc EXCEPT ![p] = "bootformat"]
      /\ lockfile' /\ held' = [held EXCEPT ![p] = root[p]]
      /\ UNCHANGED <<manager, made, kind, root>>
  BY DEF BootLock, At, Goto
<1>2. /\ manager # 0 /\ root[p] = manager /\ ~Shared(p)
      /\ \A q \in Procs \ {p} : root[q] = manager => pc[q] = "opened"
  BY <1>1 DEF LockInv, Position
<1>3. /\ pc'[p] = "bootformat" /\ held'[p] = manager
      /\ \A q \in Procs \ {p} : pc'[q] = pc[q] /\ held'[q] = held[q]
  BY <1>1, <1>2 DEF LockInv, LockTypes
<1>4. LockTypes' /\ Inodes'
  BY <1>1, <1>2 DEF LockInv, LockTypes, Inodes, Places
<1>5. ASSUME NEW q \in Procs \ {p}
      PROVE  held[q] # manager /\ pc[q] # "bootlock" /\ pc[q] # "rmdir"
  BY <1>2, <1>5 DEF LockInv, Position, Exclusive, Opening, Working
<1>6. Exclusive'
  BY <1>1, <1>2, <1>3, <1>5 DEF LockInv, Exclusive, Shared
<1>7. Position(p)'
  BY <1>1, <1>2, <1>3 DEF Position, Shared, Working, Running, Opening
<1>8. \A q \in Procs \ {p} : Position(q)'
  BY <1>1, <1>2, <1>3, <1>5 DEF LockInv, Position, Shared
<1> QED BY <1>4, <1>6, <1>7, <1>8 DEF LockInv

\* flock succeeds only beside shared holders, and only a shared holder.
LEMMA FlockKeeps ==
    ASSUME LockInv, NEW p \in Procs, Flock(p)
    PROVE  LockInv'
<1>1. CASE Conflict(p)
  BY <1>1, QuitKeeps DEF Flock, Ends, files
<1>2. CASE ~Conflict(p)
  <2>1. /\ pc[p] = "flock" /\ pc' = [pc EXCEPT ![p] = "check"]
        /\ held' = [held EXCEPT ![p] = root[p]]
        /\ UNCHANGED <<manager, made, lockfile, kind, root>>
    BY <1>2 DEF Flock, At, Goto, files
  <2>2. /\ pc'[p] = "check" /\ held'[p] = root[p] /\ root[p] # 0
        /\ \A q \in Procs \ {p} : pc'[q] = pc[q] /\ held'[q] = held[q]
    BY <2>1 DEF LockInv, LockTypes, Position
  <2>3. LockTypes' /\ Inodes'
    BY <2>1 DEF LockInv, LockTypes, Inodes, Places
  <2>4. Exclusive'
    BY <1>2, <2>1, <2>2 DEF LockInv, Exclusive, Shared, Conflict
  <2>5. Position(p)'
    BY <2>1, <2>2 DEF LockInv, Position, Shared, Working, Running, Opening
  <2>6. ASSUME NEW q \in Procs \ {p} PROVE Position(q)'
    BY <2>1, <2>2, <2>6 DEF LockInv, Position, Shared
  <2> QED BY <2>3, <2>4, <2>5, <2>6 DEF LockInv
<1> QED BY <1>1, <1>2

\* The marker is written, and the directory is found to be the one that was opened.
LEMMA CheckKeeps ==
    ASSUME LockInv, NEW p \in Procs, BootFormat(p) \/ OpenChecks(p) \/ Lease(p)
    PROVE  LockInv'
<1>1. CASE /\ Quits(p) /\ UNCHANGED <<manager, made, lockfile>>
  BY <1>1, QuitKeeps
<1>2. CASE ~(Quits(p) /\ UNCHANGED <<manager, made, lockfile>>)
  <2>1. /\ UNCHANGED LockDefs
        /\ \/ pc[p] = "bootformat" /\ pc' = [pc EXCEPT ![p] = "check"]
           \/ /\ pc[p] = "check" /\ root[p] = manager
              /\ pc' = [pc EXCEPT ![p] = IF Shared(p) THEN "lease" ELSE "inspect"]
           \/ pc[p] = "lease" /\ pc' = [pc EXCEPT ![p] = "leased"]
    BY <1>2 DEF BootFormat, OpenChecks, Lease, check, Here, Ends, files, Local, At, Goto, LockDefs
  <2>2. /\ \A q \in Procs \ {p} : pc'[q] = pc[q]
        /\ pc'[p] \in {"check", "lease", "inspect", "leased"}
        /\ pc[p] = "bootformat" => pc'[p] = "check"
        /\ pc[p] = "check" => pc'[p] = IF Shared(p) THEN "lease" ELSE "inspect"
        /\ pc[p] = "lease" => pc'[p] = "leased"
    BY <2>1 DEF LockInv, LockTypes
  <2>3. (LockTypes /\ Inodes /\ Exclusive)'
    BY <2>1 DEF LockInv, LockTypes, Inodes, Exclusive, LockDefs, Shared, Places, Working, Running
  <2>4. Position(p)'
    BY <2>1, <2>2 DEF LockInv, Exclusive, Position, LockDefs, Shared, Working, Running, Opening
  <2>5. ASSUME NEW q \in Procs \ {p} PROVE Position(q)'
    <3>1. CASE pc[q] = "bootlock"
      <4>1. root[p] # manager
        BY <2>1, <3>1 DEF LockInv, Position
      <4> QED BY <2>1, <2>2, <3>1, <4>1 DEF LockInv, Position, LockDefs, Shared
    <3>2. CASE pc[q] # "bootlock"
      BY <2>1, <2>2, <3>2 DEF LockInv, Position, LockDefs, Shared
    <3> QED BY <3>1, <3>2
  <2> QED BY <2>3, <2>4, <2>5 DEF LockInv
<1> QED BY <1>1, <1>2

\* The lock and the directory are removed by the process at work.
LEMMA RemoveKeeps ==
    ASSUME LockInv, NEW p \in Procs, Unlock(p) \/ Rmdir(p)
    PROVE  LockInv'
<1>0. pc[p] \in Working
  BY DEF Unlock, Rmdir, At, Working
<1>1. CASE Unlock(p)
  <2>1. /\ pc[p] = "unlock" /\ pc' = [pc EXCEPT ![p] = "rmdir"] /\ ~lockfile'
        /\ UNCHANGED <<manager, made, kind, root, held>>
    BY <1>1 DEF Unlock, At, Goto, Local
  <2>2. pc'[p] = "rmdir" /\ \A q \in Procs \ {p} : pc'[q] = pc[q]
    BY <2>1 DEF LockInv, LockTypes
  <2>3. (LockTypes /\ Inodes /\ Exclusive)'
    BY <2>1 DEF LockInv, LockTypes, Inodes, Exclusive, Shared, Places, Working
  <2>4. Position(p)'
    BY <1>0, <2>1, <2>2 DEF LockInv, Position, Shared, Working, Running, Opening
  <2>5. ASSUME NEW q \in Procs \ {p} PROVE Position(q)'
    <3>1. pc[q] # "bootlock"
      BY <1>0, Alone
    <3> QED BY <2>1, <2>2, <3>1 DEF LockInv, Position, Shared
  <2> QED BY <2>3, <2>4, <2>5 DEF LockInv
<1>2. CASE Rmdir(p)
  <2>1. /\ pc' = [pc EXCEPT ![p] = "idle"] /\ kind' = [kind EXCEPT ![p] = None]
        /\ root' = [root EXCEPT ![p] = 0] /\ held' = [held EXCEPT ![p] = 0]
        /\ manager' = 0 /\ UNCHANGED <<made, lockfile>> /\ pc[p] = "rmdir"
    BY <1>2 DEF Rmdir, Quits, At, Goto
  <2>2. /\ pc'[p] = "idle" /\ root'[p] = 0 /\ held'[p] = 0 /\ kind'[p] = None
        /\ \A q \in Procs \ {p} : /\ pc'[q] = pc[q] /\ kind'[q] = kind[q]
                                  /\ root'[q] = root[q] /\ held'[q] = held[q]
    BY <2>1 DEF LockInv, LockTypes
  <2>3. LockTypes' /\ Inodes'
    BY <2>1 DEF LockInv, LockTypes, Inodes, Places, Opening
  <2>4. Exclusive'
    BY <2>2 DEF LockInv, Exclusive, Shared
  <2>5. ~lockfile'
    BY <2>1 DEF LockInv, Position
  <2>6. Position(p)'
    BY <2>2, <2>5 DEF Position, Shared, Working, Running, None
  <2>7. ASSUME NEW q \in Procs \ {p} PROVE Position(q)'
    <3>1. pc[q] \notin Working \cup Running \cup {"bootlock", "bootformat"}
      BY <1>0, Alone
    <3> QED BY <2>2, <2>5, <3>1 DEF LockInv, Position, Shared
  <2> QED BY <2>3, <2>4, <2>6, <2>7 DEF LockInv
<1> QED BY <1>1, <1>2

\* The lock layer in every step, by what the step does to the manager.
LEMMA LockNext ==
    ASSUME LockInv, [Next]_vars
    PROVE  LockInv'
<1>1. ASSUME NEW p \in Procs, Ends(p) PROVE LockInv'
  BY <1>1, QuitKeeps DEF Ends, files
<1>2. ASSUME NEW p \in Procs, Open(p) PROVE LockInv'
  <2>1. CASE OpenMissing(p)
    <3>1. CASE Ends(p)
      BY <1>1, <3>1
    <3>2. CASE ~Ends(p)
      <4>1. /\ pc[p] = "open" /\ pc' = [pc EXCEPT ![p] = "mkdir"]
            /\ kind[p] \in {"install", "force"}
            /\ UNCHANGED <<manager, made, lockfile, kind, root, held>>
        BY <2>1, <3>2 DEF OpenMissing, At, Goto, files, Local
      <4> QED BY <4>1, OpenKeeps DEF Places, Opening
    <3> QED BY <3>1, <3>2
  <2>2. CASE OpenManager(p)
    <3>1. /\ pc[p] = "open" /\ pc' = [pc EXCEPT ![p] = "opened"] /\ manager # 0
          /\ root' = [root EXCEPT ![p] = manager]
          /\ UNCHANGED <<manager, made, lockfile, kind, held>>
      BY <2>2 DEF OpenManager, At, Goto, files
    <3> QED BY <3>1, OpenKeeps DEF Places, Opening
  <2>3. CASE OpenLock(p)
    <3>1. CASE Ends(p)
      BY <1>1, <3>1
    <3>2. CASE ~Ends(p)
      <4>1. /\ pc[p] = "opened" /\ pc' = [pc EXCEPT ![p] = "flock"] /\ lockfile
            /\ UNCHANGED <<manager, made, lockfile, kind, root, held>>
        BY <2>3, <3>2 DEF OpenLock, At, Goto, files, Local
      <4> QED BY <4>1, OpenKeeps DEF Places, Opening
    <3> QED BY <3>1, <3>2
  <2> QED
    BY <1>2, <2>1, <2>2, <2>3, MakeKeeps, BootLockKeeps, FlockKeeps, CheckKeeps DEF Open
<1>3. ASSUME NEW p \in Installers, Install(p) PROVE LockInv'
  <2>1. CASE Ends(p)
    BY <1>1, <2>1 DEF Procs
  <2>2. CASE ~Ends(p)
    <3>1. /\ pc[p] \in Working /\ UNCHANGED LockDefs
          /\ \/ pc' = pc
             \/ \E x \in Working \ {"rmdir"} : pc' = [pc EXCEPT ![p] = x]
      <4>1. CASE \/ Inspect(p) \/ Exists(p) \/ ReclaimNext(p) \/ Reclaim(p) \/ Stage(p)
                 \/ Fill(p) \/ Promote(p) \/ Point(p)
        BY <2>2, <4>1 DEF Inspect, Exists, ReclaimNext, Reclaim, Stage, Fill, Promote, Point,
                          At, Goto, files, Local, LockDefs, Working
      <4>2. CASE Publish(p) \/ Link(p) \/ Clean(p) \/ InstallEnds(p)
        BY <2>2, <4>2 DEF Publish, Link, Clean, InstallEnds, At, Goto, files, Local, LockDefs,
                          Working
      <4>3. CASE Undo(p) \/ UndoStage(p) \/ UndoEnds(p) \/ Withdraw(p)
        BY <2>2, <4>3 DEF Undo, UndoStage, UndoEnds, Withdraw, At, Goto, files, Local, LockDefs,
                          Working
      <4> QED BY <1>3, <4>1, <4>2, <4>3 DEF Install
    <3> QED BY <3>1, WorkKeeps DEF Procs, Working
  <2> QED BY <2>1, <2>2
<1>4. ASSUME NEW p \in Installers, Uninstall(p) PROVE LockInv'
  <2>1. CASE Unlock(p) \/ Rmdir(p)
    BY <2>1, RemoveKeeps DEF Procs
  <2>2. CASE \/ Unlink(p) \/ Unpoint(p) \/ UninstallRemoves(p) \/ UninstallEmpty(p)
             \/ Unformat(p)
    <3>1. /\ pc[p] \in Working /\ UNCHANGED LockDefs
          /\ \/ pc' = pc
             \/ \E x \in Working \ {"rmdir"} : pc' = [pc EXCEPT ![p] = x]
      BY <2>2 DEF Unlink, Unpoint, UninstallRemoves, UninstallEmpty, Unformat, At, Goto, files,
                  Local, LockDefs, Working
    <3> QED BY <3>1, WorkKeeps DEF Procs, Working
  <2> QED BY <1>4, <2>1, <2>2 DEF Uninstall
<1>5. ASSUME NEW p \in Installers, NEW k \in {"install", "force", "uninstall"}, Begin(p, k)
      PROVE  LockInv'
  <2>1. /\ pc[p] = "idle" /\ pc' = [pc EXCEPT ![p] = "open"] /\ kind' = [kind EXCEPT ![p] = k]
        /\ UNCHANGED <<manager, made, lockfile, root, held>>
    BY <1>5 DEF Begin, At, Goto, files
  <2>2. kind'[p] = k
    BY <2>1 DEF LockInv, LockTypes, Procs
  <2> QED BY <2>1, <2>2, OpenKeeps DEF Places, Opening, Procs
<1>6. ASSUME NEW r \in Runners, Exec(r) PROVE LockInv'
  <2>1. /\ pc[r] = "idle" /\ pc' = [pc EXCEPT ![r] = "open"]
        /\ kind' = [kind EXCEPT ![r] = "run"]
        /\ UNCHANGED <<manager, made, lockfile, root, held>>
    BY <1>6 DEF Exec, At, Goto, files
  <2>2. kind'[r] = "run"
    BY <2>1 DEF LockInv, LockTypes, Procs
  <2> QED BY <2>1, <2>2, OpenKeeps DEF Places, Opening, Procs
<1>7. ASSUME NEW r \in Runners, Lease(r) PROVE LockInv'
  BY <1>7, CheckKeeps DEF Procs
<1>8. ASSUME NEW p \in Procs, Dies(p) PROVE LockInv'
  BY <1>1, <1>8 DEF Dies
<1>9. CASE UNCHANGED vars
  BY <1>9 DEF vars, files, LockInv, LockTypes, Inodes, Exclusive, Position, Shared
<1> QED BY <1>2, <1>3, <1>4, <1>5, <1>6, <1>7, <1>8, <1>9 DEF Next

----------------------------------------------------------------------------
(* The files.                                                              *)

Pointers == Gens \cup {None}

DataTypes ==
    /\ dirs \in [Gens -> {"absent", "partial", "staged", "generation"}]
    /\ current \in Pointers /\ next \in Pointers
    /\ inv = [p \in Procs |-> inv[p]]
    /\ mine \in [Procs -> Pointers]

Complete(g) == g \in Gens /\ dirs[g] = "generation"

\* What a process knows of the files where it is.
Knows(p) ==
    /\ pc[p] \in {"reclaim", "fill", "promote", "point", "publish"} =>
           inv[p].current = current /\ (current # None => Complete(current))
    /\ pc[p] \in {"fill", "promote", "point", "publish", "undo"} =>
           mine[p] \in Gens /\ mine[p] # current
    /\ pc[p] \in {"point", "publish"} => Complete(mine[p])
    /\ pc[p] \in {"link", "clean"} =>
           Complete(mine[p]) /\ current = mine[p] /\ inv[p].current # mine[p]
    /\ pc[p] \in {"unpoint", "unlock", "rmdir"} => ~public
    /\ pc[p] = "leased" => Complete(mine[p]) /\ current = mine[p] /\ public

DataInv == DataTypes /\ PublicWorks /\ \A p \in Procs : Knows(p)

\* A process that does not move keeps what it knows: only the one at work
\* changes the files.
LEMMA OthersKnow ==
    ASSUME LockInv, DataInv, NEW p \in Procs, NEW q \in Procs, q # p,
           pc'[q] = pc[q], inv'[q] = inv[q], mine'[q] = mine[q],
           UNCHANGED <<dirs, current, public>> \/ pc[p] \in Working
    PROVE  Knows(q)'
<1>1. CASE UNCHANGED <<dirs, current, public>>
  BY <1>1 DEF DataInv, Knows, Complete
<1>2. CASE pc[p] \in Working
  BY <1>2, Alone DEF Knows, Working, Running
<1> QED BY <1>1, <1>2

\* Steps outside the work on the files.
LEMMA IdleData ==
    ASSUME LockInv, DataInv, NEW p \in Procs,
           UNCHANGED <<dirs, current, next, public>>,
           UNCHANGED manager \/ manager = 0,
           pc' = [pc EXCEPT ![p] = pc'[p]],
           pc'[p] \in {"idle", "open", "mkdir", "bootlock", "bootformat", "opened", "flock",
                      "check", "lease", "inspect"},
           inv' = inv \/ inv' = [inv EXCEPT ![p] = inv'[p]],
           mine' = mine \/ (mine' = [mine EXCEPT ![p] = mine'[p]] /\ mine'[p] \in Pointers)
    PROVE  DataInv'
<1>1. DataTypes'
  BY DEF DataInv, DataTypes
<1>2. PublicWorks'
  BY DEF DataInv, PublicWorks
<1>3. Knows(p)'
  BY DEF Knows
<1>4. ASSUME NEW q \in Procs \ {p} PROVE Knows(q)'
  <2>1. pc'[q] = pc[q] /\ inv'[q] = inv[q] /\ mine'[q] = mine[q]
    BY <1>4 DEF LockInv, LockTypes, DataInv, DataTypes
  <2> QED BY <2>1, OthersKnow
<1> QED BY <1>1, <1>2, <1>3, <1>4 DEF DataInv

LEMMA EndsData ==
    ASSUME LockInv, DataInv, NEW p \in Procs, Ends(p)
    PROVE  DataInv'
<1>1. /\ UNCHANGED <<manager, dirs, current, next, public>>
      /\ pc' = [pc EXCEPT ![p] = "idle"] /\ inv' = [inv EXCEPT ![p] = Nothing]
      /\ mine' = [mine EXCEPT ![p] = None]
  BY DEF Ends, Quits, Goto, files
<1>2. pc'[p] = "idle" /\ inv'[p] = Nothing /\ mine'[p] = None
  BY <1>1 DEF LockInv, LockTypes, DataInv, DataTypes
<1> QED BY <1>1, <1>2, IdleData DEF Pointers

LEMMA OpenData ==
    ASSUME LockInv, DataInv, NEW p \in Procs, Open(p)
    PROVE  DataInv'
<1>1. CASE Ends(p)
  BY <1>1, EndsData
<1>2. CASE ~Ends(p)
  <2>1. /\ UNCHANGED <<dirs, current, next, public, inv, mine>>
        /\ UNCHANGED manager \/ manager = 0
        /\ \E x \in {"mkdir", "bootlock", "bootformat", "opened", "flock", "check", "lease",
                    "inspect"} : pc' = [pc EXCEPT ![p] = x]
    <3>1. CASE OpenMissing(p) \/ MakeManager(p) \/ BootLock(p) \/ BootFormat(p)
      BY <1>2, <3>1 DEF OpenMissing, MakeManager, BootLock, BootFormat, At, Goto, files, Local
    <3>2. CASE OpenManager(p) \/ OpenLock(p) \/ Flock(p) \/ OpenChecks(p)
      BY <1>2, <3>2 DEF OpenManager, OpenLock, Flock, OpenChecks, At, Goto, files, Local
    <3> QED BY <3>1, <3>2 DEF Open
  <2>2. /\ pc' = [pc EXCEPT ![p] = pc'[p]]
        /\ pc'[p] \in {"mkdir", "bootlock", "bootformat", "opened", "flock", "check", "lease",
                      "inspect"}
    BY <2>1 DEF LockInv, LockTypes
  <2> QED BY <2>1, <2>2, IdleData
<1> QED BY <1>1, <1>2

\* The lease compares the executable with the pointer, under the shared lock.
LEMMA LeaseData ==
    ASSUME LockInv, DataInv, NEW r \in Procs, Lease(r)
    PROVE  DataInv'
<1>1. CASE Ends(r)
  BY <1>1, EndsData
<1>2. CASE ~Ends(r)
  <2>1. /\ pc' = [pc EXCEPT ![r] = "leased"]
        /\ current = mine[r] /\ public /\ dirs[mine[r]] = "generation"
        /\ UNCHANGED <<manager, dirs, current, next, public, inv, mine>>
    BY <1>2 DEF Lease, readManifest, At, Goto, files, Local
  <2>2. mine[r] \in Gens
    BY <2>1 DEF DataInv, PublicWorks, DataTypes, Pointers
  <2>3. pc'[r] = "leased" /\ \A q \in Procs \ {r} : pc'[q] = pc[q]
    BY <2>1 DEF LockInv, LockTypes
  <2>4. DataTypes' /\ PublicWorks'
    BY <2>1 DEF DataInv, DataTypes, PublicWorks
  <2>5. Knows(r)'
    BY <2>1, <2>2, <2>3 DEF Knows, Complete
  <2>6. ASSUME NEW q \in Procs \ {r} PROVE Knows(q)'
    BY <2>1, <2>3, OthersKnow
  <2> QED BY <2>4, <2>5, <2>6 DEF DataInv
<1> QED BY <1>1, <1>2

----------------------------------------------------------------------------
(* The process at work.                                                    *)

\* What a step at work has to show: the rest follows, because nobody else is.
LEMMA WorkData ==
    ASSUME LockInv, DataInv, NEW p \in Procs, pc[p] \in Working, DataTypes', PublicWorks',
           Knows(p)',
           \A q \in Procs \ {p} : pc'[q] = pc[q] /\ inv'[q] = inv[q] /\ mine'[q] = mine[q]
    PROVE  DataInv'
<1>1. ASSUME NEW q \in Procs \ {p} PROVE Knows(q)'
  BY OthersKnow
<1> QED BY <1>1 DEF DataInv

\* Removing a directory that is not current disturbs nothing that is published.
LEMMA RemoveData ==
    ASSUME LockInv, DataInv, NEW p \in Procs, pc[p] \in Working, NEW g, Remove(g),
           UNCHANGED <<manager, current, next, public, pc, inv, mine>>,
           \/ pc[p] = "unpoint"
           \/ pc[p] = "reclaim" /\ g # current
           \/ pc[p] = "undo" /\ g = mine[p]
           \/ pc[p] = "clean" /\ g # current
    PROVE  DataInv'
<1>1. /\ g \in Gens /\ g # None
      /\ dirs' = [dirs EXCEPT ![g] = IF dirs[g] = "partial" THEN "absent" ELSE "partial"]
  BY InstallationAssumption DEF Remove, Retained
<1>2. DataTypes'
  BY <1>1 DEF DataInv, DataTypes
<1>3. \A h \in Gens \ {g} : dirs'[h] = dirs[h]
  BY <1>1 DEF DataInv, DataTypes
<1>4. PublicWorks'
  BY <1>3 DEF DataInv, DataTypes, Pointers, PublicWorks, Knows
<1>5. Knows(p)'
  BY <1>3 DEF DataInv, DataTypes, Pointers, Knows, Complete
<1> QED BY <1>2, <1>4, <1>5, WorkData

\* The steps of install that write no directory.
LEMMA InstallMoves ==
    ASSUME LockInv, DataInv, NEW p \in Procs,
           \/ Inspect(p) \/ Exists(p) \/ ReclaimNext(p) \/ Point(p) \/ InstallEnds(p)
           \/ Undo(p) \/ UndoEnds(p) \/ Withdraw(p)
    PROVE  DataInv'
<1>1. CASE Ends(p)
  BY <1>1, EndsData
<1>2. CASE ~Ends(p)
  <2>1. /\ pc[p] \in Working /\ UNCHANGED <<manager, dirs, current, public, mine>>
        /\ next' \in {next, None, mine[p]}
    BY <1>2 DEF Inspect, Exists, ReclaimNext, Point, InstallEnds, Undo, UndoEnds, Withdraw, At,
                files, Local, Working
  <2>2. DataTypes' /\ PublicWorks' /\ inv' = [q \in Procs |-> inv'[q]]
    <3>1. inv' = inv \/ inv' = [inv EXCEPT ![p] = inv'[p]]
      BY <1>2 DEF Inspect, Exists, ReclaimNext, Point, InstallEnds, Undo, UndoEnds, Withdraw,
                  Local, DataInv, DataTypes
    <3> QED BY <2>1, <3>1 DEF DataInv, DataTypes, PublicWorks, Pointers
  <2>3. \A q \in Procs \ {p} : pc'[q] = pc[q] /\ inv'[q] = inv[q] /\ mine'[q] = mine[q]
    BY <1>2, <2>1 DEF Inspect, Exists, ReclaimNext, Point, InstallEnds, Undo, UndoEnds, Withdraw,
                      Goto, Local, LockInv, LockTypes, DataInv, DataTypes
  <2>4. Knows(p)'
    <3>1. CASE Inspect(p)
      <4>1. /\ {current, next} \subseteq {None} \cup {g \in Gens : dirs[g] = "generation"}
            /\ inv'[p].current = current /\ pc'[p] \in {"unlink", "reclaim"}
        BY <1>2, <3>1 DEF Inspect, Intact, Goto, LockInv, LockTypes, DataInv, DataTypes
      <4> QED BY <2>1, <4>1 DEF Knows, Complete
    <3>2. CASE ReclaimNext(p) \/ Exists(p) \/ InstallEnds(p)
      BY <1>2, <2>1, <3>2 DEF ReclaimNext, Exists, InstallEnds, At, Local, DataInv, Knows, Complete
    <3>3. CASE Point(p)
      <4>1. pc[p] = "point" /\ pc'[p] = "publish" /\ inv' = inv
        BY <3>3 DEF Point, At, Goto, Local, LockInv, LockTypes
      <4> QED BY <2>1, <4>1 DEF DataInv, Knows, Complete
    <3>4. CASE Undo(p)
      <4>1. /\ pc[p] \in {"fill", "promote", "point", "publish"} /\ pc'[p] = "undo"
            /\ inv' = inv
        BY <3>4 DEF Undo, Goto, Local, LockInv, LockTypes
      <4> QED BY <2>1, <4>1 DEF DataInv, Knows, Complete
    <3>5. CASE UndoEnds(p) \/ Withdraw(p)
      <4>1. pc'[p] = "unformat"
        BY <1>2, <3>5 DEF UndoEnds, Withdraw, Goto, LockInv, LockTypes
      <4> QED BY <4>1 DEF Knows
    <3> QED BY <3>1, <3>2, <3>3, <3>4, <3>5
  <2> QED BY <2>1, <2>2, <2>3, <2>4, WorkData
<1> QED BY <1>1, <1>2

\* Staging and filling write a directory that nothing refers to.
LEMMA StageData ==
    ASSUME LockInv, DataInv, NEW p \in Procs, Stage(p) \/ Fill(p) \/ Promote(p)
    PROVE  DataInv'
<1>1. PICK g \in Gens, state \in {"partial", "staged", "generation"} :
           /\ dirs' = [dirs EXCEPT ![g] = state] /\ mine'[p] = g /\ g # current
           /\ mine' = [mine EXCEPT ![p] = g]
           /\ \/ pc[p] = "reclaim" /\ pc'[p] = "fill"
              \/ pc[p] = "fill" /\ pc'[p] = "promote"
              \/ pc[p] = "promote" /\ pc'[p] = "point" /\ state = "generation"
  <2>1. CASE Stage(p)
    <3>1. PICK g \in Gens : /\ dirs[g] = "absent" /\ dirs' = [dirs EXCEPT ![g] = "partial"]
                            /\ mine' = [mine EXCEPT ![p] = g]
      BY <2>1 DEF Stage
    <3>2. pc[p] = "reclaim" /\ pc'[p] = "fill"
      BY <2>1 DEF Stage, At, Goto, LockInv, LockTypes
    <3>3. g # current
      BY <3>1, <3>2, InstallationAssumption DEF DataInv, Knows, Complete
    <3>4. mine'[p] = g
      BY <3>1 DEF DataInv, DataTypes
    <3> QED BY <3>1, <3>2, <3>3, <3>4
  <2>2. CASE Fill(p) \/ Promote(p)
    <3>1. /\ pc[p] \in {"fill", "promote"} /\ mine' = mine
          /\ mine[p] \in Gens /\ mine[p] # current
      BY <2>2 DEF Fill, Promote, At, Local, DataInv, Knows
    <3>2. mine' = [mine EXCEPT ![p] = mine[p]]
      BY <3>1 DEF DataInv, DataTypes
    <3>3. \/ pc[p] = "fill" /\ pc'[p] = "promote" /\ dirs' = [dirs EXCEPT ![mine[p]] = "staged"]
          \/ /\ pc[p] = "promote" /\ pc'[p] = "point"
             /\ dirs' = [dirs EXCEPT ![mine[p]] = "generation"]
      BY <2>2 DEF Fill, Promote, At, Goto, LockInv, LockTypes
    <3> QED BY <3>1, <3>2, <3>3
  <2> QED BY <2>1, <2>2
<1>2. pc[p] \in Working /\ UNCHANGED <<manager, current, next, public, inv>>
  BY DEF Stage, Fill, Promote, At, Local, Working
<1>3. \A q \in Procs \ {p} : pc'[q] = pc[q] /\ inv'[q] = inv[q] /\ mine'[q] = mine[q]
  BY <1>1, <1>2 DEF Stage, Fill, Promote, Goto, LockInv, LockTypes, DataInv, DataTypes
<1>4. \A h \in Gens \ {g} : dirs'[h] = dirs[h]
  BY <1>1 DEF DataInv, DataTypes
<1>5. dirs'[g] = state
  BY <1>1 DEF DataInv, DataTypes
<1>6. DataTypes'
  BY <1>1, <1>2 DEF DataInv, DataTypes, Pointers
<1>7. PublicWorks'
  BY <1>1, <1>2, <1>4 DEF DataInv, DataTypes, Pointers, PublicWorks
<1>8. Knows(p)'
  BY <1>1, <1>2, <1>4, <1>5 DEF DataInv, Knows, Complete
<1> QED BY <1>2, <1>3, <1>6, <1>7, <1>8, WorkData

\* The pointer is moved to the new generation, then the link is made.
LEMMA PublishData ==
    ASSUME LockInv, DataInv, NEW p \in Procs, Publish(p) \/ Link(p)
    PROVE  DataInv'
<1>1. pc[p] \in Working /\ UNCHANGED <<manager, dirs, inv, mine>>
  BY DEF Publish, Link, At, Local, Working
<1>2. \A q \in Procs \ {p} : pc'[q] = pc[q] /\ inv'[q] = inv[q] /\ mine'[q] = mine[q]
  BY <1>1 DEF Publish, Link, Goto, LockInv, LockTypes
<1>3. /\ Complete(mine[p]) /\ current' = mine[p] /\ next' \in {None, next}
      /\ inv[p].current # mine[p] /\ pc'[p] \in {"link", "clean"}
  <2>1. CASE Publish(p)
    <3>1. pc[p] = "publish" /\ pc'[p] = "link" /\ current' = mine[p] /\ next' = None
      BY <2>1 DEF Publish, At, Goto, LockInv, LockTypes
    <3> QED BY <3>1 DEF DataInv, Knows
  <2>2. CASE Link(p)
    <3>1. pc[p] = "link" /\ pc'[p] = "clean" /\ current' = current /\ next' = next
      BY <2>2 DEF Link, At, Goto, LockInv, LockTypes
    <3> QED BY <3>1 DEF DataInv, Knows
  <2> QED BY <2>1, <2>2
<1>4. DataTypes'
  BY <1>1, <1>3 DEF DataInv, DataTypes, Pointers, Complete
<1>5. PublicWorks'
  <2>1. manager # 0 /\ mine[p] # None
    BY <1>1, <1>3, InstallationAssumption DEF LockInv, Position, Complete
  <2> QED BY <1>1, <1>3, <2>1 DEF PublicWorks, Complete
<1>6. Knows(p)'
  BY <1>1, <1>3 DEF Knows, Complete
<1> QED BY <1>1, <1>2, <1>4, <1>5, <1>6, WorkData

LEMMA RemovesData ==
    ASSUME LockInv, DataInv, NEW p \in Procs,
           Reclaim(p) \/ Clean(p) \/ UndoStage(p) \/ UninstallRemoves(p)
    PROVE  DataInv'
<1>1. /\ pc[p] \in Working /\ UNCHANGED <<manager, current, next, public, pc, inv, mine>>
  BY DEF Reclaim, Clean, UndoStage, UninstallRemoves, At, Local, Working
<1>2. CASE Reclaim(p)
  <2>1. PICK g \in inv[p].gens \ {inv[p].current} : Remove(g)
    BY <1>2 DEF Reclaim
  <2>2. pc[p] = "reclaim" /\ inv[p].current = current
    BY <1>2 DEF Reclaim, At, DataInv, Knows
  <2> QED BY <1>1, <2>1, <2>2, RemoveData
<1>3. CASE Clean(p)
  <2>1. pc[p] = "clean" /\ Remove(inv[p].current) /\ inv[p].current # current
    BY <1>3 DEF Clean, At, DataInv, Knows
  <2> QED BY <1>1, <2>1, RemoveData
<1>4. CASE UndoStage(p)
  BY <1>1, <1>4, RemoveData DEF UndoStage, At
<1>5. CASE UninstallRemoves(p)
  <2>1. PICK g \in inv[p].gens : Remove(g)
    BY <1>5 DEF UninstallRemoves
  <2> QED BY <1>1, <1>5, <2>1, RemoveData DEF UninstallRemoves, At
<1> QED BY <1>2, <1>3, <1>4, <1>5

\* An uninstall takes the public link away first.
LEMMA UninstallMoves ==
    ASSUME LockInv, DataInv, NEW p \in Procs,
           \/ Unlink(p) \/ Unpoint(p) \/ UninstallEmpty(p) \/ Unformat(p) \/ Unlock(p) \/ Rmdir(p)
    PROVE  DataInv'
<1>1. /\ pc[p] \in Working /\ UNCHANGED dirs
      /\ current' \in {current, None} /\ next' \in {next, None}
  BY DEF Unlink, Unpoint, UninstallEmpty, Unformat, Unlock, Rmdir, At, files, Local, Working
<1>2. pc'[p] \in {"unpoint", "unformat", "unlock", "rmdir", "idle"}
  BY DEF Unlink, Unpoint, UninstallEmpty, Unformat, Unlock, Rmdir, Quits, At, Goto, LockInv,
         LockTypes
<1>3. \A q \in Procs \ {p} : pc'[q] = pc[q] /\ inv'[q] = inv[q] /\ mine'[q] = mine[q]
  BY DEF Unlink, Unpoint, UninstallEmpty, Unformat, Unlock, Rmdir, Quits, At, Goto, files, Local,
         LockInv, LockTypes, DataInv, DataTypes
<1>4. \/ ~public'
      \/ /\ public' = public /\ current' = current /\ manager' = manager
         /\ pc'[p] = "unformat"
  <2>1. CASE Unlink(p) \/ UninstallEmpty(p)
    BY <2>1 DEF Unlink, UninstallEmpty, At, Goto, files, Local, LockInv, LockTypes
  <2>2. CASE Unpoint(p) \/ Unlock(p) \/ Rmdir(p)
    BY <2>2 DEF Unpoint, Unlock, Rmdir, At, DataInv, Knows
  <2>3. CASE Unformat(p)
    BY <2>3 DEF Unformat, Retained, DataInv, DataTypes, Pointers, PublicWorks
  <2> QED BY <2>1, <2>2, <2>3
<1>5. DataTypes'
  <2>1. inv' = [q \in Procs |-> inv'[q]] /\ mine' \in [Procs -> Pointers]
    BY DEF Unlink, Unpoint, UninstallEmpty, Unformat, Unlock, Rmdir, Quits, files, Local,
           DataInv, DataTypes, Pointers
  <2> QED BY <1>1, <2>1 DEF DataInv, DataTypes, Pointers
<1>6. PublicWorks' /\ Knows(p)'
  BY <1>1, <1>2, <1>4 DEF DataInv, PublicWorks, Knows
<1> QED BY <1>1, <1>3, <1>5, <1>6, WorkData

----------------------------------------------------------------------------

LEMMA DataNext ==
    ASSUME LockInv, DataInv, [Next]_vars
    PROVE  DataInv'
<1>1. ASSUME NEW p \in Installers, Install(p) \/ Uninstall(p) PROVE DataInv'
  BY <1>1, InstallMoves, StageData, PublishData, RemovesData, UninstallMoves
     DEF Install, Uninstall, Procs
<1>2. ASSUME NEW p \in Installers, NEW k, Begin(p, k) PROVE DataInv'
  <2>1. pc' = [pc EXCEPT ![p] = "open"] /\ UNCHANGED <<files, inv, mine>>
    BY <1>2 DEF Begin, Goto
  <2>2. pc'[p] = "open"
    BY <2>1 DEF LockInv, LockTypes, Procs
  <2> QED BY <2>1, <2>2, IdleData DEF files, Procs
<1>3. ASSUME NEW r \in Runners, Exec(r) PROVE DataInv'
  <2>1. /\ pc' = [pc EXCEPT ![r] = "open"] /\ mine' = [mine EXCEPT ![r] = current]
        /\ UNCHANGED <<files, inv>>
    BY <1>3 DEF Exec, Goto
  <2>2. pc'[r] = "open" /\ mine'[r] = current /\ current \in Pointers
    BY <2>1 DEF LockInv, LockTypes, DataInv, DataTypes, Procs
  <2> QED BY <2>1, <2>2, IdleData DEF files, Procs
<1>4. ASSUME NEW r \in Runners, Lease(r) PROVE DataInv'
  BY <1>4, LeaseData DEF Procs
<1>5. ASSUME NEW p \in Procs, Open(p) \/ Dies(p) PROVE DataInv'
  BY <1>5, OpenData, EndsData DEF Dies
<1>6. CASE UNCHANGED vars
  BY <1>6 DEF vars, files, DataInv, DataTypes, PublicWorks, Knows, Complete
<1> QED BY <1>1, <1>2, <1>3, <1>4, <1>5, <1>6 DEF Next

LEMMA FilesInvariance == Spec => [](LockInv /\ DataInv)
<1>1. Init => LockInv /\ DataInv
  <2>1. ASSUME Init PROVE LockInv
    BY <2>1 DEF Init, LockInv, LockTypes, Inodes, Exclusive, Position, Working, Running, Opening,
                Places
  <2>2. ASSUME Init PROVE DataInv
    BY <2>2 DEF Init, DataInv, DataTypes, Pointers, PublicWorks, Knows, Complete
  <2> QED BY <2>1, <2>2
<1>2. LockInv /\ DataInv /\ [Next]_vars => LockInv' /\ DataInv'
  BY LockNext, DataNext
<1> QED BY <1>1, <1>2, PTL DEF Spec

\* Whoever follows the public link finds a complete executable, in the middle of
\* a replacement or a removal and wherever a process has died.
THEOREM PublicHolds == Spec => []PublicWorks
<1>1. DataInv => PublicWorks
  BY DEF DataInv
<1> QED BY <1>1, FilesInvariance, PTL

\* The shared lock keeps the generation of a running process where it is, as
\* long as the process lives: nobody can hold the lock of the same manager
\* exclusively, and the manager cannot be replaced by one with another lock.
THEOREM LeaseHolds == Spec => []LeaseProtects
<1>1. DataInv => LeaseProtects
  <2>1. Runners \subseteq Procs
    BY DEF Procs
  <2> QED BY <2>1 DEF DataInv, Knows, Complete, LeaseProtects, At
<1> QED BY <1>1, FilesInvariance, PTL

----------------------------------------------------------------------------
(* What is left behind.                                                    *)

\* The temporary pointer is set for one step of an installation only, and a directory
\* that is being filled is there.
Pending(p) ==
    /\ pc[p] \in {"fill", "promote", "point", "link", "clean", "undo"} => next = None
    /\ pc[p] = "publish" => next = mine[p]
    /\ pc[p] \in {"fill", "promote"} => mine[p] \in Retained

\* Both pointers lead to complete generations, and besides the current one at most
\* one directory is retained.
RestInv ==
    /\ \A g \in {current, next} : g # None => Complete(g)
    /\ Cardinality(Retained) <= 2
    /\ \A p \in Procs : Pending(p)

LEMMA RetainedFinite == IsFiniteSet(Retained) /\ Cardinality(Retained) \in Nat
<1>1. IsFiniteSet(Retained)
  BY InstallationAssumption, FS_Subset DEF Retained
<1> QED BY <1>1, FS_CardinalityType

\* A step that makes no directory.
LEMMA RestKeeps ==
    ASSUME LockInv, DataInv, RestInv, NEW p \in Procs, Retained' \subseteq Retained,
           \A g \in {current', next'} : g # None => Complete(g)',
           Pending(p)',
           \A q \in Procs \ {p} : pc'[q] = pc[q] /\ mine'[q] = mine[q],
           UNCHANGED <<dirs, next>> \/ pc[p] \in Working
    PROVE  RestInv'
<1>1. Cardinality(Retained') <= 2
  <2>1. Cardinality(Retained') <= Cardinality(Retained) /\ IsFiniteSet(Retained')
    BY RetainedFinite, FS_Subset
  <2>2. Cardinality(Retained') \in Nat
    BY <2>1, FS_CardinalityType
  <2> QED BY <2>1, <2>2, RetainedFinite DEF RestInv
<1>2. ASSUME NEW q \in Procs \ {p} PROVE Pending(q)'
  <2>1. CASE UNCHANGED <<dirs, next>>
    BY <2>1 DEF RestInv, Pending, Retained
  <2>2. CASE pc[p] \in Working
    BY <2>2, Alone DEF Pending, Working
  <2> QED BY <2>1, <2>2
<1> QED BY <1>1, <1>2 DEF RestInv

\* A step that leaves the directories and the pointers alone.
LEMMA RestStill ==
    ASSUME LockInv, DataInv, RestInv, NEW p \in Procs, UNCHANGED <<dirs, current, next>>,
           pc' = pc \/ pc' = [pc EXCEPT ![p] = pc'[p]],
           pc'[p] \notin {"fill", "promote", "point", "publish", "link", "clean", "undo"},
           mine' = mine \/ mine' = [mine EXCEPT ![p] = mine'[p]]
    PROVE  RestInv'
<1>1. \A q \in Procs \ {p} : pc'[q] = pc[q] /\ mine'[q] = mine[q]
  BY DEF LockInv, LockTypes, DataInv, DataTypes
<1>2. Retained' = Retained /\ Pending(p)' /\ \A g \in {current', next'} : g # None => Complete(g)'
  BY DEF Retained, Pending, RestInv, Complete
<1> QED BY <1>1, <1>2, RestKeeps

LEMMA RestEnds ==
    ASSUME LockInv, DataInv, RestInv, NEW p \in Procs, Ends(p)
    PROVE  RestInv'
<1>1. /\ UNCHANGED <<dirs, current, next>>
      /\ pc' = [pc EXCEPT ![p] = "idle"] /\ mine' = [mine EXCEPT ![p] = None]
  BY DEF Ends, Quits, Goto, files
<1>2. pc'[p] = "idle" /\ mine'[p] = None
  BY <1>1 DEF LockInv, LockTypes, DataInv, DataTypes
<1> QED BY <1>1, <1>2, RestStill

LEMMA RestOpen ==
    ASSUME LockInv, DataInv, RestInv, NEW p \in Procs, Open(p)
    PROVE  RestInv'
<1>1. CASE Ends(p)
  BY <1>1, RestEnds
<1>2. CASE ~Ends(p)
  <2>1. /\ UNCHANGED <<dirs, current, next, mine>>
        /\ \E x \in {"mkdir", "bootlock", "bootformat", "opened", "flock", "check", "lease",
                    "inspect"} : pc' = [pc EXCEPT ![p] = x]
    <3>1. CASE OpenMissing(p) \/ MakeManager(p) \/ BootLock(p) \/ BootFormat(p)
      BY <1>2, <3>1 DEF OpenMissing, MakeManager, BootLock, BootFormat, At, Goto, files, Local
    <3>2. CASE OpenManager(p) \/ OpenLock(p) \/ Flock(p) \/ OpenChecks(p)
      BY <1>2, <3>2 DEF OpenManager, OpenLock, Flock, OpenChecks, At, Goto, files, Local
    <3> QED BY <3>1, <3>2 DEF Open
  <2>2. /\ pc' = [pc EXCEPT ![p] = pc'[p]]
        /\ pc'[p] \in {"mkdir", "bootlock", "bootformat", "opened", "flock", "check", "lease",
                      "inspect"}
    BY <2>1 DEF LockInv, LockTypes
  <2> QED BY <2>1, <2>2, RestStill
<1> QED BY <1>1, <1>2

\* The steps of an installer that touch neither directories nor pointers.
LEMMA RestMoves ==
    ASSUME LockInv, DataInv, RestInv, NEW p \in Procs,
           \/ Inspect(p) \/ Exists(p) \/ InstallEnds(p) \/ UndoEnds(p) \/ Withdraw(p) \/ Lease(p)
           \/ Unlink(p) \/ UninstallEmpty(p) \/ Unformat(p) \/ Unlock(p) \/ Rmdir(p)
    PROVE  RestInv'
<1>1. CASE Ends(p)
  BY <1>1, RestEnds
<1>2. CASE ~Ends(p)
  <2>1. /\ UNCHANGED <<dirs, current, next>>
        /\ mine' = mine \/ mine' = [mine EXCEPT ![p] = None]
        /\ \E x \in {"reclaim", "unlink", "unformat", "leased", "unpoint", "unlock", "rmdir",
                     "idle"} : pc' = [pc EXCEPT ![p] = x]
    <3>1. CASE Inspect(p) \/ Exists(p) \/ InstallEnds(p) \/ UndoEnds(p) \/ Withdraw(p) \/ Lease(p)
      BY <1>2, <3>1 DEF Inspect, Exists, InstallEnds, UndoEnds, Withdraw, Lease, Goto, files, Local
    <3>2. CASE \/ Unlink(p) \/ UninstallEmpty(p) \/ Unformat(p) \/ Unlock(p) \/ Rmdir(p)
      BY <3>2 DEF Unlink, UninstallEmpty, Unformat, Unlock, Rmdir, Quits, Goto, files, Local
    <3> QED BY <3>1, <3>2
  <2>2. /\ pc' = [pc EXCEPT ![p] = pc'[p]]
        /\ pc'[p] \in {"reclaim", "unlink", "unformat", "leased", "unpoint", "unlock", "rmdir",
                       "idle"}
    BY <2>1 DEF LockInv, LockTypes
  <2>3. mine' = mine \/ mine' = [mine EXCEPT ![p] = mine'[p]]
    BY <2>1 DEF DataInv, DataTypes
  <2> QED BY <2>1, <2>2, <2>3, RestStill
<1> QED BY <1>1, <1>2

\* A directory that no pointer leads to is removed.
LEMMA RestRemove ==
    ASSUME LockInv, DataInv, RestInv, NEW p \in Procs, pc[p] \in Working, NEW g, Remove(g),
           UNCHANGED <<current, next, pc, mine>>, g # current, g # next,
           pc[p] \notin {"fill", "promote"}
    PROVE  RestInv'
<1>1. /\ g \in Gens
      /\ dirs' = [dirs EXCEPT ![g] = IF dirs[g] = "partial" THEN "absent" ELSE "partial"]
      /\ dirs[g] # "absent"
  BY DEF Remove, Retained
<1>2. \A h \in Gens \ {g} : dirs'[h] = dirs[h]
  BY <1>1 DEF DataInv, DataTypes
<1>3. Retained' \subseteq Retained
  BY <1>1, <1>2 DEF Retained
<1>4. \A h \in {current', next'} : h # None => Complete(h)'
  BY <1>2 DEF RestInv, Complete
<1>5. Pending(p)'
  BY <1>2 DEF RestInv, Pending, Retained, Working
<1> QED BY <1>3, <1>4, <1>5, RestKeeps

LEMMA RestRemoves ==
    ASSUME LockInv, DataInv, RestInv, NEW p \in Procs,
           Reclaim(p) \/ Clean(p) \/ UndoStage(p) \/ UninstallRemoves(p)
    PROVE  RestInv'
<1>1. /\ pc[p] \in Working /\ pc[p] \notin {"fill", "promote"}
      /\ UNCHANGED <<current, next, pc, mine>>
  BY DEF Reclaim, Clean, UndoStage, UninstallRemoves, At, Local, Working
<1>2. PICK g : Remove(g) /\ g # current /\ g # next
  <2>1. ASSUME NEW g, Remove(g) PROVE g # None
    BY <2>1, InstallationAssumption DEF Remove, Retained
  <2>2. CASE Reclaim(p)
    BY <2>1, <2>2 DEF Reclaim, At, DataInv, Knows
  <2>3. CASE Clean(p)
    BY <2>1, <2>3 DEF Clean, At, DataInv, Knows, RestInv, Pending
  <2>4. CASE UndoStage(p)
    BY <2>1, <2>4 DEF UndoStage, At, DataInv, Knows, RestInv, Pending
  <2>5. CASE UninstallRemoves(p)
    BY <2>1, <2>5 DEF UninstallRemoves
  <2> QED BY <2>2, <2>3, <2>4, <2>5
<1> QED BY <1>1, <1>2, RestRemove

\* The steps that move a pointer.
LEMMA RestPoints ==
    ASSUME LockInv, DataInv, RestInv, NEW p \in Procs,
           \/ ReclaimNext(p) \/ Point(p) \/ Publish(p) \/ Link(p) \/ Undo(p) \/ Unpoint(p)
    PROVE  RestInv'
<1>1. pc[p] \in Working /\ UNCHANGED <<dirs, mine>>
  BY DEF ReclaimNext, Point, Publish, Link, Undo, Unpoint, At, Local, Working
<1>2. pc' = [pc EXCEPT ![p] = pc'[p]]
  BY DEF ReclaimNext, Point, Publish, Link, Undo, Unpoint, Goto, LockInv, LockTypes
<1>3. \A q \in Procs \ {p} : pc'[q] = pc[q] /\ mine'[q] = mine[q]
  BY <1>1, <1>2 DEF LockInv, LockTypes
<1>4. Pending(p)' /\ \A g \in {current', next'} : g # None => Complete(g)'
  <2>1. CASE ReclaimNext(p) \/ Unpoint(p)
    <3>1. /\ pc[p] \in {"reclaim", "unpoint"} /\ pc' = pc
          /\ current' \in {current, None} /\ next' \in {next, None}
      BY <2>1 DEF ReclaimNext, Unpoint, At
    <3> QED BY <1>1, <3>1 DEF RestInv, Pending, Complete
  <2>2. CASE Point(p)
    <3>1. pc[p] = "point" /\ pc'[p] = "publish" /\ next' = mine[p] /\ current' = current
      BY <2>2 DEF Point, At, Goto, LockInv, LockTypes
    <3> QED BY <1>1, <3>1 DEF RestInv, Pending, Complete, DataInv, Knows
  <2>3. CASE Publish(p)
    <3>1. pc[p] = "publish" /\ pc'[p] = "link" /\ next' = None /\ current' = mine[p]
      BY <2>3 DEF Publish, At, Goto, LockInv, LockTypes
    <3> QED BY <1>1, <3>1 DEF RestInv, Pending, Complete, DataInv, Knows
  <2>4. CASE Link(p)
    <3>1. pc[p] = "link" /\ pc'[p] = "clean" /\ next' = next /\ current' = current
      BY <2>4 DEF Link, At, Goto, LockInv, LockTypes
    <3> QED BY <1>1, <3>1 DEF RestInv, Pending, Complete
  <2>5. CASE Undo(p)
    <3>1. /\ pc[p] \in {"fill", "promote", "point", "publish"} /\ pc'[p] = "undo"
          /\ next' = (IF next = mine[p] THEN None ELSE next) /\ current' = current
      BY <2>5 DEF Undo, At, Goto, LockInv, LockTypes
    <3>2. next' = None
      BY <3>1 DEF RestInv, Pending
    <3> QED BY <1>1, <3>1, <3>2 DEF RestInv, Pending, Complete
  <2> QED BY <2>1, <2>2, <2>3, <2>4, <2>5
<1>5. Retained' = Retained
  BY <1>1 DEF Retained
<1> QED BY <1>1, <1>3, <1>4, <1>5, RestKeeps

\* A generation is filled where nothing leads to it yet.
LEMMA RestFills ==
    ASSUME LockInv, DataInv, RestInv, NEW p \in Procs, Fill(p) \/ Promote(p)
    PROVE  RestInv'
<1>1. /\ pc[p] \in Working /\ UNCHANGED <<current, next, mine>>
      /\ pc[p] \in {"fill", "promote"} /\ mine[p] \in Gens /\ mine[p] # current /\ next = None
  BY DEF Fill, Promote, At, Local, Working, DataInv, Knows, RestInv, Pending
<1>2. /\ pc' = [pc EXCEPT ![p] = pc'[p]] /\ pc'[p] \in {"promote", "point"}
  BY DEF Fill, Promote, Goto, LockInv, LockTypes
<1>3. \A q \in Procs \ {p} : pc'[q] = pc[q] /\ mine'[q] = mine[q]
  BY <1>1, <1>2 DEF LockInv, LockTypes
<1>4. PICK state \in {"staged", "generation"} : dirs' = [dirs EXCEPT ![mine[p]] = state]
  BY DEF Fill, Promote
<1>5. dirs'[mine[p]] = state /\ \A h \in Gens \ {mine[p]} : dirs'[h] = dirs[h]
  BY <1>1, <1>4 DEF DataInv, DataTypes
<1>6. mine[p] \in Retained
  BY <1>1 DEF RestInv, Pending
<1>7. Retained' \subseteq Retained
  BY <1>5, <1>6 DEF Retained
<1>8. Pending(p)'
  BY <1>1, <1>2, <1>5 DEF Pending, Retained
<1>9. \A g \in {current', next'} : g # None => Complete(g)'
  BY <1>1, <1>5 DEF RestInv, Complete
<1> QED BY <1>1, <1>3, <1>7, <1>8, <1>9, RestKeeps

\* A new directory is made when the current one is the only other.
LEMMA RestStage ==
    ASSUME LockInv, DataInv, RestInv, NEW p \in Procs, Stage(p)
    PROVE  RestInv'
<1>1. PICK g \in Gens : /\ dirs[g] = "absent" /\ dirs' = [dirs EXCEPT ![g] = "partial"]
                        /\ mine' = [mine EXCEPT ![p] = g]
  BY DEF Stage
<1>2. /\ pc[p] = "reclaim" /\ pc' = [pc EXCEPT ![p] = "fill"] /\ UNCHANGED <<current, next>>
      /\ next = None /\ Retained \subseteq {inv[p].current} /\ pc[p] \in Working
  BY DEF Stage, At, Goto, Working
<1>3. /\ pc'[p] = "fill" /\ mine'[p] = g
      /\ \A q \in Procs \ {p} : pc'[q] = pc[q] /\ mine'[q] = mine[q]
  BY <1>1, <1>2 DEF LockInv, LockTypes, DataInv, DataTypes
<1>4. dirs'[g] = "partial" /\ \A h \in Gens \ {g} : dirs'[h] = dirs[h]
  BY <1>1 DEF DataInv, DataTypes
<1>5. Cardinality(Retained') <= 2
  <2>1. Retained' \subseteq {inv[p].current} \cup {g}
    BY <1>2, <1>4 DEF Retained
  <2>2. IsFiniteSet({inv[p].current}) /\ Cardinality({inv[p].current}) = 1
    BY FS_Singleton
  <2>3. /\ IsFiniteSet({inv[p].current} \cup {g})
        /\ Cardinality({inv[p].current} \cup {g}) <= 2
    <3> DEFINE one == {inv[p].current}
    <3>1. IsFiniteSet(one) /\ Cardinality(one) = 1
      BY <2>2
    <3> HIDE DEF one
    <3>2. /\ IsFiniteSet(one \cup {g})
          /\ Cardinality(one \cup {g}) = IF g \in one THEN Cardinality(one) ELSE Cardinality(one) + 1
      BY <3>1, FS_AddElement
    <3>3. Cardinality(one \cup {g}) <= 2
      BY <3>1, <3>2
    <3> QED BY <3>2, <3>3 DEF one
  <2>4. Cardinality({inv[p].current} \cup {g}) \in Nat
    BY <2>3, FS_CardinalityType
  <2>5. /\ IsFiniteSet(Retained')
        /\ Cardinality(Retained') <= Cardinality({inv[p].current} \cup {g})
    BY <2>1, <2>3, FS_Subset
  <2>6. Cardinality(Retained') \in Nat
    BY <2>5, FS_CardinalityType
  <2> QED BY <2>3, <2>4, <2>5, <2>6
<1>6. Pending(p)'
  BY <1>2, <1>3, <1>4 DEF Pending, Retained
<1>7. ASSUME NEW q \in Procs \ {p} PROVE Pending(q)'
  BY <1>2, <1>3, Alone DEF Pending, Working
<1>8. \A h \in {current', next'} : h # None => Complete(h)'
  BY <1>1, <1>2, <1>4 DEF RestInv, Complete
<1> QED BY <1>5, <1>6, <1>7, <1>8 DEF RestInv

LEMMA RestNext ==
    ASSUME LockInv, DataInv, RestInv, [Next]_vars
    PROVE  RestInv'
<1>1. ASSUME NEW p \in Installers, Install(p) \/ Uninstall(p) PROVE RestInv'
  BY <1>1, RestMoves, RestPoints, RestFills, RestStage, RestRemoves DEF Install, Uninstall, Procs
<1>2. ASSUME NEW p \in Procs, pc' = [pc EXCEPT ![p] = "open"], UNCHANGED files,
             mine' = mine \/ mine' = [mine EXCEPT ![p] = current]
      PROVE  RestInv'
  <2>1. pc'[p] = "open" /\ (mine' = mine \/ mine' = [mine EXCEPT ![p] = mine'[p]])
    BY <1>2 DEF LockInv, LockTypes, DataInv, DataTypes
  <2> QED BY <1>2, <2>1, RestStill DEF files
<1>3. ASSUME NEW p \in Installers, NEW k, Begin(p, k) PROVE RestInv'
  BY <1>2, <1>3 DEF Begin, Goto, Procs
<1>4. ASSUME NEW r \in Runners, Exec(r) PROVE RestInv'
  BY <1>2, <1>4 DEF Exec, Goto, Procs
<1>5. ASSUME NEW r \in Runners, Lease(r) PROVE RestInv'
  BY <1>5, RestMoves DEF Procs
<1>6. ASSUME NEW p \in Procs, Open(p) \/ Dies(p) PROVE RestInv'
  BY <1>6, RestOpen, RestEnds DEF Dies
<1>7. CASE UNCHANGED vars
  BY <1>7 DEF vars, files, RestInv, Pending, Complete, Retained
<1> QED BY <1>1, <1>3, <1>4, <1>5, <1>6, <1>7 DEF Next

\* Retrying recovers: what processes leave behind that ended or died anywhere is accepted by
\* the next installer, as long as the manager and the directories in it are whole.  An
\* installer makes a directory only where the current one is alone, and no pointer is ever
\* left on a directory that is removed.
THEOREM RecoverHolds == Spec => []Recoverable
<1>1. Init => RestInv
  <2>1. ASSUME Init PROVE Retained = {} /\ \A p \in Procs : Pending(p)
    BY <2>1 DEF Init, Retained, Pending
  <2>2. ASSUME Init PROVE Cardinality(Retained) <= 2
    BY <2>1, <2>2, FS_EmptySet
  <2>3. ASSUME Init PROVE current = None /\ next = None
    BY <2>3 DEF Init
  <2> QED BY <2>1, <2>2, <2>3 DEF RestInv
<1>2. DataInv /\ RestInv => Recoverable
  <2>1. SUFFICES ASSUME DataInv, RestInv, \A g \in Gens : dirs[g] # "partial" PROVE Intact
    BY DEF Recoverable
  <2>2. \A g \in Retained : verifyGeneration(g)
    BY <2>1 DEF Retained, verifyGeneration, DataInv, DataTypes
  <2>3. Cardinality(Retained) <= maxGenerations
    BY <2>1, RetainedFinite, InstallationAssumption DEF RestInv
  <2>4. {current, next} \subseteq {None} \cup {g \in Gens : dirs[g] = "generation"}
    BY <2>1 DEF RestInv, Complete
  <2> QED BY <2>1, <2>2, <2>3, <2>4 DEF Intact, DataInv, PublicWorks
<1> QED BY <1>1, <1>2, RestNext, FilesInvariance, PTL DEF Spec
=============================================================================
