--------------------------- MODULE AcpPoolProofs ---------------------------
(***************************************************************************)
(* Proofs about AcpPool, for any users, limits and number of groups.  The  *)
(* invariant has six layers: who holds a lease on which group              *)
(* (HolderInv), which groups may have a process (ProcessInv), what Close   *)
(* waits for (ClosingInv), which leases were told that their group is      *)
(* retired (TellInv), which groups the idle order may name (IdleInv), and  *)
(* whom everybody waits for (GoingInv).                                    *)
(***************************************************************************)
EXTENDS AcpPool, SequenceTheorems, FiniteSetTheorems, TLAPS

Places == {"outside", "retrying", "recycling", "starting", "held", "waiting", "done"}
Begun == groups \cup gone

----------------------------------------------------------------------------
(* Leases.                                                                 *)

HolderTypes ==
    /\ pc \in [Users -> Places]
    /\ lease = [u \in Users |-> lease[u]]
    /\ allocated \in [Groups -> Nat]
    /\ scope = [g \in Groups |-> scope[g]]
    /\ groups \subseteq Groups /\ gone \subseteq Groups /\ dedicated \subseteq Groups

\* What the place of a user says of its lease.
LeaseOf(u) ==
    /\ pc[u] \in {"outside", "retrying"} => lease[u] = NoGroup
    /\ pc[u] \in {"starting", "held", "waiting"} => lease[u] \in Begun
    /\ pc[u] = "done" => lease[u] \in Begun \cup {NoGroup}

\* The allocations of a group count its holders, who share its scope; a launch of
\* its own has one.
Shared(g) ==
    /\ allocated[g] = Cardinality(Holders(g))
    /\ allocated[g] <= SessionsPerProcess
    /\ \A u \in Holders(g) : ask[u].scope = scope[g] /\ (ask[u].prepared => g \in dedicated)
    /\ g \in dedicated => g \in Begun /\ \A u, v \in Holders(g) : u = v

HolderInv ==
    /\ HolderTypes
    /\ groups \cap gone = {}
    /\ \A u \in Users : LeaseOf(u)
    /\ \A g \in Groups : Shared(g)

\* Moves of one user that give or take no lease.
Moves(u, x) ==
    /\ pc' = [pc EXCEPT ![u] = x]
    /\ \/ /\ lease' = lease
          /\ \/ pc[u] \in {"outside", "retrying"} /\ x = "done"
             \/ pc[u] = "starting" /\ x \in {"held", "waiting"}
             \/ pc[u] = "held" /\ x \in {"waiting", "done"}
             \/ pc[u] = "waiting" /\ x = "done"
       \/ pc[u] = "outside" /\ x = "recycling" /\ lease' = [lease EXCEPT ![u] = lease'[u]]
       \/ /\ pc[u] \in {"recycling", "retrying"} /\ x \in {"retrying", "done"}
          /\ lease' = [lease EXCEPT ![u] = NoGroup]

LEMMA NoGroupApart == NoGroup \notin Groups /\ IsFiniteSet(Users) /\ IsFiniteSet(Groups)
BY UsersAssumption, GroupsAssumption

\* Holders stay what they are when nobody moves, or somebody moves so.
LEMMA SameHolders ==
    ASSUME HolderInv,
           UNCHANGED <<pc, lease>> \/ \E u \in Users, x \in Places : Moves(u, x),
           NEW g \in Groups
    PROVE  Holders(g)' = Holders(g)
<1>1. CASE UNCHANGED <<pc, lease>>
  BY <1>1 DEF Holders
<1>2. ASSUME NEW u \in Users, NEW x \in Places, Moves(u, x) PROVE Holders(g)' = Holders(g)
  <2>1. \A v \in Users \ {u} : pc'[v] = pc[v] /\ lease'[v] = lease[v]
    BY <1>2 DEF Moves, HolderInv, HolderTypes
  <2>2. pc'[u] = x /\ (lease'[u] = g /\ x # "recycling" <=> lease[u] = g /\ pc[u] # "recycling")
    BY <1>2, NoGroupApart DEF Moves, HolderInv, HolderTypes, LeaseOf
  <2> QED BY <2>1, <2>2 DEF Holders
<1> QED BY <1>1, <1>2

LEMMA MoveKeeps ==
    ASSUME HolderInv,
           UNCHANGED <<pc, lease>> \/ \E u \in Users, x \in Places : Moves(u, x),
           UNCHANGED <<ask, allocated, scope, dedicated>>,
           groups' \subseteq Groups, gone' \subseteq Groups,
           Begun' = Begun, groups' \cap gone' = {}
    PROVE  HolderInv'
<1>1. \A g \in Groups : Shared(g)'
  BY SameHolders DEF HolderInv, Shared
<1>2. CASE UNCHANGED <<pc, lease>>
  BY <1>1, <1>2 DEF HolderInv, HolderTypes, LeaseOf
<1>3. ASSUME NEW u \in Users, NEW x \in Places, Moves(u, x) PROVE HolderInv'
  <2>1. /\ pc'[u] = x
        /\ \A v \in Users \ {u} : pc'[v] = pc[v] /\ lease'[v] = lease[v]
    BY <1>3 DEF Moves, HolderInv, HolderTypes
  <2>2. HolderTypes'
    BY <1>3 DEF Moves, HolderInv, HolderTypes
  <2>3. LeaseOf(u)'
    BY <1>3, <2>1 DEF Moves, HolderInv, HolderTypes, LeaseOf
  <2>4. \A v \in Users \ {u} : LeaseOf(v)'
    BY <2>1 DEF HolderInv, LeaseOf
  <2> QED BY <1>1, <2>2, <2>3, <2>4 DEF HolderInv
<1> QED BY <1>2, <1>3

\* A new lease, on a group of the pool or on one that enters it.
LEMMA LeaseKeeps ==
    ASSUME HolderInv, NEW u \in Users, NEW g \in Groups, Asking(u), newLeaseLocked(u, g),
           NEW x \in {"held", "starting"}, pc' = [pc EXCEPT ![u] = x],
           UNCHANGED <<ask, gone>>,
           \/ g \in Reusable(u, {}) /\ UNCHANGED <<groups, scope, dedicated>>
           \/ /\ g \notin Begun /\ groups' = groups \cup {g}
              /\ scope' = [scope EXCEPT ![g] = ask[u].scope]
              /\ dedicated' = IF ask[u].prepared THEN dedicated \cup {g} ELSE dedicated
    PROVE  HolderInv'
<1>1. /\ lease[u] = NoGroup /\ pc'[u] = x /\ lease'[u] = g
      /\ \A v \in Users \ {u} : pc'[v] = pc[v] /\ lease'[v] = lease[v]
  BY DEF Asking, newLeaseLocked, HolderInv, HolderTypes, LeaseOf
<1>2. /\ Begun' = Begun \cup {g} /\ groups' \cap gone' = {}
      /\ scope'[g] = ask[u].scope
      /\ \A h \in Groups \ {g} : scope'[h] = scope[h] /\ (h \in dedicated' <=> h \in dedicated)
  BY DEF Reusable, Begun, HolderInv, HolderTypes
<1>3. Holders(g)' = Holders(g) \cup {u} /\ u \notin Holders(g)
  BY <1>1, NoGroupApart DEF Holders
<1>4. \A h \in Groups \ {g} : Holders(h)' = Holders(h)
  BY <1>1, NoGroupApart DEF Holders
<1>5. \A h \in Groups \ {g} : allocated'[h] = allocated[h]
  BY DEF newLeaseLocked, HolderInv, HolderTypes
<1>6. HolderTypes'
  BY SMTT(30) DEF newLeaseLocked, HolderInv, HolderTypes, Places
<1>7. \A v \in Users : LeaseOf(v)'
  BY <1>1, <1>2 DEF HolderInv, LeaseOf
<1>8. Shared(g)'
  <2>1. IsFiniteSet(Holders(g))
    BY NoGroupApart, FS_Subset DEF Holders
  <2>2. Cardinality(Holders(g) \cup {u}) = Cardinality(Holders(g)) + 1
    BY <1>3, <2>1, FS_AddElement
  <2>3. allocated'[g] = allocated[g] + 1 /\ allocated[g] = Cardinality(Holders(g))
    BY DEF newLeaseLocked, HolderInv, HolderTypes, Shared
  <2>4. CASE g \in Reusable(u, {}) /\ UNCHANGED <<groups, scope, dedicated>>
    <3>1. allocated[g] < SessionsPerProcess /\ g \notin dedicated /\ ~ask[u].prepared
      BY <2>4 DEF Reusable
    <3>2. allocated'[g] <= SessionsPerProcess
      BY <2>3, <3>1, LimitAssumption DEF HolderInv, HolderTypes
    <3> QED BY <1>2, <1>3, <2>2, <2>3, <2>4, <3>1, <3>2 DEF HolderInv, Shared
  <2>5. CASE g \notin Begun /\ dedicated' = IF ask[u].prepared THEN dedicated \cup {g} ELSE dedicated
    <3>1. Holders(g) = {}
      BY <2>5, NoGroupApart DEF HolderInv, HolderTypes, LeaseOf, Holders, Places
    <3>2. Cardinality(Holders(g)) = 0
      BY <3>1, FS_EmptySet
    <3>3. allocated'[g] <= SessionsPerProcess
      BY <2>3, <3>2, LimitAssumption
    <3>4. g \notin dedicated
      BY <2>5 DEF HolderInv, Shared
    <3> QED BY <1>2, <1>3, <2>2, <2>3, <2>5, <3>1, <3>3, <3>4 DEF Shared
  <2> QED BY <2>4, <2>5
<1>9. \A h \in Groups \ {g} : Shared(h)'
  BY <1>2, <1>4, <1>5 DEF HolderInv, Shared
<1> QED BY <1>2, <1>6, <1>7, <1>8, <1>9 DEF HolderInv

\* Every step takes a lease or is a move of the kind above.
LEMMA HolderSteps ==
    ASSUME HolderInv, [Next]_vars
    PROVE  \/ \E u \in Users : AcquireJoins(u) \/ AcquireLaunches(u)
           \/ /\ UNCHANGED <<pc, lease>> \/ \E u \in Users, x \in Places : Moves(u, x)
              /\ UNCHANGED <<ask, allocated, scope, dedicated>>
              /\ groups' \subseteq Groups /\ gone' \subseteq Groups
              /\ Begun' = Begun /\ groups' \cap gone' = {}
<1> DEFINE Quiet ==
        /\ UNCHANGED <<pc, lease>> \/ \E u \in Users, x \in Places : Moves(u, x)
        /\ UNCHANGED <<ask, allocated, scope, dedicated>>
        /\ groups' \subseteq Groups /\ gone' \subseteq Groups
        /\ Begun' = Begun /\ groups' \cap gone' = {}
<1>0. groups \subseteq Groups /\ gone \subseteq Groups /\ groups \cap gone = {}
  BY DEF HolderInv, HolderTypes
<1>1. ASSUME UNCHANGED <<ask, allocated, scope, dedicated, groups, gone>>,
             UNCHANGED <<pc, lease>> \/ \E u \in Users, x \in Places : Moves(u, x)
      PROVE  Quiet
  BY <1>0, <1>1 DEF Begun
<1>2. ASSUME NEW u \in Users, UserStep(u), ~AcquireJoins(u), ~AcquireLaunches(u) PROVE Quiet
  <2>1. CASE AcquireRefused(u) \/ AcquireOverloaded(u)
    <3>1. Moves(u, "done")
      BY <2>1 DEF AcquireRefused, AcquireOverloaded, Asking, Finish, Moves
    <3> QED BY <1>1, <2>1, <3>1 DEF AcquireRefused, AcquireOverloaded, Places
  <2>2. CASE AcquireRecycles(u)
    <3>1. PICK g : lease' = [lease EXCEPT ![u] = g]
      BY <2>2 DEF AcquireRecycles
    <3>2. lease'[u] = g
      BY <3>1 DEF HolderInv, HolderTypes
    <3>3. Moves(u, "recycling")
      BY <2>2, <3>1, <3>2 DEF AcquireRecycles, Moves
    <3> QED BY <1>1, <2>2, <3>3 DEF AcquireRecycles, Places
  <2>3. CASE RecycleEnds(u) \/ RecycleGivesUp(u)
    <3>1. Moves(u, "retrying") \/ Moves(u, "done")
      BY <2>3 DEF RecycleEnds, RecycleGivesUp, Finish, Moves
    <3> QED BY <1>1, <2>3, <3>1 DEF RecycleEnds, RecycleGivesUp, groupVars, poolVars, Places
  <2>4. CASE StartSucceeds(u) \/ StartFails(u)
    <3>1. Moves(u, "held") \/ Moves(u, "waiting")
      BY <2>4 DEF StartSucceeds, StartFails, Moves
    <3> QED BY <1>1, <2>4, <3>1 DEF StartSucceeds, StartFails, poolVars, Places
  <2>5. CASE SetIdle(u) \/ SetBusy(u)
    BY <1>1, <2>5 DEF SetIdle, SetBusy
  <2>6. CASE ReleaseIdle(u) \/ CloseLease(u) \/ WaitEnds(u)
    <3>1. Moves(u, "waiting") \/ Moves(u, "done")
      BY <2>6 DEF ReleaseIdle, CloseLease, WaitEnds, Finish, Moves
    <3> QED BY <1>1, <2>6, <3>1 DEF ReleaseIdle, CloseLease, WaitEnds, groupVars, poolVars, Places
  <2> QED BY <1>2, <2>1, <2>2, <2>3, <2>4, <2>5, <2>6 DEF UserStep
<1>3. ASSUME NEW g \in Groups, GroupStep(g) PROVE Quiet
  <2>1. CASE CleanUp(g)
    BY <1>0, <2>1 DEF CleanUp, userVars, groupVars, Begun
  <2>2. CASE CloseClient(g) \/ ProcessBreaks(g) \/ GroupFails(g) \/ RouterExits(g)
    BY <1>1, <2>2 DEF CloseClient, ProcessBreaks, GroupFails, RouterExits, userVars, poolVars
  <2> QED BY <1>3, <2>1, <2>2 DEF GroupStep
<1>4. CASE Prune \/ ClosePool \/ ClosePoolReturns \/ UNCHANGED vars
  BY <1>1, <1>4 DEF Prune, ClosePool, ClosePoolReturns, vars, userVars, groupVars, poolVars
<1> QED BY <1>2, <1>3, <1>4 DEF Next

LEMMA JoinKeeps ==
    ASSUME HolderInv, NEW u \in Users, AcquireJoins(u)
    PROVE  HolderInv'
<1>0. PICK n \in Prunable : \E g \in Reusable(u, Oldest(n)) : newLeaseLocked(u, g)
  BY DEF AcquireJoins
<1>1. PICK g \in Reusable(u, Oldest(n)) : newLeaseLocked(u, g)
  BY <1>0
<1>2. g \in Reusable(u, {}) /\ g \in Groups
  BY DEF Reusable, HolderInv, HolderTypes
<1> QED BY <1>1, <1>2, LeaseKeeps DEF AcquireJoins

LEMMA LaunchKeeps ==
    ASSUME HolderInv, NEW u \in Users, AcquireLaunches(u)
    PROVE  HolderInv'
<1>1. PICK g \in Groups \ Begun :
           /\ newLeaseLocked(u, g)
           /\ groups' = groups \cup {g}
           /\ scope' = [scope EXCEPT ![g] = ask[u].scope]
           /\ dedicated' = IF ask[u].prepared THEN dedicated \cup {g} ELSE dedicated
  BY DEF AcquireLaunches, Begun
<1> QED BY <1>1, LeaseKeeps DEF AcquireLaunches

LEMMA HolderNext == HolderInv /\ [Next]_vars => HolderInv'
BY HolderSteps, JoinKeeps, LaunchKeeps, MoveKeeps

----------------------------------------------------------------------------
(* Processes.                                                              *)

\* The groups of the pool, and those that left it with a process that may still run.
Slots == groups \cup {g \in gone : process[g] = "left"}

\* A process belongs to a group of the pool until it is closed; what a failed close
\* leaves behind keeps its slot, for the pool admits nothing any more.  A group that
\* is being launched has no process, and one user who launches it.
ProcessInv ==
    /\ process \in [Groups -> {"none", "up", "broken", "left"}]
    /\ router \in [Groups -> {"off", "on", "done"}]
    /\ \A g \in Groups : /\ process[g] \in {"up", "broken"} => g \in groups
                         /\ g \notin Begun => process[g] = "none" /\ router[g] = "off"
    /\ \A u \in Users : pc[u] = "starting" =>
           lease[u] \in groups /\ router[lease[u]] = "off" /\ process[lease[u]] = "none"
    /\ \A u, v \in Users : pc[u] = "starting" /\ pc[v] = "starting" /\ lease[u] = lease[v] => u = v
    /\ cleanupErr \in BOOLEAN
    /\ \A g \in gone : process[g] = "left" => cleanupErr
    /\ Cardinality(Slots) <= MaxProcesses

\* Once the pool is closed it gains no group, and Close waits for those it had.
ClosingInv ==
    /\ closing \in {"no", "waiting", "done"}
    /\ closed \in BOOLEAN /\ (closed <=> closing # "no")
    /\ closing # "no" => groups \subseteq closeSet
    /\ closing = "done" => groups = {}

\* Steps that touch no process and launch none.
LEMMA StillKeeps ==
    ASSUME HolderInv, ProcessInv, UNCHANGED <<process, router, groups, gone, cleanupErr>>,
           \A v \in Users : pc'[v] = "starting" => pc[v] = "starting" /\ lease'[v] = lease[v]
    PROVE  ProcessInv'
BY DEF ProcessInv, Begun, Slots

LEMMA MoveStill ==
    ASSUME HolderInv, NEW u \in Users, NEW x \in Places \ {"starting"},
           pc' = [pc EXCEPT ![u] = x], lease' = [lease EXCEPT ![u] = lease'[u]] \/ lease' = lease
    PROVE  \A v \in Users : pc'[v] = "starting" => pc[v] = "starting" /\ lease'[v] = lease[v]
BY DEF HolderInv, HolderTypes

\* A group enters the pool below the limit, and nothing runs in it yet.
LEMMA LaunchProcess ==
    ASSUME HolderInv, ProcessInv, NEW u \in Users, AcquireLaunches(u)
    PROVE  ProcessInv'
<1>1. PICK g \in Groups \ Begun : newLeaseLocked(u, g) /\ groups' = groups \cup {g}
  BY DEF AcquireLaunches, Begun
<1>2. /\ Cardinality(groups) < MaxProcesses /\ UNCHANGED <<process, router, gone, cleanupErr>>
      /\ pc' = [pc EXCEPT ![u] = "starting"] /\ ~cleanupErr
  BY DEF AcquireLaunches, Refused
<1>3. /\ pc'[u] = "starting" /\ lease'[u] = g
      /\ \A v \in Users \ {u} : pc'[v] = pc[v] /\ lease'[v] = lease[v]
  BY <1>1, <1>2 DEF newLeaseLocked, HolderInv, HolderTypes
<1>4. Cardinality(Slots') <= MaxProcesses
  <2>0. Slots' = groups'
    BY <1>2 DEF ProcessInv, Slots
  <2>1. IsFiniteSet(groups)
    BY NoGroupApart, FS_Subset DEF HolderInv, HolderTypes
  <2>2. Cardinality(groups') = Cardinality(groups) + 1 /\ Cardinality(groups) \in Nat
    BY <1>1, <2>1, FS_AddElement, FS_CardinalityType DEF Begun
  <2> QED BY <1>2, <2>0, <2>2, LimitAssumption
<1>5. \A v \in Users \ {u} : pc[v] = "starting" => lease[v] # g
  BY <1>1 DEF ProcessInv, Begun
<1> QED BY <1>1, <1>2, <1>3, <1>4, <1>5 DEF ProcessInv, Begun

\* The launch ends: only its own user started the group.
LEMMA StartProcess ==
    ASSUME HolderInv, ProcessInv, NEW u \in Users, StartSucceeds(u) \/ StartFails(u)
    PROVE  ProcessInv'
<1> DEFINE g == lease[u]
<1>1. /\ pc[u] = "starting" /\ lease' = lease /\ UNCHANGED <<groups, gone, cleanupErr>>
      /\ pc' = [pc EXCEPT ![u] = pc'[u]] /\ pc'[u] \in {"held", "waiting"}
      /\ process' = process \/ process' = [process EXCEPT ![g] = "up"]
      /\ \E r \in {"on", "done"} : router' = [router EXCEPT ![g] = r]
  BY DEF StartSucceeds, StartFails, poolVars, HolderInv, HolderTypes
<1>2. g \in groups /\ g \in Groups
  BY <1>1 DEF ProcessInv, HolderInv, HolderTypes
<1>3. /\ \A v \in Users \ {u} : pc'[v] = pc[v] /\ (pc[v] = "starting" => lease[v] # g)
  BY <1>1 DEF ProcessInv, HolderInv, HolderTypes
<1>4. /\ process' \in [Groups -> {"none", "up", "broken", "left"}]
      /\ router' \in [Groups -> {"off", "on", "done"}]
      /\ \A h \in Groups \ {g} : process'[h] = process[h] /\ router'[h] = router[h]
  BY <1>1, <1>2 DEF ProcessInv
<1>5. Slots' = Slots /\ \A h \in gone' : process'[h] = process[h]
  BY <1>1, <1>2, <1>4 DEF Slots, HolderInv, HolderTypes
<1> QED BY <1>1, <1>2, <1>3, <1>4, <1>5 DEF ProcessInv, Begun, HolderInv, HolderTypes

\* A process is reaped, or a group leaves, only when the launch is over.
LEMMA GroupProcess ==
    ASSUME HolderInv, ProcessInv, NEW g \in Groups, GroupStep(g)
    PROVE  ProcessInv'
<1>1. UNCHANGED <<pc, lease>>
  BY DEF GroupStep, CloseClient, CleanUp, ProcessBreaks, GroupFails, RouterExits, userVars
<1>2. CASE CloseClient(g) \/ ProcessBreaks(g)
  <2>1. /\ router[g] # "off" \/ process[g] = "up"
        /\ process[g] \in {"up", "broken"}
        /\ \E x \in {"none", "broken", "left"} : process' = [process EXCEPT ![g] = x]
        /\ UNCHANGED <<router, groups, gone, cleanupErr>>
    BY <1>2 DEF CloseClient, ProcessBreaks, poolVars
  <2>2. \A h \in Groups \ {g} : process'[h] = process[h]
    BY <2>1 DEF ProcessInv
  <2>3. \A u \in Users : pc[u] = "starting" => lease[u] # g
    BY <2>1 DEF ProcessInv
  <2>4. /\ process' \in [Groups -> {"none", "up", "broken", "left"}]
        /\ g \in groups
    BY <2>1 DEF ProcessInv
  <2>5. Slots' = Slots /\ \A h \in gone' : process'[h] = process[h]
    BY <2>1, <2>2, <2>4 DEF Slots, HolderInv, HolderTypes
  <2> QED BY <1>1, <2>1, <2>2, <2>3, <2>4, <2>5 DEF ProcessInv, Begun, HolderInv, HolderTypes
<1>3. CASE CleanUp(g)
  <2>1. /\ process[g] \in {"none", "left"} /\ router[g] = "done"
        /\ groups' = groups \ {g} /\ gone' = gone \cup {g} /\ g \in groups
        /\ UNCHANGED <<process, router>>
        /\ cleanupErr' \in {cleanupErr \/ process[g] = "left", TRUE}
    BY <1>3 DEF CleanUp, groupVars
  <2>2. Cardinality(Slots') <= MaxProcesses
    <3>1. IsFiniteSet(Slots)
      BY NoGroupApart, FS_Subset DEF HolderInv, HolderTypes, Slots
    <3>2. Slots' \subseteq Slots
      BY <2>1 DEF Slots
    <3>3. /\ Cardinality(Slots') <= Cardinality(Slots)
          /\ Cardinality(Slots) \in Nat /\ Cardinality(Slots') \in Nat
      BY <3>1, <3>2, FS_Subset, FS_CardinalityType
    <3> QED BY <3>3, LimitAssumption DEF ProcessInv
  <2>3. cleanupErr' \in BOOLEAN /\ \A h \in gone' : process'[h] = "left" => cleanupErr'
    BY <2>1 DEF ProcessInv
  <2> QED BY <1>1, <2>1, <2>2, <2>3 DEF ProcessInv, Begun
<1>4. CASE GroupFails(g)
  BY <1>1, <1>4, StillKeeps DEF GroupFails
<1>5. CASE RouterExits(g)
  <2>1. /\ router[g] = "on" /\ router' = [router EXCEPT ![g] = "done"]
        /\ UNCHANGED <<process, groups, gone, cleanupErr>>
    BY <1>5 DEF RouterExits, poolVars
  <2>2. /\ router' \in [Groups -> {"off", "on", "done"}]
        /\ \A h \in Groups \ {g} : router'[h] = router[h]
    BY <2>1 DEF ProcessInv
  <2>3. \A u \in Users : pc[u] = "starting" => lease[u] # g
    BY <2>1 DEF ProcessInv
  <2>4. g \in Begun
    BY <2>1 DEF ProcessInv
  <2> QED BY <1>1, <2>1, <2>2, <2>3, <2>4 DEF ProcessInv, Begun, Slots
<1> QED BY <1>2, <1>3, <1>4, <1>5 DEF GroupStep

LEMMA ProcessNext ==
    ASSUME HolderInv, ProcessInv, [Next]_vars
    PROVE  ProcessInv'
<1>1. ASSUME NEW u \in Users, UserStep(u) PROVE ProcessInv'
  <2>1. CASE AcquireRefused(u) \/ AcquireOverloaded(u) \/ AcquireJoins(u) \/ AcquireRecycles(u)
    <3>1. /\ \E x \in Places \ {"starting"} : pc' = [pc EXCEPT ![u] = x]
          /\ UNCHANGED <<process, router, groups, gone, cleanupErr>>
      BY <2>1 DEF AcquireRefused, AcquireOverloaded, AcquireJoins, AcquireRecycles, Finish, Places
    <3>2. \E g : lease' = lease \/ lease' = [lease EXCEPT ![u] = g]
      BY <2>1 DEF AcquireRefused, AcquireOverloaded, AcquireJoins, AcquireRecycles, newLeaseLocked
    <3>3. lease' = lease \/ lease' = [lease EXCEPT ![u] = lease'[u]]
      BY <3>2 DEF HolderInv, HolderTypes
    <3> QED BY <3>1, <3>3, MoveStill, StillKeeps
  <2>2. CASE AcquireLaunches(u)
    BY <2>2, LaunchProcess
  <2>3. CASE RecycleEnds(u) \/ RecycleGivesUp(u)
    <3>1. /\ \E x \in Places \ {"starting"} : pc' = [pc EXCEPT ![u] = x]
          /\ UNCHANGED <<process, router, groups, gone, cleanupErr>>
          /\ lease' = [lease EXCEPT ![u] = NoGroup]
      BY <2>3 DEF RecycleEnds, RecycleGivesUp, Finish, Places, groupVars, poolVars
    <3>2. lease' = [lease EXCEPT ![u] = lease'[u]]
      BY <3>1 DEF HolderInv, HolderTypes
    <3> QED BY <3>1, <3>2, MoveStill, StillKeeps
  <2>4. CASE StartSucceeds(u) \/ StartFails(u)
    BY <2>4, StartProcess
  <2>5. CASE SetIdle(u) \/ SetBusy(u)
    BY <2>5, StillKeeps DEF SetIdle, SetBusy
  <2>6. CASE ReleaseIdle(u) \/ CloseLease(u) \/ WaitEnds(u)
    <3>1. /\ \E x \in Places \ {"starting"} : pc' = [pc EXCEPT ![u] = x]
          /\ UNCHANGED <<process, router, groups, gone, cleanupErr, lease>>
      BY <2>6 DEF ReleaseIdle, CloseLease, WaitEnds, Finish, Places, groupVars, poolVars
    <3> QED BY <3>1, MoveStill, StillKeeps
  <2> QED BY <1>1, <2>1, <2>2, <2>3, <2>4, <2>5, <2>6 DEF UserStep
<1>2. ASSUME NEW g \in Groups, GroupStep(g) PROVE ProcessInv'
  BY <1>2, GroupProcess
<1>3. CASE Prune \/ ClosePool \/ ClosePoolReturns \/ UNCHANGED vars
  BY <1>3, StillKeeps DEF Prune, ClosePool, ClosePoolReturns, vars, userVars, groupVars, poolVars
<1> QED BY <1>1, <1>2, <1>3 DEF Next

\* Admission stops with the pool, so what Close waits for is all there is.
LEMMA ClosingNext ==
    ASSUME HolderInv, ClosingInv, [Next]_vars
    PROVE  ClosingInv'
<1>0. ASSUME UNCHANGED <<closing, closed, closeSet>>, groups' \subseteq groups PROVE ClosingInv'
  BY <1>0 DEF ClosingInv
<1>1. ASSUME NEW u \in Users, UserStep(u) PROVE ClosingInv'
  <2>1. CASE AcquireLaunches(u)
    BY <2>1 DEF AcquireLaunches, Refused, ClosingInv
  <2>2. CASE \/ AcquireRefused(u) \/ AcquireJoins(u) \/ AcquireRecycles(u) \/ AcquireOverloaded(u)
             \/ RecycleEnds(u) \/ RecycleGivesUp(u) \/ StartSucceeds(u) \/ StartFails(u)
    BY <1>0, <2>2 DEF AcquireRefused, AcquireJoins, AcquireRecycles, AcquireOverloaded,
                      RecycleEnds, RecycleGivesUp, StartSucceeds, StartFails, poolVars
  <2>3. CASE SetIdle(u) \/ SetBusy(u) \/ ReleaseIdle(u) \/ CloseLease(u) \/ WaitEnds(u)
    BY <1>0, <2>3 DEF SetIdle, SetBusy, ReleaseIdle, CloseLease, WaitEnds, poolVars
  <2> QED BY <1>1, <2>1, <2>2, <2>3 DEF UserStep
<1>2. ASSUME NEW g \in Groups, GroupStep(g) PROVE ClosingInv'
  BY <1>0, <1>2 DEF GroupStep, CloseClient, CleanUp, ProcessBreaks, GroupFails, RouterExits,
                    poolVars
<1>3. CASE ClosePool
  BY <1>3 DEF ClosePool, ClosingInv
<1>4. CASE ClosePoolReturns
  BY <1>4 DEF ClosePoolReturns, ClosingInv, HolderInv
<1>5. CASE Prune \/ UNCHANGED vars
  BY <1>0, <1>5 DEF Prune, vars, poolVars
<1> QED BY <1>1, <1>2, <1>3, <1>4, <1>5 DEF Next

----------------------------------------------------------------------------
(* The end of a lease.                                                     *)

\* A lease is told of the end of its group exactly while it is among its leases,
\* and a lease that ended is not handed out.
TellInv ==
    /\ leases \in [Groups -> SUBSET Users]
    /\ gerr \in [Groups -> {"nil", "closed", "failed"}]
    /\ ended \subseteq Users
    /\ \A u \in Users : pc[u] \in {"outside", "retrying", "recycling"} => u \notin ended
    /\ \A g \in Groups :
           /\ leases[g] \subseteq Holders(g)
           /\ g \notin Begun => gerr[g] = "nil"
           /\ gerr[g] = "nil" => leases[g] \cap ended = {}
           /\ gerr[g] # "nil" => leases[g] \subseteq ended

\* Nobody is a lease of two groups, and whoever asks is a lease of none.
LEMMA LeasesApart ==
    ASSUME HolderInv, TellInv, NEW u \in Users, NEW g \in Groups, u \in leases[g]
    PROVE  /\ pc[u] \notin {"outside", "retrying", "recycling"}
           /\ \A h \in Groups : u \in leases[h] => h = g
BY NoGroupApart DEF TellInv, Holders, HolderInv, LeaseOf

\* Retirement tells the leases of the groups it retires, and no other.
LEMMA RetireTells ==
    ASSUME HolderInv, TellInv, NEW S, NEW reason \in {"closed", "failed"}, retireLocked(S, reason)
    PROVE  /\ gerr' \in [Groups -> {"nil", "closed", "failed"}]
           /\ ended' \subseteq Users
           /\ \A u \in Users : pc[u] \in {"outside", "retrying", "recycling"} => u \notin ended'
           /\ \A g \in Groups :
                  /\ g \notin S \/ g \notin groups => gerr'[g] = gerr[g]
                  /\ gerr'[g] = "nil" => leases[g] \cap ended' = {}
                  /\ gerr'[g] # "nil" => leases[g] \subseteq ended'
<1>1. /\ gerr' = [g \in Groups |-> IF g \in Live(S) THEN reason ELSE gerr[g]]
      /\ ended' = ended \cup UNION {leases[g] : g \in Live(S)}
      /\ Live(S) \subseteq Groups
  BY DEF retireLocked, Live, HolderInv, HolderTypes
<1>2. \A u \in Users : u \in ended' <=> u \in ended \/ \E g \in Live(S) : u \in leases[g]
  BY <1>1
<1>3. gerr' \in [Groups -> {"nil", "closed", "failed"}] /\ ended' \subseteq Users
  BY <1>1 DEF TellInv
<1>4. \A u \in Users : pc[u] \in {"outside", "retrying", "recycling"} => u \notin ended'
  BY <1>1, <1>2, LeasesApart DEF TellInv
<1>5. ASSUME NEW g \in Groups
      PROVE  /\ g \notin S \/ g \notin groups => gerr'[g] = gerr[g]
             /\ gerr'[g] = "nil" => leases[g] \cap ended' = {}
             /\ gerr'[g] # "nil" => leases[g] \subseteq ended'
  <2>1. leases[g] \subseteq Users
    BY DEF TellInv
  <2>2. CASE g \in Live(S)
    BY <1>1, <1>2, <2>1, <2>2 DEF Live
  <2>3. CASE g \notin Live(S)
    <3>1. gerr'[g] = gerr[g]
      BY <1>1, <2>3
    <3>2. ASSUME NEW u \in leases[g], NEW h \in Live(S), u \in leases[h] PROVE FALSE
      BY <1>1, <2>1, <2>3, <3>2, LeasesApart
    <3> QED BY <1>1, <1>2, <2>1, <3>1, <3>2 DEF TellInv
  <2> QED BY <2>2, <2>3
<1> QED BY <1>3, <1>4, <1>5

\* Steps that retire some groups, or none, and move a user or none.
LEMMA TellKeeps ==
    ASSUME HolderInv, TellInv,
           UNCHANGED <<gerr, ended>> \/
               \E S : \E reason \in {"closed", "failed"} : retireLocked(S, reason),
           UNCHANGED leases,
           UNCHANGED <<pc, lease>> \/ \E u \in Users, x \in Places : Moves(u, x),
           Begun \subseteq Begun'
    PROVE  TellInv'
<1>1. \A g \in Groups : Holders(g)' = Holders(g)
  BY SameHolders
<1>2. \A u \in Users : pc'[u] \in {"outside", "retrying", "recycling"} =>
                           pc[u] \in {"outside", "retrying", "recycling"}
  BY DEF Moves, HolderInv, HolderTypes
<1>3. CASE UNCHANGED <<gerr, ended>>
  BY <1>1, <1>2, <1>3 DEF TellInv
<1>4. ASSUME NEW S, NEW reason \in {"closed", "failed"}, retireLocked(S, reason) PROVE TellInv'
  <2>1. \A g \in Groups : g \notin Begun' => gerr'[g] = "nil"
    BY <1>4, RetireTells DEF TellInv, Begun
  <2> QED BY <1>1, <1>2, <1>4, <2>1, RetireTells DEF TellInv
<1> QED BY <1>3, <1>4

\* A new lease joins a live group, which this step does not retire.
LEMMA LeaseTells ==
    ASSUME HolderInv, TellInv, NEW u \in Users, NEW g \in Groups, Asking(u), newLeaseLocked(u, g),
           NEW x \in {"held", "starting"}, pc' = [pc EXCEPT ![u] = x],
           NEW S, retireLocked(S, "closed"), gerr[g] = "nil", g \notin S \/ g \notin groups,
           Begun' = Begun \cup {g}
    PROVE  TellInv'
<1>1. /\ lease[u] = NoGroup /\ pc'[u] = x /\ lease'[u] = g
      /\ \A v \in Users \ {u} : pc'[v] = pc[v] /\ lease'[v] = lease[v]
  BY DEF Asking, newLeaseLocked, HolderInv, HolderTypes, LeaseOf
<1>2. /\ leases' \in [Groups -> SUBSET Users] /\ leases'[g] = leases[g] \cup {u}
      /\ \A h \in Groups \ {g} : leases'[h] = leases[h]
  BY DEF newLeaseLocked, TellInv
<1>3. /\ Holders(g)' = Holders(g) \cup {u}
      /\ \A h \in Groups \ {g} : Holders(h)' = Holders(h)
  BY <1>1, NoGroupApart DEF Holders
<1>4. /\ gerr' \in [Groups -> {"nil", "closed", "failed"}] /\ ended' \subseteq Users
      /\ u \notin ended' /\ gerr'[g] = "nil"
      /\ \A v \in Users : pc[v] \in {"outside", "retrying", "recycling"} => v \notin ended'
      /\ \A h \in Groups : /\ h \notin groups => gerr'[h] = gerr[h]
                           /\ gerr'[h] = "nil" => leases[h] \cap ended' = {}
                           /\ gerr'[h] # "nil" => leases[h] \subseteq ended'
  BY RetireTells DEF Asking
<1>5. \A v \in Users : pc'[v] \in {"outside", "retrying", "recycling"} => v \notin ended'
  BY <1>1, <1>4
<1>6. ASSUME NEW h \in Groups
      PROVE  /\ leases'[h] \subseteq Holders(h)'
             /\ h \notin Begun' => gerr'[h] = "nil"
             /\ gerr'[h] = "nil" => leases'[h] \cap ended' = {}
             /\ gerr'[h] # "nil" => leases'[h] \subseteq ended'
  <2>1. h \notin Begun' => gerr'[h] = "nil"
    BY <1>4 DEF TellInv, Begun
  <2>2. CASE h = g
    BY <1>2, <1>3, <1>4, <2>1, <2>2 DEF TellInv
  <2>3. CASE h # g
    BY <1>2, <1>3, <1>4, <2>1, <2>3 DEF TellInv
  <2> QED BY <2>2, <2>3
<1> QED BY <1>2, <1>4, <1>5, <1>6 DEF TellInv

\* The lease that is released leaves its group and is told; the group it takes
\* along has no other.
LEMMA ReleaseTells ==
    ASSUME HolderInv, TellInv, NEW u \in Users, ReleaseIdle(u)
    PROVE  TellInv'
<1> DEFINE g == lease[u]
<1>1. /\ pc[u] = "held" /\ pc' = [pc EXCEPT ![u] = pc'[u]] /\ pc'[u] \in {"waiting", "done"}
      /\ lease' = lease /\ UNCHANGED <<groups, gone>>
      /\ leases' = [leases EXCEPT ![g] = @ \ {u}]
      /\ ended' = ended \cup {u}
      /\ \/ gerr' = gerr
         \/ /\ gerr[g] = "nil" /\ leases[g] = {u}
            /\ gerr' = [gerr EXCEPT ![g] = "closed"]
  BY DEF ReleaseIdle, TellInv, HolderInv, HolderTypes
<1>2. g \in Begun /\ g \in Groups
  BY <1>1 DEF HolderInv, HolderTypes, LeaseOf, Begun
<1>3. \A v \in Users \ {u} : pc'[v] = pc[v]
  BY <1>1 DEF HolderInv, HolderTypes
<1>4. \A h \in Groups : Holders(h)' = Holders(h)
  BY <1>1, <1>3 DEF Holders
<1>5. \A h \in Groups \ {g} : u \notin leases[h] /\ leases'[h] = leases[h] /\ gerr'[h] = gerr[h]
  BY <1>1, <1>2 DEF TellInv, Holders
<1>6. /\ leases' \in [Groups -> SUBSET Users] /\ leases'[g] = leases[g] \ {u}
      /\ gerr' \in [Groups -> {"nil", "closed", "failed"}]
      /\ gerr'[g] = gerr[g] \/ (gerr[g] = "nil" /\ gerr'[g] = "closed" /\ leases'[g] = {})
      /\ ended' \subseteq Users
  BY <1>1, <1>2 DEF TellInv
<1>7. \A v \in Users : pc'[v] \in {"outside", "retrying", "recycling"} => v \notin ended'
  BY <1>1, <1>3 DEF TellInv
<1>8. ASSUME NEW h \in Groups
      PROVE  /\ leases'[h] \subseteq Holders(h)'
             /\ h \notin Begun' => gerr'[h] = "nil"
             /\ gerr'[h] = "nil" => leases'[h] \cap ended' = {}
             /\ gerr'[h] # "nil" => leases'[h] \subseteq ended'
  <2>1. CASE h = g
    BY <1>1, <1>2, <1>4, <1>6, <2>1 DEF TellInv, Begun
  <2>2. CASE h # g
    BY <1>1, <1>4, <1>5, <2>2 DEF TellInv, Begun
  <2> QED BY <2>1, <2>2
<1> QED BY <1>6, <1>7, <1>8 DEF TellInv

LEMMA TellNext ==
    ASSUME HolderInv, TellInv, [Next]_vars
    PROVE  TellInv'
<1>0. CASE /\ \A u \in Users : ~AcquireJoins(u) /\ ~AcquireLaunches(u) /\ ~ReleaseIdle(u)
           /\ \A g \in Groups : ~CleanUp(g)
  <2>1. /\ UNCHANGED <<pc, lease>> \/ \E u \in Users, x \in Places : Moves(u, x)
        /\ Begun \subseteq Begun'
    BY <1>0, HolderSteps
  <2>2. /\ UNCHANGED leases
        /\ UNCHANGED <<gerr, ended>> \/
               \E S : \E reason \in {"closed", "failed"} : retireLocked(S, reason)
    <3>1. ASSUME NEW u \in Users, UserStep(u)
          PROVE  /\ UNCHANGED leases
                 /\ UNCHANGED <<gerr, ended>> \/
                        \E S : \E reason \in {"closed", "failed"} : retireLocked(S, reason)
      <4>1. CASE AcquireRefused(u) \/ AcquireRecycles(u) \/ AcquireOverloaded(u)
        BY <4>1 DEF AcquireRefused, AcquireRecycles, AcquireOverloaded
      <4>2. CASE \/ RecycleEnds(u) \/ RecycleGivesUp(u) \/ StartSucceeds(u) \/ StartFails(u)
        BY <4>2 DEF RecycleEnds, RecycleGivesUp, StartSucceeds, StartFails, groupVars
      <4>3. CASE SetIdle(u) \/ SetBusy(u) \/ CloseLease(u) \/ WaitEnds(u)
        BY <4>3 DEF SetIdle, SetBusy, CloseLease, WaitEnds, groupVars
      <4> QED BY <1>0, <3>1, <4>1, <4>2, <4>3 DEF UserStep
    <3>2. ASSUME NEW g \in Groups, GroupStep(g)
          PROVE  /\ UNCHANGED leases
                 /\ UNCHANGED <<gerr, ended>> \/
                        \E S : \E reason \in {"closed", "failed"} : retireLocked(S, reason)
      BY <1>0, <3>2 DEF GroupStep, CloseClient, ProcessBreaks, GroupFails, RouterExits,
                        userVars, groupVars
    <3>3. CASE Prune \/ ClosePool \/ ClosePoolReturns \/ UNCHANGED vars
      BY <3>3 DEF Prune, ClosePool, ClosePoolReturns, vars, userVars, groupVars
    <3> QED BY <3>1, <3>2, <3>3 DEF Next
  <2> QED BY <2>1, <2>2, TellKeeps
<1>1. ASSUME NEW u \in Users, AcquireJoins(u) PROVE TellInv'
  <2>0. PICK n \in Prunable : \E g \in Reusable(u, Oldest(n)) :
             retireLocked(Oldest(n), "closed") /\ newLeaseLocked(u, g)
    BY <1>1 DEF AcquireJoins
  <2>1. PICK g \in Reusable(u, Oldest(n)) :
             retireLocked(Oldest(n), "closed") /\ newLeaseLocked(u, g)
    BY <2>0
  <2>2. /\ g \in groups /\ g \in Groups /\ gerr[g] = "nil" /\ g \notin Oldest(n)
    BY DEF Reusable, HolderInv, HolderTypes
  <2>3. Begun' = Begun \cup {g}
    BY <1>1, <2>2 DEF AcquireJoins, Begun
  <2> QED BY <1>1, <2>1, <2>2, <2>3, LeaseTells DEF AcquireJoins
<1>2. ASSUME NEW u \in Users, AcquireLaunches(u) PROVE TellInv'
  <2>0. PICK n \in Prunable : \E g \in Groups \ Begun :
             /\ retireLocked(Oldest(n), "closed") /\ newLeaseLocked(u, g)
             /\ groups' = groups \cup {g}
    BY <1>2 DEF AcquireLaunches, Begun
  <2>1. PICK g \in Groups \ Begun :
             /\ retireLocked(Oldest(n), "closed") /\ newLeaseLocked(u, g)
             /\ groups' = groups \cup {g}
    BY <2>0
  <2>2. gerr[g] = "nil" /\ g \notin groups
    BY <2>1 DEF TellInv, Begun
  <2>3. Begun' = Begun \cup {g}
    BY <1>2, <2>1 DEF AcquireLaunches, Begun
  <2> QED BY <1>2, <2>1, <2>2, <2>3, LeaseTells DEF AcquireLaunches
<1>3. ASSUME NEW g \in Groups, CleanUp(g) PROVE TellInv'
  <2>1. /\ UNCHANGED <<pc, lease, leases, ended>> /\ Begun' = Begun
        /\ gerr[g] # "nil" /\ gerr' = [gerr EXCEPT ![g] = "closed"]
    BY <1>3 DEF CleanUp, userVars, Begun
  <2>2. \A h \in Groups : Holders(h)' = Holders(h)
    BY <2>1 DEF Holders
  <2> QED BY <2>1, <2>2 DEF TellInv
<1> QED BY <1>0, <1>1, <1>2, <1>3, ReleaseTells

----------------------------------------------------------------------------
(* The idle order.                                                         *)

\* A set with 0 and, up to n, the successor of each of its numbers.
LEMMA SetInduction ==
    ASSUME NEW n \in Nat, NEW S, 0 \in S, \A k \in 1..n : k - 1 \in S => k \in S
    PROVE  0..n \subseteq S
<1> DEFINE bad == {k \in 0..n : k \notin S}
<1>1. SUFFICES ASSUME bad # {} PROVE FALSE
  OBVIOUS
<1>2. PICK k \in bad : \A j \in bad : <<j, k>> \notin OpToRel(<, Nat)
  <2>1. bad \subseteq Nat
    OBVIOUS
  <2> QED BY <1>1, <2>1, WFMin, NatLessThanWellFounded
<1>3. k \in 1..n /\ k - 1 \in 0..n /\ k - 1 \in Nat
  OBVIOUS
<1>4. <<k - 1, k>> \in OpToRel(<, Nat)
  BY <1>3 DEF OpToRel
<1>5. k - 1 \notin bad
  BY <1>2, <1>4
<1> QED BY <1>3, <1>5

\* What a sequence holds when an element was appended.
LEMMA AppendRange ==
    ASSUME NEW s \in Seq(Groups), NEW e \in Groups
    PROVE  Append(s, e) \in Seq(Groups) /\ Range(Append(s, e)) = Range(s) \cup {e}
<1>1. /\ Append(s, e) \in Seq(Groups) /\ Len(Append(s, e)) = Len(s) + 1 /\ Len(s) \in Nat
      /\ \A i \in 1..Len(s) : Append(s, e)[i] = s[i]
      /\ Append(s, e)[Len(s) + 1] = e
  BY AppendProperties, LenProperties
<1>2. Range(s) = {s[i] : i \in 1..Len(s)}
  BY LenProperties DEF Range
<1>3. Range(Append(s, e)) = {Append(s, e)[i] : i \in 1..(Len(s) + 1)}
  BY <1>1, LenProperties DEF Range
<1>4. ASSUME NEW x PROVE x \in Range(Append(s, e)) <=> x \in Range(s) \cup {e}
  <2>1. ASSUME x \in Range(Append(s, e)) PROVE x \in Range(s) \cup {e}
    BY <1>1, <1>2, <1>3, <2>1
  <2>2. ASSUME x \in Range(s) \cup {e} PROVE x \in Range(Append(s, e))
    <3>1. CASE x = e
      BY <1>1, <1>3, <3>1
    <3>2. CASE x \in Range(s)
      <4>1. PICK i \in 1..Len(s) : x = s[i]
        BY <1>2, <3>2
      <4>2. i \in 1..(Len(s) + 1)
        BY <1>1
      <4> QED BY <1>1, <1>3, <4>1, <4>2
    <3> QED BY <2>2, <3>1, <3>2
  <2> QED BY <2>1, <2>2
<1> QED BY <1>1, <1>4

\* A part of a sequence holds nothing that the sequence does not.
LEMMA CutWithin ==
    ASSUME NEW s \in Seq(Groups), NEW n \in Nat
    PROVE  SubSeq(s, n + 1, Len(s)) \in Seq(Groups) /\ Range(SubSeq(s, n + 1, Len(s))) \subseteq Range(s)
<1> DEFINE r == SubSeq(s, n + 1, Len(s))
<1>0. Len(s) \in Nat /\ DOMAIN s = 1..Len(s)
  BY LenProperties
<1>1. r \in Seq(Groups) /\ DOMAIN r = 1..Len(r) /\ Len(r) \in Nat
      /\ Len(r) = (IF n + 1 <= Len(s) THEN Len(s) - n ELSE 0)
      /\ \A i \in 1..Len(r) : r[i] = s[n + i]
  <2>1. \A i \in (n + 1)..Len(s) : s[i] \in Groups
    BY <1>0, ElementOfSeq
  <2>2. /\ r \in Seq(Groups)
        /\ Len(r) = IF n + 1 <= Len(s) THEN Len(s) - (n + 1) + 1 ELSE 0
        /\ \A i \in 1..(Len(s) - (n + 1) + 1) : r[i] = s[(n + 1) + i - 1]
    <3>1. n + 1 \in Int /\ Len(s) \in Int
      BY <1>0
    <3> QED BY <2>1, <3>1, SubSeqProperties
  <2>3. DOMAIN r = 1..Len(r) /\ Len(r) \in Nat
    BY <2>2, LenProperties
  <2> HIDE DEF r
  <2>4. Len(r) = IF n + 1 <= Len(s) THEN Len(s) - n ELSE 0
    <3>1. Len(s) - (n + 1) + 1 = Len(s) - n
      BY <1>0
    <3> QED BY <2>2, <3>1
  <2>5. ASSUME NEW i \in 1..Len(r) PROVE r[i] = s[n + i]
    <3>1. i \in Nat /\ i >= 1 /\ i <= Len(r) /\ Len(r) # 0
      BY <2>3
    <3>2. Len(r) = Len(s) - n
      BY <2>4, <3>1
    <3>3. i \in 1..(Len(s) - (n + 1) + 1) /\ (n + 1) + i - 1 = n + i
      <4>1. \A l \in Nat : i <= l - n => i <= l - (n + 1) + 1
        BY <3>1
      <4>2. i <= Len(s) - (n + 1) + 1
        BY <1>0, <3>1, <3>2, <4>1
      <4>3. (n + 1) + i - 1 = n + i
        BY <3>1
      <4>4. Len(s) - (n + 1) + 1 \in Int
        BY <1>0
      <4> QED BY <3>1, <4>2, <4>3, <4>4
    <3> QED BY <2>2, <3>3
  <2> QED BY <2>2, <2>3, <2>4, <2>5
<1> HIDE DEF r
<1>2. ASSUME NEW i \in 1..Len(r) PROVE n + i \in 1..Len(s)
  <2>1. CASE n + 1 <= Len(s)
    <3>1. Len(r) = Len(s) - n
      BY <1>1, <2>1
    <3> QED BY <1>0, <3>1
  <2>2. CASE ~(n + 1 <= Len(s))
    <3>1. Len(r) = 0
      BY <1>1, <2>2
    <3> QED BY <3>1
  <2> QED BY <2>1, <2>2
<1> QED BY <1>0, <1>1, <1>2 DEF Range, r

\* Without drops S and adds nothing: its recursion is well defined for every length.
LEMMA WithoutKeeps ==
    ASSUME idle \in Seq(Groups), NEW S
    PROVE  Without(S) \in Seq(Groups) /\ Range(Without(S)) \subseteq Range(idle) \ S
<1> DEFINE N == Len(idle)
           Step(f, i) == IF i = 0 THEN <<>>
                         ELSE IF idle[i] \in S THEN f[i - 1] ELSE Append(f[i - 1], idle[i])
           kept == CHOOSE f : f = [i \in 0..N |-> Step(f, i)]
           Part(n) == {f \in [0..n -> Seq(Groups)] : \A i \in 0..n : f[i] = Step(f, i)}
           Good == {n \in Nat : \E f \in Part(n) : TRUE}
<1>0. N \in Nat /\ \A i \in 1..N : idle[i] \in Groups /\ idle[i] \in Range(idle)
  BY LenProperties, ElementOfSeq DEF Range
<1>1. Without(S) = kept[N]
  BY DEF Without
<1>2. 0 \in Good
  <2>1. [i \in 0..0 |-> <<>>] \in Part(0)
    OBVIOUS
  <2> HIDE DEF Part
  <2> QED BY <2>1
<1>3. ASSUME NEW n \in 1..N, n - 1 \in Good PROVE n \in Good
  <2>1. PICK f \in Part(n - 1) : TRUE
    BY <1>3
  <2> DEFINE g == [i \in 0..n |-> IF i = n THEN Step(f, n) ELSE f[i]]
  <2>2. n \in Nat \ {0} /\ n - 1 \in 0..(n - 1) /\ 0..n = 0..(n - 1) \cup {n}
    BY <1>0
  <2>3. f[n - 1] \in Seq(Groups)
    BY <2>1, <2>2
  <2>4. Step(f, n) \in Seq(Groups)
    BY <1>0, <2>2, <2>3, AppendProperties
  <2>5. g \in [0..n -> Seq(Groups)]
    BY <2>1, <2>2, <2>4
  <2>6. ASSUME NEW i \in 0..n PROVE g[i] = Step(g, i)
    <3>1. CASE i = n
      BY <2>2, <3>1
    <3>2. CASE i # n
      <4>1. i \in 0..(n - 1) /\ (i # 0 => i - 1 \in 0..(n - 1) /\ i - 1 # n /\ i - 1 \in 0..n)
        BY <2>2, <3>2
      <4>2. f[i] = Step(f, i)
        BY <2>1, <4>1
      <4> QED BY <3>2, <4>1, <4>2
    <3> QED BY <3>1, <3>2
  <2>7. g \in Part(n)
    BY <2>5, <2>6
  <2> HIDE DEF Part, g
  <2> QED BY <2>2, <2>7
<1>4. N \in Good
  <2> HIDE DEF Good, N
  <2>1. 0..N \subseteq Good
    BY <1>0, <1>2, <1>3, SetInduction
  <2> QED BY <1>0, <2>1
<1>5. kept = [i \in 0..N |-> Step(kept, i)]
  <2>1. PICK f \in Part(N) : TRUE
    BY <1>4
  <2>2. f = [i \in 0..N |-> Step(f, i)]
    BY <2>1
  <2> HIDE DEF Step, N
  <2> QED BY <2>2
<1> DEFINE Fine == {n \in 0..N : kept[n] \in Seq(Groups) /\ Range(kept[n]) \subseteq Range(idle) \ S}
<1> HIDE DEF kept
<1>6. 0 \in Fine
  <2>1. kept[0] = <<>>
    BY <1>0, <1>5
  <2>2. Range(kept[0]) = {} /\ kept[0] \in Seq(Groups)
    BY <2>1, EmptySeq DEF Range
  <2> QED BY <1>0, <2>2
<1>7. ASSUME NEW n \in 1..N, n - 1 \in Fine PROVE n \in Fine
  <2>1. kept[n] = IF idle[n] \in S THEN kept[n - 1] ELSE Append(kept[n - 1], idle[n])
    <3>1. n \in 0..N /\ n # 0
      BY <1>0
    <3> HIDE DEF N
    <3> QED BY <1>5, <3>1
  <2>2. CASE idle[n] \in S
    BY <1>0, <1>7, <2>1, <2>2
  <2>3. CASE idle[n] \notin S
    <3>1. kept[n] = Append(kept[n - 1], idle[n]) /\ kept[n - 1] \in Seq(Groups)
      BY <1>7, <2>1, <2>3
    <3>2. kept[n] \in Seq(Groups) /\ Range(kept[n]) = Range(kept[n - 1]) \cup {idle[n]}
      BY <1>0, <3>1, AppendRange
    <3> QED BY <1>0, <1>7, <2>3, <3>2
  <2> QED BY <2>2, <2>3
<1>8. N \in Fine
  <2> HIDE DEF Fine, N
  <2>1. 0..N \subseteq Fine
    BY <1>0, <1>6, <1>7, SetInduction
  <2> QED BY <1>0, <2>1
<1> QED BY <1>1, <1>8

\* The leases in use count what busy counts, as long as the group is alive, and a group in the idle
\* order has none of them.
InUse(g) == {u \in leases[g] : ~idleLease[u]}

IdleInv ==
    /\ idleLease \in [Users -> BOOLEAN] /\ busy \in [Groups -> Int] /\ idle \in Seq(Groups)
    /\ \A u \in Users : /\ pc[u] \in {"outside", "retrying", "recycling"} => ~idleLease[u]
                        /\ pc[u] \in {"starting", "held"} => u \in leases[lease[u]]
    /\ \A g \in Groups : gerr[g] = "nil" => busy[g] = Cardinality(InUse(g))
    /\ \A g \in IdleSet : g \in Begun /\ InUse(g) = {}

LEMMA InUseFinite ==
    ASSUME TellInv, NEW g \in Groups
    PROVE  IsFiniteSet(InUse(g)) /\ Cardinality(InUse(g)) \in Nat
BY NoGroupApart, FS_Subset, FS_CardinalityType DEF TellInv, InUse

\* What pruning looks at is in the idle order.
LEMMA OldestIdle ==
    ASSUME IdleInv, NEW n \in 0..Len(idle)
    PROVE  Oldest(n) \subseteq IdleSet
<1>1. DOMAIN idle = 1..Len(idle) /\ Len(idle) \in Nat
  BY LenProperties DEF IdleInv
<1> QED BY <1>1 DEF Oldest, IdleSet, Range

\* Retirement does not bring a group back.
LEMMA RetireLasts ==
    ASSUME NEW S, NEW reason \in {"closed", "failed"}, retireLocked(S, reason), NEW g \in Groups
    PROVE  (gerr'[g] = "nil" => gerr[g] = "nil")
           /\ (gerr[g] = "nil" /\ gerr'[g] # "nil" => g \in S /\ gerr'[g] = reason)
BY DEF retireLocked, Live

\* Steps that change no lease: they take groups out of the idle order, or none.
LEMMA IdleShrinks ==
    ASSUME IdleInv, UNCHANGED <<leases, busy, idleLease>>,
           \A g \in Groups : gerr'[g] = "nil" => gerr[g] = "nil",
           idle' \in Seq(Groups), Range(idle') \subseteq Range(idle), Begun \subseteq Begun',
           \A u \in Users :
               /\ pc'[u] \in {"outside", "retrying", "recycling"} => pc[u] \in {"outside", "retrying", "recycling"}
               /\ pc'[u] \in {"starting", "held"} => pc[u] \in {"starting", "held"} /\ lease'[u] = lease[u]
    PROVE  IdleInv'
<1>1. \A g : InUse(g)' = InUse(g)
  BY DEF InUse
<1> QED BY <1>1 DEF IdleInv, IdleSet

\* A new lease is in use, and its group leaves the idle order.
LEMMA LeaseInUse ==
    ASSUME HolderInv, TellInv, IdleInv, NEW u \in Users, NEW g \in Groups, Asking(u), newLeaseLocked(u, g),
           NEW x \in {"held", "starting"}, pc' = [pc EXCEPT ![u] = x],
           \A h \in Groups : gerr'[h] = "nil" => gerr[h] = "nil",
           gerr[g] = "nil", UNCHANGED idleLease,
           idle' \in Seq(Groups), Range(idle') \subseteq Range(idle) \ {g}, Begun \subseteq Begun'
    PROVE  IdleInv'
<1>1. /\ pc'[u] = x /\ lease'[u] = g /\ \A v \in Users \ {u} : pc'[v] = pc[v] /\ lease'[v] = lease[v]
      /\ pc[u] \in {"outside", "retrying"}
  BY DEF Asking, newLeaseLocked, HolderInv, HolderTypes
<1>2. /\ leases' \in [Groups -> SUBSET Users] /\ leases'[g] = leases[g] \cup {u}
      /\ \A h \in Groups \ {g} : leases'[h] = leases[h]
      /\ busy' \in [Groups -> Int] /\ busy'[g] = busy[g] + 1
      /\ \A h \in Groups \ {g} : busy'[h] = busy[h]
  BY DEF newLeaseLocked, TellInv, IdleInv
<1>3. u \notin leases[g] /\ ~idleLease[u]
  BY <1>1, LeasesApart DEF IdleInv
<1>4. InUse(g)' = InUse(g) \cup {u} /\ u \notin InUse(g)
  BY <1>2, <1>3 DEF InUse
<1>5. \A h \in Groups \ {g} : InUse(h)' = InUse(h)
  BY <1>2 DEF InUse
<1>6. Cardinality(InUse(g)') = Cardinality(InUse(g)) + 1
  BY <1>4, InUseFinite, FS_AddElement
<1>7. \A h \in Groups : gerr'[h] = "nil" => busy'[h] = Cardinality(InUse(h)')
  BY <1>2, <1>5, <1>6 DEF IdleInv
<1>8. \A v \in Users : /\ pc'[v] \in {"outside", "retrying", "recycling"} => ~idleLease'[v]
                       /\ pc'[v] \in {"starting", "held"} => v \in leases'[lease'[v]]
  <2>1. \A v \in Users : pc[v] \in {"starting", "held"} => lease[v] \in Groups
    BY DEF HolderInv, HolderTypes, LeaseOf, Begun
  <2>2. ASSUME NEW v \in Users \ {u}, pc'[v] \in {"starting", "held"} PROVE v \in leases'[lease'[v]]
    <3>1. lease'[v] = lease[v] /\ lease[v] \in Groups /\ v \in leases[lease[v]]
      BY <1>1, <2>1, <2>2 DEF IdleInv
    <3> QED BY <1>2, <3>1
  <2>3. \A v \in Users \ {u} : pc'[v] \in {"outside", "retrying", "recycling"} => ~idleLease'[v]
    BY <1>1 DEF IdleInv
  <2>4. pc'[u] = x /\ u \in leases'[lease'[u]]
    BY <1>1, <1>2
  <2> QED BY <2>2, <2>3, <2>4
<1>9. ASSUME NEW h \in IdleSet' PROVE h \in Begun' /\ InUse(h)' = {}
  <2>1. h \in IdleSet /\ h # g
    BY <1>9 DEF IdleSet
  <2>2. h \in Begun /\ InUse(h) = {} /\ h \in Groups
    BY <2>1 DEF IdleInv, HolderInv, HolderTypes, Begun
  <2> QED BY <1>5, <2>1, <2>2
<1> QED BY <1>2, <1>7, <1>8, <1>9 DEF IdleInv

\* A lease is marked idle or in use.  Its group enters the idle order with its last lease in use, and
\* leaves it with the first.
LEMMA MarkKeeps ==
    ASSUME HolderInv, TellInv, IdleInv, NEW u \in Users, SetIdle(u) \/ SetBusy(u)
    PROVE  IdleInv'
<1> DEFINE g == lease[u]
<1>1. /\ pc[u] = "held" /\ gerr[g] = "nil" /\ UNCHANGED <<pc, lease, leases, groups, gone>>
      /\ idleLease' = [idleLease EXCEPT ![u] = ~idleLease[u]]
      /\ busy' = [busy EXCEPT ![g] = IF idleLease[u] THEN @ + 1 ELSE @ - 1]
      /\ \E S : retireLocked(S, "closed")
  BY DEF SetIdle, SetBusy, Usable, IdleInv
<1>2. g \in Groups /\ g \in Begun /\ u \in leases[g]
  BY <1>1 DEF HolderInv, HolderTypes, LeaseOf, Begun, IdleInv
<1>3. /\ idleLease' \in [Users -> BOOLEAN] /\ busy' \in [Groups -> Int]
      /\ \A h \in Groups \ {g} : busy'[h] = busy[h]
      /\ idleLease'[u] = ~idleLease[u] /\ \A v \in Users \ {u} : idleLease'[v] = idleLease[v]
  BY <1>1, <1>2 DEF IdleInv
<1>4. \A h \in Groups \ {g} : InUse(h)' = InUse(h)
  BY <1>1, <1>2, <1>3, LeasesApart DEF InUse, TellInv
<1>5. InUse(g)' = IF idleLease[u] THEN InUse(g) \cup {u} ELSE InUse(g) \ {u}
  <2>1. leases' = leases /\ leases[g] \subseteq Users
    BY <1>1, <1>2 DEF TellInv
  <2>2. CASE idleLease[u]
    <3>1. ~idleLease'[u]
      BY <1>3, <2>2
    <3>2. ASSUME NEW v \in leases[g] PROVE ~idleLease'[v] <=> ~idleLease[v] \/ v = u
      BY <1>3, <2>1, <3>1
    <3> QED BY <1>1, <1>2, <2>1, <2>2, <3>2 DEF InUse
  <2>3. CASE ~idleLease[u]
    <3>1. idleLease'[u]
      BY <1>3, <2>3
    <3>2. ASSUME NEW v \in leases[g] PROVE ~idleLease'[v] <=> ~idleLease[v] /\ v # u
      BY <1>3, <2>1, <3>1
    <3> QED BY <1>1, <1>2, <2>1, <2>3, <3>2 DEF InUse
  <2> QED BY <2>2, <2>3
<1>6. u \in InUse(g) <=> ~idleLease[u]
  BY <1>2 DEF InUse
<1>7. busy'[g] = Cardinality(InUse(g)') /\ busy[g] = Cardinality(InUse(g))
  <2>1. busy[g] = Cardinality(InUse(g)) /\ IsFiniteSet(InUse(g)) /\ Cardinality(InUse(g)) \in Nat
    BY <1>1, <1>2, InUseFinite DEF IdleInv
  <2>2. CASE idleLease[u]
    <3>1. Cardinality(InUse(g) \cup {u}) = Cardinality(InUse(g)) + 1
      BY <1>6, <2>1, <2>2, FS_AddElement
    <3> QED BY <1>1, <1>2, <1>5, <2>1, <2>2, <3>1 DEF IdleInv
  <2>3. CASE ~idleLease[u]
    <3>1. Cardinality(InUse(g) \ {u}) = Cardinality(InUse(g)) - 1
      BY <1>6, <2>1, <2>3, FS_RemoveElement
    <3> QED BY <1>1, <1>2, <1>5, <2>1, <2>3, <3>1 DEF IdleInv
  <2> QED BY <1>3, <2>2, <2>3 DEF IdleInv
<1>8. \A h \in Groups : gerr'[h] = "nil" => busy'[h] = Cardinality(InUse(h)')
  BY <1>1, <1>3, <1>4, <1>7, RetireLasts DEF IdleInv
<1>9. idle' \in Seq(Groups) /\ \A h \in Range(idle') : (h \in Range(idle) /\ h # g) \/ (h = g /\ InUse(g)' = {})
  <2>1. CASE SetBusy(u)
    <3>1. PICK n \in Prunable : idle' = Without(Oldest(n) \cup {g})
      BY <2>1 DEF SetBusy
    <3> QED BY <3>1, WithoutKeeps DEF IdleInv
  <2>2. CASE SetIdle(u)
    <3> DEFINE order == Stamped(g)
    <3>1. PICK n \in Overflow(order) : idle' = SubSeq(order, n + 1, Len(order))
      BY <2>2 DEF SetIdle
    <3>2. ~idleLease[u]
      BY <2>2 DEF SetIdle
    <3>3. g \notin Range(idle)
      BY <1>6, <3>2 DEF IdleInv, IdleSet
    <3>4. order \in Seq(Groups) /\ \A h \in Range(order) : h \in Range(idle) \/ (h = g /\ busy[g] = 1)
      BY <1>2, AppendRange DEF Stamped, IdleInv
    <3>5. busy[g] = 1 => InUse(g)' = {}
      <4>1. ASSUME Cardinality(InUse(g)) = 1 PROVE InUse(g) = {u}
        BY <1>2, <1>6, <3>2, <4>1, InUseFinite, FS_Singleton
      <4> QED BY <1>5, <1>7, <3>2, <4>1
    <3> HIDE DEF order
    <3>6. idle' \in Seq(Groups) /\ Range(idle') \subseteq Range(order)
      <4>1. n \in Nat /\ Len(order) \in Nat
        BY <3>4, LenProperties DEF Overflow
      <4> QED BY <3>1, <3>4, <4>1, CutWithin
    <3> QED BY <3>3, <3>4, <3>5, <3>6
  <2> QED BY <2>1, <2>2
<1>10. \A h \in IdleSet' : h \in Begun' /\ InUse(h)' = {}
  <2>1. Range(idle') \subseteq Groups
    BY <1>9, LenProperties, ElementOfSeq DEF Range
  <2> QED BY <1>1, <1>2, <1>4, <1>9, <2>1 DEF IdleInv, IdleSet, Begun
<1> QED BY <1>1, <1>3, <1>8, <1>9, <1>10 DEF IdleInv

\* A lease that is released was idle, or its group is over: what is in use stays.
LEMMA ReleaseKeeps ==
    ASSUME HolderInv, TellInv, IdleInv, NEW u \in Users, ReleaseIdle(u)
    PROVE  IdleInv'
<1> DEFINE g == lease[u]
<1>1. /\ pc[u] = "held" /\ (idleLease[u] \/ gerr[g] # "nil")
      /\ UNCHANGED <<lease, idleLease, busy, groups, gone>>
      /\ leases' = [leases EXCEPT ![g] = @ \ {u}]
      /\ \E x \in {"waiting", "done"} : pc' = [pc EXCEPT ![u] = x]
      /\ idle' = idle \/ idle' = Without({g})
  BY DEF ReleaseIdle
<1>2. g \in Groups /\ gerr' \in [Groups -> {"nil", "closed", "failed"}]
      /\ \A h \in Groups : gerr'[h] = "nil" => gerr[h] = "nil"
  BY DEF ReleaseIdle, TellInv, HolderInv, HolderTypes, LeaseOf, Begun
<1>3. /\ leases'[g] = leases[g] \ {u} /\ \A h \in Groups \ {g} : leases'[h] = leases[h]
      /\ pc'[u] \in {"waiting", "done"} /\ \A v \in Users \ {u} : pc'[v] = pc[v]
  BY <1>1, <1>2 DEF TellInv, HolderInv, HolderTypes
<1>4. \A h \in Groups : InUse(h)' \subseteq InUse(h)
  BY <1>1, <1>3 DEF InUse
<1>5. ASSUME NEW h \in Groups, gerr'[h] = "nil" PROVE InUse(h)' = InUse(h)
  <2>1. CASE h = g
    <3>1. idleLease[u]
      BY <1>1, <1>2, <1>5, <2>1
    <3> QED BY <1>1, <1>3, <2>1, <3>1 DEF InUse
  <2>2. CASE h # g
    BY <1>1, <1>3, <2>2 DEF InUse
  <2> QED BY <2>1, <2>2
<1>6. idle' \in Seq(Groups) /\ Range(idle') \subseteq Range(idle)
  BY <1>1, WithoutKeeps DEF IdleInv
<1>7. ASSUME NEW v \in Users
      PROVE  /\ pc'[v] \in {"outside", "retrying", "recycling"} => ~idleLease'[v]
             /\ pc'[v] \in {"starting", "held"} => v \in leases'[lease'[v]]
  <2>1. CASE v = u
    BY <1>3, <2>1
  <2>2. CASE v # u
    <3>1. pc[v] \in {"starting", "held"} => lease[v] \in Groups /\ v \in leases[lease[v]]
      BY DEF HolderInv, HolderTypes, LeaseOf, Begun, IdleInv
    <3> QED BY <1>1, <1>3, <2>2, <3>1 DEF IdleInv
  <2> QED BY <2>1, <2>2
<1>8. ASSUME NEW h \in IdleSet' PROVE h \in Begun' /\ InUse(h)' = {}
  <2>1. h \in Begun /\ h \in Groups /\ InUse(h) = {}
    BY <1>6, <1>8 DEF IdleSet, IdleInv, HolderInv, HolderTypes, Begun
  <2> QED BY <1>1, <1>4, <2>1 DEF Begun
<1>9. \A h \in Groups : gerr'[h] = "nil" => busy'[h] = Cardinality(InUse(h)')
  BY <1>1, <1>2, <1>5 DEF IdleInv
<1> QED BY <1>1, <1>6, <1>7, <1>8, <1>9 DEF IdleInv

\* Every step that marks, takes or releases no lease only takes groups out of the idle order.
LEMMA IdleSteps ==
    ASSUME HolderInv, IdleInv, [Next]_vars,
           \A u \in Users : /\ ~AcquireJoins(u) /\ ~AcquireLaunches(u)
                            /\ ~SetIdle(u) /\ ~SetBusy(u) /\ ~ReleaseIdle(u)
    PROVE  /\ UNCHANGED <<leases, busy, idleLease>>
           /\ \/ gerr' = gerr
              \/ \E S : \E reason \in {"closed", "failed"} : retireLocked(S, reason)
              \/ \E g \in Groups : gerr[g] # "nil" /\ gerr' = [gerr EXCEPT ![g] = "closed"]
           /\ idle' = idle \/ idle' = <<>> \/ \E S : idle' = Without(S)
<1> DEFINE Goal ==
           /\ UNCHANGED <<leases, busy, idleLease>>
           /\ \/ gerr' = gerr
              \/ \E S : \E reason \in {"closed", "failed"} : retireLocked(S, reason)
              \/ \E g \in Groups : gerr[g] # "nil" /\ gerr' = [gerr EXCEPT ![g] = "closed"]
           /\ idle' = idle \/ idle' = <<>> \/ \E S : idle' = Without(S)
<1>1. ASSUME NEW u \in Users, UserStep(u) PROVE Goal
  <2>1. CASE AcquireRefused(u) \/ AcquireRecycles(u) \/ AcquireOverloaded(u)
    BY <2>1 DEF AcquireRefused, AcquireRecycles, AcquireOverloaded
  <2>2. CASE \/ RecycleEnds(u) \/ RecycleGivesUp(u) \/ StartSucceeds(u) \/ StartFails(u)
    BY <2>2 DEF RecycleEnds, RecycleGivesUp, StartSucceeds, StartFails, groupVars, poolVars
  <2>3. CASE CloseLease(u) \/ WaitEnds(u)
    BY <2>3 DEF CloseLease, WaitEnds, groupVars, poolVars
  <2> QED BY <1>1, <2>1, <2>2, <2>3 DEF UserStep
<1>2. ASSUME NEW g \in Groups, GroupStep(g) PROVE Goal
  BY <1>2 DEF GroupStep, CloseClient, CleanUp, ProcessBreaks, GroupFails, RouterExits,
              userVars, groupVars, poolVars
<1>3. CASE Prune \/ ClosePool \/ ClosePoolReturns \/ UNCHANGED vars
  BY <1>3 DEF Prune, ClosePool, ClosePoolReturns, vars, userVars, groupVars, poolVars
<1> QED BY <1>1, <1>2, <1>3 DEF Next

LEMMA IdleNext ==
    ASSUME HolderInv, TellInv, IdleInv, [Next]_vars
    PROVE  IdleInv'
<1>0. CASE \A u \in Users : /\ ~AcquireJoins(u) /\ ~AcquireLaunches(u)
                            /\ ~SetIdle(u) /\ ~SetBusy(u) /\ ~ReleaseIdle(u)
  <2>1. /\ UNCHANGED <<pc, lease>> \/ \E u \in Users, x \in Places : Moves(u, x)
        /\ Begun \subseteq Begun'
    BY <1>0, HolderSteps
  <2>2. /\ UNCHANGED <<leases, busy, idleLease>>
        /\ \/ gerr' = gerr
           \/ \E S : \E reason \in {"closed", "failed"} : retireLocked(S, reason)
           \/ \E g \in Groups : gerr[g] # "nil" /\ gerr' = [gerr EXCEPT ![g] = "closed"]
        /\ idle' = idle \/ idle' = <<>> \/ \E S : idle' = Without(S)
    BY <1>0, IdleSteps
  <2>3. idle' \in Seq(Groups) /\ Range(idle') \subseteq Range(idle)
    <3>1. CASE idle' = <<>>
      <4>1. Range(<<>>) = {} /\ <<>> \in Seq(Groups)
        BY EmptySeq DEF Range
      <4> QED BY <3>1, <4>1
    <3>2. CASE idle' = idle \/ \E S : idle' = Without(S)
      BY <3>2, WithoutKeeps DEF IdleInv
    <3> QED BY <2>2, <3>1, <3>2
  <2>4. \A g \in Groups : gerr'[g] = "nil" => gerr[g] = "nil"
    BY <2>2, RetireLasts DEF TellInv
  <2>5. ASSUME NEW v \in Users
        PROVE  /\ pc'[v] \in {"outside", "retrying", "recycling"} => pc[v] \in {"outside", "retrying", "recycling"}
               /\ pc'[v] \in {"starting", "held"} => pc[v] \in {"starting", "held"} /\ lease'[v] = lease[v]
    <3>1. ASSUME NEW u \in Users, NEW x \in Places, Moves(u, x)
          PROVE  /\ pc'[v] \in {"outside", "retrying", "recycling"} => pc[v] \in {"outside", "retrying", "recycling"}
                 /\ pc'[v] \in {"starting", "held"} => pc[v] \in {"starting", "held"} /\ lease'[v] = lease[v]
      <4>1. pc'[u] = x /\ \A w \in Users \ {u} : pc'[w] = pc[w] /\ lease'[w] = lease[w]
        BY <3>1 DEF Moves, HolderInv, HolderTypes
      <4> QED BY <3>1, <4>1 DEF Moves
    <3> QED BY <2>1, <3>1
  <2> QED BY <2>1, <2>2, <2>3, <2>4, <2>5, IdleShrinks
<1>1. ASSUME NEW u \in Users, AcquireJoins(u) PROVE IdleInv'
  <2>0. PICK n \in Prunable : \E g \in Reusable(u, Oldest(n)) :
             /\ retireLocked(Oldest(n), "closed") /\ newLeaseLocked(u, g)
             /\ idle' = Without(Oldest(n) \cup {g})
    BY <1>1 DEF AcquireJoins
  <2>1. PICK g \in Reusable(u, Oldest(n)) :
             /\ retireLocked(Oldest(n), "closed") /\ newLeaseLocked(u, g)
             /\ idle' = Without(Oldest(n) \cup {g})
    BY <2>0
  <2>2. g \in Groups /\ gerr[g] = "nil"
    BY DEF Reusable, HolderInv, HolderTypes
  <2>3. idle' \in Seq(Groups) /\ Range(idle') \subseteq Range(idle) \ {g}
    BY <2>1, WithoutKeeps DEF IdleInv
  <2>4. \A h \in Groups : gerr'[h] = "nil" => gerr[h] = "nil"
    BY <2>1, RetireLasts
  <2>5. Asking(u) /\ pc' = [pc EXCEPT ![u] = "held"] /\ UNCHANGED idleLease /\ Begun' = Begun
    BY <1>1 DEF AcquireJoins, Begun
  <2> QED BY <2>1, <2>2, <2>3, <2>4, <2>5, LeaseInUse
<1>2. ASSUME NEW u \in Users, AcquireLaunches(u) PROVE IdleInv'
  <2>0. PICK n \in Prunable : \E g \in Groups \ Begun :
             /\ retireLocked(Oldest(n), "closed") /\ newLeaseLocked(u, g)
             /\ idle' = Without(Oldest(n)) /\ groups' = groups \cup {g}
    BY <1>2 DEF AcquireLaunches, Begun
  <2>1. PICK g \in Groups \ Begun :
             /\ retireLocked(Oldest(n), "closed") /\ newLeaseLocked(u, g)
             /\ idle' = Without(Oldest(n)) /\ groups' = groups \cup {g}
    BY <2>0
  <2>2. gerr[g] = "nil" /\ g \notin Range(idle)
    BY <2>1 DEF TellInv, IdleInv, IdleSet
  <2>3. idle' \in Seq(Groups) /\ Range(idle') \subseteq Range(idle) \ {g}
    BY <2>1, <2>2, WithoutKeeps DEF IdleInv
  <2>4. \A h \in Groups : gerr'[h] = "nil" => gerr[h] = "nil"
    BY <2>1, RetireLasts
  <2>5. Asking(u) /\ pc' = [pc EXCEPT ![u] = "starting"] /\ UNCHANGED idleLease /\ Begun \subseteq Begun'
    BY <1>2, <2>1 DEF AcquireLaunches, Begun
  <2> QED BY <2>1, <2>2, <2>3, <2>4, <2>5, LeaseInUse
<1> QED BY <1>0, <1>1, <1>2, MarkKeeps, ReleaseKeeps

----------------------------------------------------------------------------
(* Whom everybody waits for.                                               *)

\* Whoever waits, waits for a group that is retired; a group whose launch is not over has somebody who
\* launches it.
GoingInv ==
    /\ \A u \in Users : pc[u] \in {"recycling", "waiting"} => lease[u] \in Begun /\ gerr[lease[u]] # "nil"
    /\ \A g \in groups : router[g] = "off" => \E u \in Users : pc[u] = "starting" /\ lease[u] = g
    /\ \A g \in gone : gerr[g] # "nil"
    /\ closeSet \subseteq Begun /\ \A g \in closeSet : gerr[g] # "nil"

\* A group that began is over after its retirement, whoever retires it.
LEMMA RetireEnds ==
    ASSUME HolderInv, GoingInv, NEW S, NEW reason \in {"closed", "failed"}, retireLocked(S, reason),
           NEW g \in S, g \in Begun
    PROVE  g \in Groups /\ gerr'[g] # "nil"
<1>1. g \in Groups
  BY DEF HolderInv, HolderTypes, Begun
<1> QED BY <1>1 DEF GoingInv, retireLocked, Live, Begun

\* Steps that launch nothing, by what they do to one user at most.
LEMMA GoingKeeps ==
    ASSUME HolderInv, GoingInv,
           \A g \in Groups : gerr[g] # "nil" => gerr'[g] # "nil",
           UNCHANGED <<groups, gone, closeSet>>,
           \A v \in Users : \/ pc'[v] = pc[v] /\ lease'[v] = lease[v]
                            \/ /\ pc[v] # "starting"
                               /\ pc'[v] \in {"recycling", "waiting"} =>
                                      lease'[v] \in Begun /\ gerr'[lease'[v]] # "nil",
           \A g \in Groups : router'[g] = "off" => router[g] = "off"
    PROVE  GoingInv'
<1>0. groups \subseteq Groups /\ gone \subseteq Groups /\ Begun' = Begun /\ Begun \subseteq Groups
  BY DEF HolderInv, HolderTypes, Begun
<1>1. \A v \in Users : pc'[v] \in {"recycling", "waiting"} => lease'[v] \in Begun' /\ gerr'[lease'[v]] # "nil"
  BY <1>0 DEF GoingInv
<1>2. \A g \in groups' : router'[g] = "off" => \E u \in Users : pc'[u] = "starting" /\ lease'[u] = g
  <2>1. ASSUME NEW g \in groups, router'[g] = "off" PROVE \E u \in Users : pc'[u] = "starting" /\ lease'[u] = g
    <3>1. PICK u \in Users : pc[u] = "starting" /\ lease[u] = g
      BY <1>0, <2>1 DEF GoingInv
    <3> QED BY <3>1
  <2> QED BY <2>1
<1> QED BY <1>0, <1>1, <1>2 DEF GoingInv

\* Joins, pruning and marks retire idle groups, and nobody waits who did not.
LEMMA GoingUsers ==
    ASSUME HolderInv, TellInv, IdleInv, GoingInv, NEW u \in Users,
           \/ AcquireRefused(u) \/ AcquireJoins(u) \/ AcquireRecycles(u) \/ AcquireOverloaded(u)
           \/ RecycleEnds(u) \/ RecycleGivesUp(u) \/ SetIdle(u) \/ SetBusy(u)
           \/ ReleaseIdle(u) \/ CloseLease(u) \/ WaitEnds(u)
    PROVE  GoingInv'
<1>0. pc = [v \in Users |-> pc[v]] /\ lease = [v \in Users |-> lease[v]]
  BY DEF HolderInv, HolderTypes
<1>1. CASE AcquireRefused(u) \/ AcquireJoins(u) \/ AcquireOverloaded(u)
  <2>1. /\ UNCHANGED <<groups, gone, closeSet, router>>
        /\ \E S : retireLocked(S, "closed")
    BY <1>1 DEF AcquireRefused, AcquireJoins, AcquireOverloaded
  <2>2. \A g \in Groups : gerr[g] # "nil" => gerr'[g] # "nil"
    BY <2>1, RetireLasts
  <2>3. pc[u] \in {"outside", "retrying"} /\ pc'[u] \in {"done", "held"}
        /\ \A v \in Users \ {u} : pc'[v] = pc[v] /\ lease'[v] = lease[v]
    BY <1>0, <1>1 DEF AcquireRefused, AcquireJoins, AcquireOverloaded, Asking, Finish, newLeaseLocked
  <2> QED BY <2>1, <2>2, <2>3, GoingKeeps
<1>2. CASE AcquireRecycles(u)
  <2>1. PICK n \in Prunable : /\ n < Len(idle) /\ retireLocked(Oldest(n + 1), "closed")
                              /\ lease' = [lease EXCEPT ![u] = idle[n + 1]]
    BY <1>2 DEF AcquireRecycles
  <2>2. \A g \in Groups : gerr[g] # "nil" => gerr'[g] # "nil"
    BY <2>1, RetireLasts
  <2>3. pc[u] = "outside" /\ lease'[u] = idle[n + 1]
        /\ \A v \in Users \ {u} : pc'[v] = pc[v] /\ lease'[v] = lease[v]
    BY <1>0, <1>2, <2>1 DEF AcquireRecycles
  <2>4. idle[n + 1] \in IdleSet /\ idle[n + 1] \in Oldest(n + 1)
    <3>1. Len(idle) \in Nat /\ DOMAIN idle = 1..Len(idle)
      BY LenProperties DEF IdleInv
    <3>2. n + 1 \in 1..Len(idle) /\ n + 1 \in 1..(n + 1)
      BY <2>1, <3>1 DEF Prunable, Overflow
    <3> QED BY <3>1, <3>2 DEF IdleSet, Range, Oldest
  <2>5. idle[n + 1] \in Begun /\ gerr'[idle[n + 1]] # "nil"
    BY <2>1, <2>4, RetireEnds DEF IdleInv
  <2>6. UNCHANGED <<groups, gone, closeSet, router>>
    BY <1>2 DEF AcquireRecycles
  <2> QED BY <2>2, <2>3, <2>5, <2>6, GoingKeeps
<1>3. CASE RecycleEnds(u) \/ RecycleGivesUp(u) \/ WaitEnds(u)
  <2>1. UNCHANGED <<groups, gone, closeSet, router, gerr>>
    BY <1>3 DEF RecycleEnds, RecycleGivesUp, WaitEnds, groupVars, poolVars
  <2>2. pc[u] \in {"recycling", "retrying", "waiting"} /\ pc'[u] \in {"retrying", "done"}
        /\ \A v \in Users \ {u} : pc'[v] = pc[v] /\ lease'[v] = lease[v]
    BY <1>0, <1>3 DEF RecycleEnds, RecycleGivesUp, WaitEnds, Finish
  <2> QED BY <2>1, <2>2, GoingKeeps
<1>4. CASE SetIdle(u) \/ SetBusy(u)
  <2>1. /\ UNCHANGED <<groups, gone, closeSet, router, pc, lease>>
        /\ \E S : retireLocked(S, "closed")
    BY <1>4 DEF SetIdle, SetBusy
  <2>2. \A g \in Groups : gerr[g] # "nil" => gerr'[g] # "nil"
    BY <2>1, RetireLasts
  <2> QED BY <2>1, <2>2, GoingKeeps
<1>5. CASE ReleaseIdle(u)
  <2>1. UNCHANGED <<groups, gone, closeSet, router, lease>> /\ pc[u] = "held"
    BY <1>5 DEF ReleaseIdle
  <2>2. lease[u] \in Groups /\ lease[u] \in Begun
    BY <2>1 DEF HolderInv, HolderTypes, LeaseOf, Begun
  <2>3. \A g \in Groups : gerr[g] # "nil" => gerr'[g] # "nil"
    BY <1>5, <2>2 DEF ReleaseIdle, TellInv
  <2>4. \A v \in Users \ {u} : pc'[v] = pc[v]
    BY <1>0, <1>5 DEF ReleaseIdle
  <2>5. pc'[u] = "waiting" => gerr'[lease[u]] # "nil"
    <3>1. ASSUME gerr[lease[u]] = "nil", pc'[u] = "waiting" PROVE gerr'[lease[u]] # "nil"
      <4>1. gerr' = [gerr EXCEPT ![lease[u]] = "closed"]
        BY <1>0, <1>5, <3>1 DEF ReleaseIdle
      <4> QED BY <2>2, <4>1 DEF TellInv
    <3> QED BY <2>2, <2>3, <3>1
  <2>6. pc'[u] # "recycling"
    BY <1>0, <1>5 DEF ReleaseIdle
  <2> QED BY <2>1, <2>2, <2>3, <2>4, <2>5, <2>6, GoingKeeps
<1>6. CASE CloseLease(u)
  <2>1. UNCHANGED <<groups, gone, closeSet, router, lease>> /\ pc[u] = "held" /\ retireLocked({lease[u]}, "closed")
    BY <1>6 DEF CloseLease
  <2>2. \A g \in Groups : gerr[g] # "nil" => gerr'[g] # "nil"
    BY <2>1, RetireLasts
  <2>3. \A v \in Users \ {u} : pc'[v] = pc[v]
    BY <1>0, <1>6 DEF CloseLease
  <2>4. lease[u] \in Begun /\ gerr'[lease[u]] # "nil"
    BY <2>1, RetireEnds DEF HolderInv, LeaseOf
  <2> QED BY <2>1, <2>2, <2>3, <2>4, GoingKeeps
<1> QED BY <1>1, <1>2, <1>3, <1>4, <1>5, <1>6

\* A launch has somebody who makes it until it is over, and a failed one is retired.
LEMMA GoingLaunches ==
    ASSUME HolderInv, ProcessInv, TellInv, GoingInv, NEW u \in Users,
           AcquireLaunches(u) \/ StartSucceeds(u) \/ StartFails(u)
    PROVE  GoingInv'
<1>0. /\ pc = [v \in Users |-> pc[v]] /\ lease = [v \in Users |-> lease[v]]
      /\ groups \subseteq Groups /\ gone \subseteq Groups /\ Begun \subseteq Groups
  BY DEF HolderInv, HolderTypes, Begun
<1>1. CASE AcquireLaunches(u)
  <2>1. PICK g \in Groups \ Begun :
             /\ \E n \in Prunable : retireLocked(Oldest(n), "closed")
             /\ newLeaseLocked(u, g) /\ groups' = groups \cup {g}
    BY <1>1 DEF AcquireLaunches, Begun
  <2>2. \A h \in Groups : gerr[h] # "nil" => gerr'[h] # "nil"
    BY <2>1, RetireLasts
  <2>3. UNCHANGED <<gone, closeSet, router>> /\ Begun' = Begun \cup {g}
    BY <1>1, <2>1 DEF AcquireLaunches, Begun
  <2>4. /\ pc[u] \in {"outside", "retrying"} /\ pc'[u] = "starting" /\ lease'[u] = g
        /\ \A v \in Users \ {u} : pc'[v] = pc[v] /\ lease'[v] = lease[v]
    BY <1>0, <1>1, <2>1 DEF AcquireLaunches, Asking, newLeaseLocked
  <2>5. \A v \in Users : pc'[v] \in {"recycling", "waiting"} => lease'[v] \in Begun' /\ gerr'[lease'[v]] # "nil"
    BY <1>0, <2>2, <2>3, <2>4 DEF GoingInv
  <2>6. ASSUME NEW h \in groups', router'[h] = "off" PROVE \E v \in Users : pc'[v] = "starting" /\ lease'[v] = h
    <3>1. CASE h = g
      BY <2>4, <3>1
    <3>2. CASE h # g
      <4>1. PICK v \in Users : pc[v] = "starting" /\ lease[v] = h
        BY <2>1, <2>3, <2>6, <3>2 DEF GoingInv
      <4> QED BY <2>4, <4>1
    <3> QED BY <3>1, <3>2
  <2> QED BY <1>0, <2>2, <2>3, <2>5, <2>6 DEF GoingInv
<1>2. CASE StartSucceeds(u) \/ StartFails(u)
  <2> DEFINE g == lease[u]
  <2>1. /\ pc[u] = "starting" /\ g \in groups /\ g \in Groups /\ g \in Begun
        /\ UNCHANGED <<lease, groups, gone, closeSet>>
    BY <1>0, <1>2 DEF StartSucceeds, StartFails, ProcessInv, poolVars, Begun
  <2>2. /\ router'[g] # "off" /\ \A h \in Groups \ {g} : router'[h] = router[h]
    BY <1>2, <2>1 DEF StartSucceeds, StartFails, ProcessInv
  <2>3. \A h \in Groups : gerr[h] # "nil" => gerr'[h] # "nil"
    BY <1>2, RetireLasts DEF StartSucceeds, StartFails
  <2>4. pc'[u] = "held" \/ (pc'[u] = "waiting" /\ gerr'[g] # "nil")
    <3>1. CASE StartFails(u)
      BY <1>0, <2>1, <3>1, RetireEnds DEF StartFails
    <3>2. CASE StartSucceeds(u)
      BY <1>0, <3>2 DEF StartSucceeds
    <3> QED BY <1>2, <3>1, <3>2
  <2>5. \A v \in Users \ {u} : pc'[v] = pc[v]
    BY <1>0, <1>2 DEF StartSucceeds, StartFails
  <2>6. \A v \in Users : pc'[v] \in {"recycling", "waiting"} => lease'[v] \in Begun' /\ gerr'[lease'[v]] # "nil"
    BY <1>0, <2>1, <2>3, <2>4, <2>5 DEF GoingInv, Begun
  <2>7. ASSUME NEW h \in groups', router'[h] = "off" PROVE \E v \in Users : pc'[v] = "starting" /\ lease'[v] = h
    <3>1. h # g /\ h \in groups /\ router[h] = "off"
      BY <1>0, <2>1, <2>2, <2>7
    <3>2. PICK v \in Users : pc[v] = "starting" /\ lease[v] = h
      BY <3>1 DEF GoingInv
    <3> QED BY <2>1, <2>5, <3>1, <3>2
  <2> QED BY <1>0, <2>1, <2>3, <2>6, <2>7 DEF GoingInv, Begun
<1> QED BY <1>1, <1>2

LEMMA GoingNext ==
    ASSUME HolderInv, ProcessInv, TellInv, IdleInv, GoingInv, [Next]_vars
    PROVE  GoingInv'
<1>0. groups \subseteq Groups /\ gone \subseteq Groups
  BY DEF HolderInv, HolderTypes
<1>1. ASSUME NEW u \in Users, UserStep(u) PROVE GoingInv'
  BY <1>1, GoingUsers, GoingLaunches DEF UserStep
<1>2. ASSUME NEW g \in Groups, GroupStep(g) PROVE GoingInv'
  <2>1. CASE CleanUp(g)
    BY <2>1 DEF CleanUp, GoingInv, Begun, userVars, groupVars
  <2>2. CASE GroupFails(g)
    <3>1. \A h \in Groups : gerr[h] # "nil" => gerr'[h] # "nil"
      BY <2>2, RetireLasts DEF GroupFails
    <3> QED BY <2>2, <3>1, GoingKeeps DEF GroupFails
  <2>3. CASE CloseClient(g) \/ ProcessBreaks(g)
    BY <2>3, GoingKeeps DEF CloseClient, ProcessBreaks, userVars, poolVars
  <2>4. CASE RouterExits(g)
    <3>1. \A h \in Groups : router'[h] = "off" => router[h] = "off"
      BY <2>4 DEF RouterExits, ProcessInv
    <3> QED BY <2>4, <3>1, GoingKeeps DEF RouterExits, userVars, poolVars
  <2> QED BY <1>2, <2>1, <2>2, <2>3, <2>4 DEF GroupStep
<1>3. CASE Prune
  <2>1. \A h \in Groups : gerr[h] # "nil" => gerr'[h] # "nil"
    BY <1>3, RetireLasts DEF Prune
  <2> QED BY <1>3, <2>1, GoingKeeps DEF Prune
<1>4. CASE ClosePool
  <2>1. retireLocked(groups, "closed")
    BY <1>4 DEF ClosePool
  <2>2. \A h \in Groups : gerr[h] # "nil" => gerr'[h] # "nil"
    BY <2>1, RetireLasts
  <2>3. \A h \in groups : gerr'[h] # "nil"
    BY <2>1, RetireEnds DEF Begun
  <2> QED BY <1>0, <1>4, <2>2, <2>3 DEF ClosePool, GoingInv, Begun
<1>5. CASE ClosePoolReturns
  BY <1>5 DEF ClosePoolReturns, GoingInv, Begun, userVars, groupVars
<1>6. CASE UNCHANGED vars
  BY <1>6 DEF GoingInv, Begun, vars, userVars, groupVars, poolVars
<1> QED BY <1>1, <1>2, <1>3, <1>4, <1>5, <1>6 DEF Next

----------------------------------------------------------------------------

PoolInv == HolderInv /\ ProcessInv /\ ClosingInv /\ TellInv /\ IdleInv /\ GoingInv

LEMMA PoolInvariance == Spec => []PoolInv
<1>1. ASSUME Init PROVE PoolInv
  <2>1. \A g \in Groups : Holders(g) = {}
    BY <1>1, NoGroupApart DEF Init, Holders
  <2>2. HolderTypes
    BY <1>1 DEF Init, HolderTypes, Places
  <2>3. \A g \in Groups : Shared(g)
    <3>1. Cardinality({}) = 0 /\ 0 <= SessionsPerProcess
      BY FS_EmptySet, LimitAssumption
    <3> QED BY <1>1, <2>1, <3>1 DEF Init, Shared
  <2>4. HolderInv
    BY <1>1, <2>2, <2>3 DEF Init, HolderInv, LeaseOf
  <2>5. ProcessInv
    <3>1. Slots = {} /\ Cardinality({}) = 0
      BY <1>1, FS_EmptySet DEF Init, Slots
    <3>2. Cardinality(Slots) <= MaxProcesses
      BY <3>1, LimitAssumption
    <3> QED BY <1>1, <3>2 DEF Init, ProcessInv, Begun
  <2>6. ClosingInv /\ TellInv
    BY <1>1 DEF Init, ClosingInv, TellInv
  <2>7. IdleInv
    <3>1. Range(<<>>) = {} /\ <<>> \in Seq(Groups) /\ Cardinality({}) = 0
      BY EmptySeq, FS_EmptySet DEF Range
    <3> QED BY <1>1, <3>1 DEF Init, IdleInv, IdleSet, InUse
  <2>8. GoingInv
    BY <1>1 DEF Init, GoingInv, Begun
  <2> QED BY <2>4, <2>5, <2>6, <2>7, <2>8 DEF PoolInv
<1>2. PoolInv /\ [Next]_vars => PoolInv'
  BY HolderNext, ProcessNext, ClosingNext, TellNext, IdleNext, GoingNext DEF PoolInv
<1> QED BY <1>1, <1>2, PTL DEF Spec

\* The processes of the pool never exceed MaxProcesses: those that are launched or
\* being closed, whose group takes its place before the launch and gives it up after
\* the cleanup, and those that may still run although their cleanup has failed.  When
\* Pool.Close returns no group is left, and if a process is, the pool says so.
THEOREM CapHolds == Spec => []ProcessCap
<1>1. ASSUME PoolInv PROVE ProcessCap
  <2>1. Occupied \subseteq Slots
    BY <1>1 DEF PoolInv, ProcessInv, Occupied, Slots, Begun
  <2>2. Cardinality(Occupied) <= MaxProcesses
    <3>1. Slots \subseteq Groups
      BY <1>1 DEF PoolInv, HolderInv, HolderTypes, Slots
    <3>2. IsFiniteSet(Slots)
      BY <3>1, NoGroupApart, FS_Subset
    <3>3. /\ Cardinality(Occupied) <= Cardinality(Slots)
          /\ Cardinality(Occupied) \in Nat /\ Cardinality(Slots) \in Nat
      BY <2>1, <3>2, FS_Subset, FS_CardinalityType
    <3> QED BY <1>1, <3>3, LimitAssumption DEF PoolInv, ProcessInv
  <2>3. closing = "done" => groups = {} /\ (Occupied = {} \/ cleanupErr)
    BY <1>1, <2>1 DEF PoolInv, ClosingInv, ProcessInv, Slots
  <2> QED BY <2>2, <2>3 DEF ProcessCap
<1> QED BY <1>1, PoolInvariance, PTL

\* A process serves at most SessionsPerProcess leases in its life, all of one
\* scope, and a prepared launch serves one.
THEOREM IsolationHolds == Spec => []Isolation
<1>1. PoolInv => Isolation
  BY DEF PoolInv, HolderInv, Shared, Isolation
<1> QED BY <1>1, PoolInvariance, PTL

\* Exactly the leases of retired groups have ended: retireLocked tells every one
\* of them, and a user that joins is never told of an earlier retirement.
THEOREM LeasesEndHolds == Spec => []LeasesEnd
<1>1. PoolInv => LeasesEnd
  <2>1. ASSUME PoolInv, NEW g \in groups
        PROVE  leases[g] \subseteq IF gerr[g] = "nil" THEN Users \ ended ELSE ended
    <3>1. g \in Groups /\ leases[g] \subseteq Users
      BY <2>1 DEF PoolInv, HolderInv, HolderTypes, TellInv
    <3> QED BY <2>1, <3>1 DEF PoolInv, TellInv
  <2> QED BY <2>1 DEF LeasesEnd
<1> QED BY <1>1, PoolInvariance, PTL

\* Who may end a working group: nobody but a user that closes its own lease on it, or Pool.Close, while
\* it has a lease in use.
Housekeeping(g) ==
    \/ \A u \in leases[g] : idleLease'[u]
    \/ \E u \in leases[g] : pc[u] = "held" /\ pc'[u] = "waiting"
    \/ closed' # closed

\* Pruning looks at the idle order only, ...
LEMMA PruneSpares ==
    ASSUME PoolInv, NEW S, retireLocked(S, "closed"), S \subseteq IdleSet,
           NEW g \in Groups, gerr[g] = "nil", gerr'[g] = "closed",
           \A v \in leases[g] : idleLease'[v] = idleLease[v]
    PROVE  Housekeeping(g)
<1>1. g \in S
  BY RetireLasts
<1>2. \A v \in leases[g] : idleLease[v] \in BOOLEAN
  BY DEF PoolInv, IdleInv, TellInv
<1> QED BY <1>1, <1>2 DEF PoolInv, IdleInv, Housekeeping, InUse

\* ... and at the group that SetIdle has just stamped, whose last lease in use that was.
LEMMA StampSpares ==
    ASSUME PoolInv, NEW u \in Users, SetIdle(u),
           NEW g \in Groups, gerr[g] = "nil", gerr'[g] = "closed"
    PROVE  Housekeeping(g)
<1> DEFINE order == Stamped(lease[u])
<1>1. PICK n \in Overflow(order) : retireLocked({order[i] : i \in 1..n}, "closed")
  BY DEF SetIdle
<1>2. PICK i \in 1..n : g = order[i]
  BY <1>1, RetireLasts
<1>3. idle \in Seq(Groups) /\ Len(idle) \in Nat /\ DOMAIN idle = 1..Len(idle) /\ lease[u] \in Groups
  BY LenProperties DEF PoolInv, IdleInv, SetIdle, Usable, HolderInv, HolderTypes, LeaseOf, Begun
<1>4. g \in IdleSet \/ (g = lease[u] /\ busy[g] = 1)
  <2>1. CASE busy[lease[u]] = 1
    <3>1. order = Append(idle, lease[u])
      BY <2>1 DEF Stamped
    <3>2. /\ Len(order) = Len(idle) + 1 /\ order[Len(idle) + 1] = lease[u]
          /\ \A j \in 1..Len(idle) : order[j] = idle[j]
      BY <1>3, <3>1, AppendProperties
    <3>3. i \in 1..(Len(idle) + 1)
      BY <1>1, <1>3, <3>2 DEF Overflow
    <3> HIDE DEF order
    <3>4. CASE i \in 1..Len(idle)
      BY <1>2, <1>3, <3>2, <3>4 DEF IdleSet, Range
    <3>5. CASE i = Len(idle) + 1
      BY <1>2, <2>1, <3>2, <3>5
    <3> QED BY <1>3, <3>3, <3>4, <3>5
  <2>2. CASE busy[lease[u]] # 1
    <3>1. order = idle
      BY <2>2 DEF Stamped
    <3>2. i \in 1..Len(idle)
      BY <1>1, <1>3, <3>1 DEF Overflow
    <3> QED BY <1>2, <1>3, <3>1, <3>2 DEF IdleSet, Range
  <2> QED BY <2>1, <2>2
<1>5. InUse(g) \subseteq {u}
  <2>1. CASE g \in IdleSet
    BY <2>1 DEF PoolInv, IdleInv
  <2>2. CASE g = lease[u] /\ busy[g] = 1
    <3>1. Cardinality(InUse(g)) = 1 /\ IsFiniteSet(InUse(g))
      BY <2>2, InUseFinite DEF PoolInv, IdleInv
    <3>2. u \in InUse(g)
      BY <2>2 DEF SetIdle, Usable, PoolInv, IdleInv, InUse
    <3> QED BY <3>1, <3>2, FS_Singleton
  <2> QED BY <1>4, <2>1, <2>2
<1>6. idleLease' = [idleLease EXCEPT ![u] = TRUE] /\ idleLease \in [Users -> BOOLEAN] /\ leases[g] \subseteq Users
  BY DEF SetIdle, PoolInv, IdleInv, TellInv
<1> QED BY <1>5, <1>6 DEF Housekeeping, InUse

\* Pruning, making room and ReleaseIdle never take a process from a session that uses it: only a user
\* that closes its own lease on the group, or Pool.Close, ends a working group with a busy lease.
THEOREM BusyHolds == Spec => BusyKept
<1> DEFINE Kept == \A g \in Groups :
                      gerr[g] = "nil" /\ gerr'[g] = "closed" =>
                          \/ \A u \in leases[g] : idleLease'[u]
                          \/ \E u \in leases[g] : pc[u] = "held" /\ pc'[u] = "waiting"
                          \/ closed' # closed
<1>1. ASSUME PoolInv, [Next]_vars, NEW g \in Groups, gerr[g] = "nil", gerr'[g] = "closed"
      PROVE  Housekeeping(g)
  <2>0. ASSUME NEW n \in 0..Len(idle), NEW S, S \subseteq Oldest(n), retireLocked(S, "closed"),
               \A v \in leases[g] : idleLease'[v] = idleLease[v]
        PROVE  Housekeeping(g)
    <3>1. S \subseteq IdleSet
      BY <1>1, <2>0, OldestIdle DEF PoolInv
    <3> QED BY <1>1, <2>0, <3>1, PruneSpares
  <2>1. ASSUME NEW u \in Users, UserStep(u) PROVE Housekeeping(g)
    <3>1. CASE AcquireRefused(u) \/ AcquireOverloaded(u)
      BY <2>0, <3>1 DEF AcquireRefused, AcquireOverloaded, Prunable, Overflow
    <3>2. CASE AcquireJoins(u) \/ AcquireLaunches(u)
      BY <2>0, <3>2 DEF AcquireJoins, AcquireLaunches, Prunable, Overflow
    <3>3. CASE AcquireRecycles(u)
      <4>1. PICK n \in Prunable : n < Len(idle) /\ retireLocked(Oldest(n + 1), "closed")
        BY <3>3 DEF AcquireRecycles
      <4>2. n + 1 \in 0..Len(idle)
        <5>1. Len(idle) \in Nat
          BY <1>1, LenProperties DEF PoolInv, IdleInv
        <5> QED BY <4>1, <5>1 DEF Prunable, Overflow
      <4> QED BY <2>0, <3>3, <4>1, <4>2 DEF AcquireRecycles
    <3>4. CASE RecycleEnds(u) \/ RecycleGivesUp(u) \/ StartSucceeds(u) \/ WaitEnds(u)
      BY <1>1, <3>4 DEF RecycleEnds, RecycleGivesUp, StartSucceeds, WaitEnds, groupVars
    <3>5. CASE StartFails(u)
      BY <1>1, <3>5, RetireLasts DEF StartFails
    <3>6. CASE SetIdle(u)
      BY <1>1, <3>6, StampSpares
    <3>7. CASE SetBusy(u)
      <4>1. PICK n \in Prunable : retireLocked(Oldest(n) \ {lease[u]}, "closed")
        BY <3>7 DEF SetBusy
      <4>2. g # lease[u]
        BY <1>1, <4>1, RetireLasts
      <4>3. u \notin leases[g]
        BY <1>1, <3>7, <4>2, LeasesApart DEF SetBusy, Usable, PoolInv, IdleInv, HolderInv, HolderTypes, LeaseOf, Begun
      <4>4. \A v \in leases[g] : idleLease'[v] = idleLease[v]
        BY <1>1, <3>7, <4>3 DEF SetBusy, PoolInv, IdleInv, TellInv
      <4> QED BY <2>0, <4>1, <4>4 DEF Prunable, Overflow
    <3>8. CASE ReleaseIdle(u)
      <4>1. g = lease[u] /\ leases[g] = {u} /\ idleLease[u]
        BY <1>1, <3>8 DEF ReleaseIdle, PoolInv, TellInv
      <4> QED BY <3>8, <4>1 DEF ReleaseIdle, Housekeeping
    <3>9. CASE CloseLease(u)
      <4>1. g = lease[u] /\ pc[u] = "held" /\ pc'[u] = "waiting"
        BY <1>1, <3>9, RetireLasts DEF CloseLease, PoolInv, HolderInv, HolderTypes
      <4>2. u \in leases[g]
        BY <1>1, <4>1 DEF PoolInv, IdleInv
      <4> QED BY <4>1, <4>2 DEF Housekeeping
    <3> QED BY <2>1, <3>1, <3>2, <3>3, <3>4, <3>5, <3>6, <3>7, <3>8, <3>9 DEF UserStep
  <2>2. ASSUME NEW h \in Groups, GroupStep(h) PROVE Housekeeping(g)
    <3>1. CASE GroupFails(h)
      BY <1>1, <3>1, RetireLasts DEF GroupFails
    <3>2. CASE CloseClient(h) \/ ProcessBreaks(h) \/ RouterExits(h)
      BY <1>1, <3>2 DEF CloseClient, ProcessBreaks, RouterExits
    <3>3. CASE CleanUp(h)
      BY <1>1, <3>3 DEF CleanUp, PoolInv, TellInv
    <3> QED BY <2>2, <3>1, <3>2, <3>3 DEF GroupStep
  <2>3. CASE Prune
    BY <2>0, <2>3 DEF Prune, Prunable, Overflow
  <2>4. CASE ClosePool
    BY <1>1, <2>4 DEF ClosePool, PoolInv, ClosingInv, Housekeeping
  <2>5. CASE ClosePoolReturns \/ UNCHANGED vars
    BY <1>1, <2>5 DEF ClosePoolReturns, vars, groupVars
  <2> QED BY <1>1, <2>1, <2>2, <2>3, <2>4, <2>5 DEF Next
<1>2. PoolInv /\ [Next]_vars => Kept
  BY <1>1 DEF Housekeeping
<1> QED BY <1>2, PoolInvariance, PTL DEF Spec, BusyKept

\* Nobody waits for nobody: while a launch, a caller of Close, ReleaseIdle or a recycling Acquire, or
\* Pool.Close itself waits, some goroutine of the pool has something to do.
THEOREM WaitersServed ==
    Spec => []((\E u \in Users : pc[u] \in {"starting", "recycling", "waiting"}) \/ closing = "waiting"
                   => AtWork)
<1>1. ASSUME PoolInv, NEW g \in groups, gerr[g] # "nil" PROVE AtWork
  <2>1. g \in Groups /\ router[g] \in {"off", "on", "done"} /\ process[g] \in {"none", "up", "broken", "left"}
    BY <1>1 DEF PoolInv, HolderInv, HolderTypes, ProcessInv
  <2>2. CASE router[g] = "off"
    BY <1>1, <2>2 DEF PoolInv, GoingInv, AtWork
  <2>3. CASE router[g] # "off"
    BY <1>1, <2>1, <2>3 DEF AtWork
  <2> QED BY <2>2, <2>3
<1>2. ASSUME PoolInv, NEW u \in Users, pc[u] \in {"recycling", "waiting"} PROVE AtWork
  <2>1. lease[u] \in gone \/ (lease[u] \in groups /\ gerr[lease[u]] # "nil")
    BY <1>2 DEF PoolInv, GoingInv, Begun
  <2> QED BY <1>1, <1>2, <2>1 DEF AtWork
<1>3. ASSUME PoolInv, closing = "waiting" PROVE AtWork
  <2>1. CASE closeSet \subseteq gone
    BY <1>3, <2>1 DEF AtWork
  <2>2. CASE ~(closeSet \subseteq gone)
    <3>1. PICK g \in closeSet : g \notin gone
      BY <2>2
    <3>2. g \in groups /\ gerr[g] # "nil"
      BY <1>3, <3>1 DEF PoolInv, GoingInv, Begun
    <3> QED BY <1>1, <1>3, <3>2
  <2> QED BY <2>1, <2>2
<1>4. PoolInv => ((\E u \in Users : pc[u] \in {"starting", "recycling", "waiting"}) \/ closing = "waiting"
                      => AtWork)
  BY <1>2, <1>3 DEF AtWork
<1> QED BY <1>4, PoolInvariance, PTL
=============================================================================
