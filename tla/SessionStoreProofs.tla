------------------------- MODULE SessionStoreProofs -------------------------
(***************************************************************************)
(* Proofs about SessionStore, for any processes, conversations and slots.  *)
(* The history key is argued apart (KeyInv).  For the records, a slot owns *)
(* the backend sessions that its records and its driver name (Apart): the  *)
(* one driver that tells a session something has removed the records of    *)
(* its slot from the disk, and no other slot knows of the session.         *)
(***************************************************************************)
EXTENDS SessionStore, SequenceTheorems, TLAPS

----------------------------------------------------------------------------
(* The history key.                                                        *)

Making == {"keyed", "new", "written"}

KeyTypes ==
    /\ up \in [Procs -> Making \cup {"down", "up"}]
    /\ key = [p \in Procs |-> key[p]] /\ keys \in Nat

\* One process at a time makes the key, and only where there is none.
KeyAt(p) ==
    /\ up[p] \in Making => \A q \in Procs : up[q] \in Making => q = p
    /\ up[p] = "new" => keyfile = None /\ key[p] # None
    /\ up[p] \in {"written", "up"} => key[p] = keyfile /\ keyfile # None

KeyInv == KeyTypes /\ \A p \in Procs : KeyAt(p)

LEMMA KeyStep ==
    ASSUME KeyInv, [Next]_vars
    PROVE  KeyInv'
<1> USE DEF KeyInv, KeyTypes, KeyAt, Making
<1>1. CASE \E p \in Procs : Boot(p)
  <2>1. PICK p \in Procs : Boot(p)
    BY <1>1
  <2>2. CASE KeyLock(p)
    BY <2>2 DEF KeyLock, KeyLocked
  <2>3. CASE KeyRead(p)
    BY <2>3 DEF KeyRead
  <2>4. CASE KeyNew(p)
    BY <2>4, SessionStoreAssumption DEF KeyNew
  <2>5. CASE KeyWrite(p)
    <3>1. \A q \in Procs : up[q] \notin {"written", "up"}
      BY <2>5 DEF KeyWrite
    <3> QED BY <2>5, <3>1 DEF KeyWrite
  <2>6. CASE KeySync(p)
    BY <2>6 DEF KeySync
  <2> QED BY <2>1, <2>2, <2>3, <2>4, <2>5, <2>6 DEF Boot
<1>2. CASE \E p \in Procs : Crash(p)
  BY <1>2 DEF Crash, Gone
<1>3. CASE PowerLoss
  BY <1>3 DEF PowerLoss, Gone
<1>4. CASE UNCHANGED boot
  BY <1>4 DEF boot
<1>5. (\E d \in Drivers : Works(d)) => UNCHANGED boot
  BY DEF Works, Claim, Start, InvalidateRemoves, InvalidateSyncs, InvalidateFails, Loads, LoadFails,
         Reuses, Creates, StartFails, Prompts, Completes, Aborts, SaveRenames, SaveSyncs, SaveFails,
         BackendEnds, ClosesClient, Closes
<1> QED BY <1>1, <1>2, <1>3, <1>4, <1>5 DEF Next, vars

\* Every process at work hashes histories with the key that is in the directory: sessionstore.New
\* makes a key under key.lock and only where there is none.
THEOREM OneKeyHolds == Spec => []OneKey
<1>1. Init => KeyInv
  BY DEF Init, KeyInv, KeyTypes, KeyAt, Making
<1>2. KeyInv => OneKey
  BY DEF KeyInv, KeyAt, OneKey
<1> QED BY <1>1, <1>2, KeyStep, PTL DEF Spec

----------------------------------------------------------------------------
(* The records.                                                            *)

Records == [key : Keys, session : Nat \ {0}, history : Seq(Nat)]
States  == {"none", "unstarted", "remove", "sync", "prepare", "prepared", "prompting", "save",
            "saved", "idle", "closing"}

StoreTypes ==
    /\ view \in [Slots -> Records \cup {None}] /\ disk \in [Slots -> Records \cup {None}]
    /\ lock \in [Slots -> Drivers \cup {None}] /\ st \in [Drivers -> States]
    /\ session \in [Drivers -> Nat] /\ snapshot \in [Drivers -> Seq(Nat)]
    /\ req \in [Drivers -> Seq(Nat)] /\ resume \in [Drivers -> Records \cup {None}]
    /\ conv \in [Keys -> Seq(Nat)] /\ backend \in Seq(Seq(Nat)) /\ turns \in Nat

Known(n) == n \in 1..Len(backend)

\* A record states what its session has been told.
True(r) == Known(r.session) /\ backend[r.session] = r.history

SlotTrue(s) ==
    /\ view[s] # None => True(view[s])
    /\ disk[s] # None => True(disk[s])

\* What the state of a driver says of its lease, its session and the records of its slot.
DriverTrue(d) ==
    /\ IF st[d] = "none" THEN session[d] = 0 /\ resume[d] = None ELSE lock[Slot(d)] = d
    /\ resume[d] # None => /\ st[d] \in {"remove", "sync", "prepare"} /\ True(resume[d])
                           /\ IsPrefix(resume[d].history, req[d])
    /\ session[d] # 0 => /\ Known(session[d])
                         /\ backend[session[d]] = IF st[d] = "prompting" THEN req[d] ELSE snapshot[d]
    /\ st[d] = "prepared" => IsPrefix(snapshot[d], req[d])
    /\ st[d] \in {"prepared", "prompting", "save", "saved"} => session[d] # 0
    /\ st[d] \in {"sync", "prepare", "prepared", "prompting", "save"} => view[Slot(d)] = None
    /\ st[d] \in {"prepare", "prepared", "prompting", "save"} => disk[Slot(d)] = None

\* The session n is named in the slot s.
Names(s, n) ==
    \/ view[s] # None /\ view[s].session = n
    \/ disk[s] # None /\ disk[s].session = n
    \/ \E d \in Drivers : /\ Slot(d) = s
                          /\ session[d] = n \/ (resume[d] # None /\ resume[d].session = n)

Apart == \A s, t \in Slots : \A n \in 1..Len(backend) : Names(s, n) /\ Names(t, n) => s = t

StoreInv ==
    /\ StoreTypes
    /\ \A s \in Slots : SlotTrue(s)
    /\ \A d \in Drivers : DriverTrue(d)
    /\ Apart

LEMMA SlotType == ASSUME NEW d \in Drivers PROVE Slot(d) \in Slots /\ d[1] \in Procs /\ d[2] \in Keys
BY SessionStoreAssumption DEF Slot, Drivers

\* A step of the driver d in its slot: it may make the next session known, or tell
\* the session it has something when no record is left.
Frame(d) ==
    /\ st' = [st EXCEPT ![d] = st'[d]] /\ session' = [session EXCEPT ![d] = session'[d]]
    /\ snapshot' = [snapshot EXCEPT ![d] = snapshot'[d]] /\ req' = [req EXCEPT ![d] = req'[d]]
    /\ resume' = [resume EXCEPT ![d] = resume'[d]]
    /\ view' = [view EXCEPT ![Slot(d)] = view'[Slot(d)]]
    /\ disk' = [disk EXCEPT ![Slot(d)] = disk'[Slot(d)]]
    /\ lock' = [lock EXCEPT ![Slot(d)] = lock'[Slot(d)]]
    /\ Len(backend') \in {Len(backend), Len(backend) + 1}
    /\ \A n \in 1..Len(backend) : backend'[n] # backend[n] => n = session[d]

\* The slot d works in names no session it did not name, but one it has made.
NamesKept(d) ==
    \A n \in 1..Len(backend') : Names(Slot(d), n)' => Names(Slot(d), n) \/ n = Len(backend) + 1

LEMMA NamesKnown ==
    ASSUME StoreInv, NEW s \in Slots, NEW n \in Nat \ {0}, Names(s, n)
    PROVE  Known(n)
BY DEF StoreInv, SlotTrue, DriverTrue, True, Names

LEMMA FrameKeeps ==
    ASSUME StoreInv, NEW d \in Drivers, Frame(d), lock[Slot(d)] \in {d, None}, NamesKept(d),
           StoreTypes', SlotTrue(Slot(d))', DriverTrue(d)'
    PROVE  StoreInv'
<1>1. Slot(d) \in Slots /\ \A e \in Drivers : Slot(e) \in Slots
  BY SlotType
<1>2. \A e \in Drivers \ {d} : /\ st'[e] = st[e] /\ session'[e] = session[e] /\ resume'[e] = resume[e]
                               /\ snapshot'[e] = snapshot[e] /\ req'[e] = req[e]
  BY DEF Frame, StoreInv, StoreTypes
<1>3. \A s \in Slots \ {Slot(d)} : view'[s] = view[s] /\ disk'[s] = disk[s] /\ lock'[s] = lock[s]
  BY <1>1 DEF Frame, StoreInv, StoreTypes
<1>4. Len(backend) \in Nat /\ Len(backend') \in Nat /\ Len(backend) <= Len(backend')
  BY DEF Frame, StoreInv, StoreTypes
<1>5. ASSUME NEW s \in Slots \ {Slot(d)}, NEW n
      PROVE  Names(s, n)' <=> Names(s, n)
  BY <1>2, <1>3, <1>5 DEF Names
<1>6. ASSUME NEW s \in Slots \ {Slot(d)}, NEW n \in Nat \ {0}, Names(s, n)
      PROVE  Known(n) /\ Known(n)' /\ backend'[n] = backend[n]
  <2>1. Known(n)
    BY <1>6, NamesKnown
  <2>2. Names(Slot(d), session[d])
    BY DEF Names
  <2>3. n # session[d]
    BY <1>1, <1>6, <2>1, <2>2 DEF StoreInv, Apart, Known
  <2> QED BY <1>4, <2>1, <2>3 DEF Known, Frame
<1>7. ASSUME NEW s \in Slots \ {Slot(d)} PROVE SlotTrue(s)'
  <2>1. view[s] # None => Names(s, view[s].session) /\ view[s].session \in Nat \ {0} /\ True(view[s])
    BY <1>7 DEF Names, StoreInv, StoreTypes, Records, SlotTrue
  <2>2. disk[s] # None => Names(s, disk[s].session) /\ disk[s].session \in Nat \ {0} /\ True(disk[s])
    BY <1>7 DEF Names, StoreInv, StoreTypes, Records, SlotTrue
  <2>3. view[s] # None => True(view[s])'
    BY <1>3, <1>6, <1>7, <2>1 DEF True
  <2>4. disk[s] # None => True(disk[s])'
    BY <1>3, <1>6, <1>7, <2>2 DEF True
  <2> QED BY <1>3, <1>7, <2>3, <2>4 DEF SlotTrue
<1>8. ASSUME NEW e \in Drivers \ {d} PROVE DriverTrue(e)'
  <2>0. DriverTrue(e)
    BY DEF StoreInv
  <2>1. CASE Slot(e) = Slot(d)
    <3>1. st[e] = "none"
      BY <2>0, <2>1, <1>8, SessionStoreAssumption DEF DriverTrue, Drivers
    <3> QED BY <1>2, <2>0, <3>1 DEF DriverTrue
  <2>2. CASE Slot(e) # Slot(d)
    <3>1. session[e] # 0 => Names(Slot(e), session[e]) /\ session[e] \in Nat \ {0}
      BY DEF Names, StoreInv, StoreTypes
    <3>2. resume[e] # None => Names(Slot(e), resume[e].session) /\ resume[e].session \in Nat \ {0}
      BY DEF Names, StoreInv, StoreTypes, Records
    <3>3. session[e] # 0 => Known(session[e])' /\ backend'[session[e]] = backend[session[e]]
      BY <1>1, <1>2, <1>6, <2>2, <3>1
    <3>4. resume[e] # None /\ True(resume[e]) => True(resume[e])'
      BY <1>1, <1>2, <1>6, <2>2, <3>2 DEF True
    <3> QED BY <1>1, <1>2, <1>3, <2>0, <2>2, <3>3, <3>4 DEF DriverTrue
  <2> QED BY <2>1, <2>2
<1>9. Apart'
  <2>1. ASSUME NEW s \in Slots, NEW t \in Slots, NEW n \in 1..Len(backend'),
               Names(s, n)', Names(t, n)', s = Slot(d), t # s
        PROVE  FALSE
    <3>1. Names(t, n)
      BY <1>5, <2>1
    <3>2. Known(n)
      BY <1>4, <2>1, <3>1, NamesKnown
    <3>3. Names(s, n)
      BY <1>4, <2>1, <3>2 DEF NamesKept, Known
    <3> QED BY <2>1, <3>1, <3>2, <3>3 DEF StoreInv, Apart, Known
  <2>2. ASSUME NEW s \in Slots, NEW t \in Slots, NEW n \in 1..Len(backend'),
               Names(s, n)', Names(t, n)', s # Slot(d), t # Slot(d)
        PROVE  s = t
    <3>1. Names(s, n) /\ Names(t, n)
      BY <1>5, <2>2
    <3>2. Known(n)
      BY <1>4, <2>2, <3>1, NamesKnown
    <3> QED BY <2>2, <3>1, <3>2 DEF StoreInv, Apart, Known
  <2> QED BY <2>1, <2>2 DEF Apart
<1> QED BY <1>7, <1>8, <1>9 DEF StoreInv

\* What a request extends is its beginning, and the rest of it completes that.
LEMMA Completed ==
    ASSUME NEW s \in Seq(Nat), NEW t \in Seq(Nat), IsPrefix(s, t)
    PROVE  s \o SubSeq(t, Len(s) + 1, Len(t)) = t
<1>1. Len(s) \in Nat /\ Len(t) \in Nat /\ Len(s) <= Len(t)
  BY DEF IsPrefix
<1>2. s = SubSeq(t, 1, Len(s))
  BY SubSeqFull DEF IsPrefix
<1>3. SubSeq(t, 1, Len(s)) \o SubSeq(t, Len(s) + 1, Len(t)) = SubSeq(t, 1, Len(t))
  <2>1. 1 \in 1 .. Len(t) + 1 /\ Len(s) \in 1 - 1 .. Len(t) /\ Len(t) \in Len(s) .. Len(t)
    BY <1>1
  <2> QED BY <2>1, ConcatAdjacentSubSeq
<1> QED BY <1>2, <1>3, SubSeqFull

LEMMA Tail1 ==
    ASSUME NEW t \in Seq(Nat), NEW n \in Nat
    PROVE  SubSeq(t, n + 1, Len(t)) \in Seq(Nat)
<1>1. \A i \in n + 1 .. Len(t) : t[i] \in Nat
  OBVIOUS
<1> QED BY <1>1, SubSeqProperties

LEMMA EmptyPrefix == ASSUME NEW t \in Seq(Nat) PROVE IsPrefix(<<>>, t)
<1>1. SubSeq(t, 1, 0) = <<>> /\ SubSeq(<<>>, 1, 0) = <<>>
  BY SubSeqEmpty
<1> QED BY <1>1 DEF IsPrefix

LEMMA RequestType ==
    ASSUME NEW t \in Seq(Nat), NEW n \in 0..Len(t), NEW x \in Nat
    PROVE  Append(SubSeq(t, 1, n), x) \in Seq(Nat)
<1>1. \A i \in 1 .. n : t[i] \in Nat
  OBVIOUS
<1> QED BY <1>1, SubSeqProperties, AppendProperties

\* A step of a driver that tells no session anything and makes none.
LEMMA QuietKeeps ==
    ASSUME StoreInv, NEW d \in Drivers, st[d] # "none",
           backend' = backend, conv' \in [Keys -> Seq(Nat)], turns' \in Nat,
           st' = [st EXCEPT ![d] = st'[d]], st'[d] \in States,
           session' = [session EXCEPT ![d] = session'[d]], session'[d] \in Nat,
           snapshot' = [snapshot EXCEPT ![d] = snapshot'[d]], snapshot'[d] \in Seq(Nat),
           req' = [req EXCEPT ![d] = req'[d]], req'[d] \in Seq(Nat),
           resume' = [resume EXCEPT ![d] = resume'[d]], resume'[d] \in Records \cup {None},
           view' = [view EXCEPT ![Slot(d)] = view'[Slot(d)]], view'[Slot(d)] \in Records \cup {None},
           disk' = [disk EXCEPT ![Slot(d)] = disk'[Slot(d)]], disk'[Slot(d)] \in Records \cup {None},
           lock' = [lock EXCEPT ![Slot(d)] = lock'[Slot(d)]], lock'[Slot(d)] \in {d, None},
           session'[d] = 0 \/ Names(Slot(d), session'[d]),
           resume'[d] = None \/ Names(Slot(d), resume'[d].session),
           view'[Slot(d)] = None \/ Names(Slot(d), view'[Slot(d)].session),
           disk'[Slot(d)] = None \/ Names(Slot(d), disk'[Slot(d)].session),
           SlotTrue(Slot(d))', DriverTrue(d)'
    PROVE  StoreInv'
<1>0. StoreTypes /\ Slot(d) \in Slots
  BY SlotType DEF StoreInv
<1>1. StoreTypes'
  <2>1. /\ st' \in [Drivers -> States] /\ session' \in [Drivers -> Nat]
        /\ snapshot' \in [Drivers -> Seq(Nat)] /\ req' \in [Drivers -> Seq(Nat)]
    BY <1>0 DEF StoreTypes
  <2>2. resume' \in [Drivers -> Records \cup {None}]
    BY <1>0 DEF StoreTypes
  <2>3. view' \in [Slots -> Records \cup {None}]
    BY <1>0 DEF StoreTypes
  <2>4. disk' \in [Slots -> Records \cup {None}]
    BY <1>0 DEF StoreTypes
  <2>5. lock' \in [Slots -> Drivers \cup {None}]
    BY <1>0 DEF StoreTypes
  <2> QED BY <1>0, <2>1, <2>2, <2>3, <2>4, <2>5 DEF StoreTypes
<1>2. lock[Slot(d)] = d
  BY DEF StoreInv, DriverTrue
<1>3. Frame(d)
  BY DEF Frame, StoreInv, StoreTypes
<1>4. NamesKept(d)
  <2>1. ASSUME NEW n \in 1..Len(backend'), Names(Slot(d), n)' PROVE Names(Slot(d), n)
    <3>1. CASE \E e \in Drivers \ {d} : /\ Slot(e) = Slot(d)
                                       /\ \/ session'[e] = n
                                          \/ resume'[e] # None /\ resume'[e].session = n
      BY <1>0, <3>1 DEF StoreTypes, Names
    <3>2. CASE session'[d] = n
      <4>1. n # 0
        BY <2>1
      <4> QED BY <3>2, <4>1
    <3>3. CASE resume'[d] # None /\ resume'[d].session = n
      BY <3>3
    <3>4. CASE view'[Slot(d)] # None /\ view'[Slot(d)].session = n
      BY <3>4
    <3>5. CASE disk'[Slot(d)] # None /\ disk'[Slot(d)].session = n
      BY <3>5
    <3> QED BY <2>1, <3>1, <3>2, <3>3, <3>4, <3>5 DEF Names
  <2> QED BY <2>1 DEF NamesKept
<1> QED BY <1>1, <1>2, <1>3, <1>4, FrameKeeps

\* What is known of a driver and its slot before it moves.
LEMMA Before ==
    ASSUME StoreInv, NEW d \in Drivers
    PROVE  /\ StoreTypes /\ Slot(d) \in Slots /\ DriverTrue(d) /\ SlotTrue(Slot(d))
           /\ st[d] \in States /\ session[d] \in Nat /\ snapshot[d] \in Seq(Nat) /\ req[d] \in Seq(Nat)
           /\ resume[d] \in Records \cup {None}
           /\ view[Slot(d)] \in Records \cup {None} /\ disk[Slot(d)] \in Records \cup {None}
           /\ st[d] # "none" => lock[Slot(d)] = d
           /\ Names(Slot(d), session[d])
           /\ resume[d] = None \/ Names(Slot(d), resume[d].session)
           /\ view[Slot(d)] = None \/ Names(Slot(d), view[Slot(d)].session)
           /\ disk[Slot(d)] = None \/ Names(Slot(d), disk[Slot(d)].session)
<1>1. StoreTypes /\ Slot(d) \in Slots /\ DriverTrue(d) /\ SlotTrue(Slot(d))
  BY SlotType DEF StoreInv
<1>2. /\ st[d] \in States /\ session[d] \in Nat /\ snapshot[d] \in Seq(Nat) /\ req[d] \in Seq(Nat)
      /\ resume[d] \in Records \cup {None}
      /\ view[Slot(d)] \in Records \cup {None} /\ disk[Slot(d)] \in Records \cup {None}
  BY <1>1 DEF StoreTypes
<1>3. st[d] # "none" => lock[Slot(d)] = d
  BY <1>1 DEF DriverTrue
<1> QED BY <1>1, <1>2, <1>3 DEF Names

LEMMA ClaimStep ==
    ASSUME StoreInv, NEW d \in Drivers, Claim(d)
    PROVE  StoreInv'
<1>1. /\ st' = [st EXCEPT ![d] = "unstarted"] /\ lock' = [lock EXCEPT ![Slot(d)] = d]
      /\ st[d] = "none" /\ lock[Slot(d)] = None
      /\ UNCHANGED <<view, disk, session, snapshot, resume, req, conv, backend, turns>>
  BY DEF Claim, At, Goto, world
<1>2. StoreTypes /\ Slot(d) \in Slots /\ DriverTrue(d) /\ SlotTrue(Slot(d))
  BY Before
<1>3. StoreTypes'
  BY <1>1, <1>2 DEF StoreTypes, States
<1>4. Frame(d)
  BY <1>1, <1>2 DEF StoreTypes, Frame
<1>5. NamesKept(d)
  BY <1>1 DEF NamesKept, Names
<1>6. SlotTrue(Slot(d))' /\ DriverTrue(d)'
  BY <1>1, <1>2 DEF StoreTypes, SlotTrue, DriverTrue, True, Known
<1> QED BY <1>1, <1>3, <1>4, <1>5, <1>6, FrameKeeps

LEMMA StartStep ==
    ASSUME StoreInv, NEW d \in Drivers, Start(d)
    PROVE  StoreInv'
<1>1. /\ st' = [st EXCEPT ![d] = "remove"] /\ st[d] \in {"unstarted", "idle"} /\ turns' = turns + 1
      /\ UNCHANGED <<view, disk, lock, session, snapshot, conv, backend>>
  BY DEF Start, At, Goto
<1>2. PICK n \in 0..Len(conv[d[2]]) :
         LET request == Append(SubSeq(conv[d[2]], 1, n), turns')
         IN  /\ req' = [req EXCEPT ![d] = request]
             /\ \E r \in {None} \cup (IF Readable(d, request) THEN {view[Slot(d)]} ELSE {}) :
                    resume' = [resume EXCEPT ![d] = r]
  BY DEF Start
<1> DEFINE request == Append(SubSeq(conv[d[2]], 1, n), turns')
<1>3. request \in Seq(Nat) /\ turns' \in Nat
  BY SMTT(30), <1>1, Before, SlotType, RequestType DEF StoreTypes
<1> HIDE DEF request
<1>4. PICK r \in {None} \cup (IF Readable(d, request) THEN {view[Slot(d)]} ELSE {}) :
         req' = [req EXCEPT ![d] = request] /\ resume' = [resume EXCEPT ![d] = r]
  BY <1>2 DEF request
<1>5. r # None => r = view[Slot(d)] /\ IsPrefix(r.history, request)
  BY <1>4 DEF Readable, Extends
<1>6. /\ st'[d] = "remove" /\ req'[d] = request /\ resume'[d] = r
  BY <1>1, <1>4, Before DEF StoreTypes
<1>7. SlotTrue(Slot(d))'
  BY <1>1, Before DEF SlotTrue, True, Known
<1>8. DriverTrue(d)'
  BY <1>1, <1>5, <1>6, Before DEF SlotTrue, DriverTrue, True, Known
<1>9. r \in Records \cup {None} /\ (r = None \/ Names(Slot(d), r.session))
  BY <1>5, Before
<1>10. /\ view' = [view EXCEPT ![Slot(d)] = view'[Slot(d)]]
       /\ disk' = [disk EXCEPT ![Slot(d)] = disk'[Slot(d)]]
       /\ lock' = [lock EXCEPT ![Slot(d)] = lock'[Slot(d)]]
       /\ session' = [session EXCEPT ![d] = session'[d]]
       /\ snapshot' = [snapshot EXCEPT ![d] = snapshot'[d]]
  BY <1>1, Before DEF StoreTypes
<1> QED BY ZenonT(60), <1>1, <1>3, <1>4, <1>6, <1>7, <1>8, <1>9, <1>10, Before, QuietKeeps DEF States, StoreTypes

LEMMA Unmoved ==
    ASSUME StoreInv, NEW d \in Drivers
    PROVE  /\ st = [st EXCEPT ![d] = st[d]] /\ session = [session EXCEPT ![d] = session[d]]
           /\ snapshot = [snapshot EXCEPT ![d] = snapshot[d]] /\ req = [req EXCEPT ![d] = req[d]]
           /\ resume = [resume EXCEPT ![d] = resume[d]]
           /\ view = [view EXCEPT ![Slot(d)] = view[Slot(d)]]
           /\ disk = [disk EXCEPT ![Slot(d)] = disk[Slot(d)]]
           /\ lock = [lock EXCEPT ![Slot(d)] = lock[Slot(d)]]
           /\ conv \in [Keys -> Seq(Nat)] /\ turns \in Nat /\ <<>> \in Seq(Nat) /\ 0 \in Nat
BY Before DEF StoreTypes

LEMMA InvalidateRemovesStep ==
    ASSUME StoreInv, NEW d \in Drivers, InvalidateRemoves(d)
    PROVE  StoreInv'
<1>1. /\ st[d] = "remove"
      /\ view' = [view EXCEPT ![Slot(d)] = None]
      /\ st' = [st EXCEPT ![d] = "sync"]
      /\ UNCHANGED <<disk, lock, session, snapshot, resume, req, conv, backend, turns>>
  BY DEF InvalidateRemoves, At, Goto, world
<1>2. /\ view'[Slot(d)] = None
      /\ st'[d] = "sync"
  BY <1>1, Before DEF StoreTypes
<1>3. SlotTrue(Slot(d))' /\ DriverTrue(d)'
  BY <1>1, <1>2, Before DEF SlotTrue, DriverTrue, True, Known
<1> QED BY <1>1, <1>2, <1>3, Before, Unmoved, QuietKeeps DEF States

LEMMA InvalidateSyncsStep ==
    ASSUME StoreInv, NEW d \in Drivers, InvalidateSyncs(d)
    PROVE  StoreInv'
<1>1. /\ st[d] = "sync"
      /\ disk' = [disk EXCEPT ![Slot(d)] = view[Slot(d)]]
      /\ st' = [st EXCEPT ![d] = "prepare"]
      /\ UNCHANGED <<view, lock, session, snapshot, resume, req, conv, backend, turns>>
  BY DEF InvalidateSyncs, At, Goto, world
<1>2. /\ disk'[Slot(d)] = view[Slot(d)]
      /\ st'[d] = "prepare"
  BY <1>1, Before DEF StoreTypes
<1>3. SlotTrue(Slot(d))' /\ DriverTrue(d)'
  BY <1>1, <1>2, Before DEF SlotTrue, DriverTrue, True, Known
<1> QED BY <1>1, <1>2, <1>3, Before, Unmoved, QuietKeeps DEF States

LEMMA InvalidateFailsStep ==
    ASSUME StoreInv, NEW d \in Drivers, InvalidateFails(d)
    PROVE  StoreInv'
<1>1. /\ st[d] \in {"remove", "sync"}
      /\ st' = [st EXCEPT ![d] = IF session[d] = 0 THEN "unstarted" ELSE "idle"]
      /\ resume' = [resume EXCEPT ![d] = None]
      /\ req' = [req EXCEPT ![d] = <<>>]
      /\ UNCHANGED <<view, disk, lock, session, snapshot, conv, backend, turns>>
  BY DEF InvalidateFails, At, Goto, world
<1>2. /\ st'[d] = (IF session[d] = 0 THEN "unstarted" ELSE "idle")
      /\ resume'[d] = None
      /\ req'[d] = <<>>
  BY <1>1, Before DEF StoreTypes
<1>3. SlotTrue(Slot(d))' /\ DriverTrue(d)'
  BY <1>1, <1>2, Before DEF SlotTrue, DriverTrue, True, Known
<1> QED BY <1>1, <1>2, <1>3, Before, Unmoved, QuietKeeps DEF States

LEMMA LoadsStep ==
    ASSUME StoreInv, NEW d \in Drivers, Loads(d)
    PROVE  StoreInv'
<1>1. /\ st[d] = "prepare" /\ resume[d] # None
      /\ st' = [st EXCEPT ![d] = "prepared"]
      /\ session' = [session EXCEPT ![d] = resume[d].session]
      /\ snapshot' = [snapshot EXCEPT ![d] = resume[d].history]
      /\ resume' = [resume EXCEPT ![d] = None]
      /\ UNCHANGED <<view, disk, lock, req, conv, backend, turns>>
  BY DEF Loads, At, Goto, world
<1>2. /\ st'[d] = "prepared"
      /\ session'[d] = resume[d].session
      /\ snapshot'[d] = resume[d].history
      /\ resume'[d] = None
  BY <1>1, Before DEF StoreTypes
<1>3. session'[d] \in Nat /\ snapshot'[d] \in Seq(Nat)
  BY <1>1, <1>2, Before DEF Records
<1>4. SlotTrue(Slot(d))' /\ DriverTrue(d)'
  BY <1>1, <1>2, Before DEF SlotTrue, DriverTrue, True, Known, Records
<1> QED BY <1>1, <1>2, <1>3, <1>4, Before, Unmoved, QuietKeeps DEF States

LEMMA LoadFailsStep ==
    ASSUME StoreInv, NEW d \in Drivers, LoadFails(d)
    PROVE  StoreInv'
<1>1. /\ st[d] = "prepare"
      /\ resume' = [resume EXCEPT ![d] = None]
      /\ UNCHANGED <<view, disk, lock, st, session, snapshot, req, conv, backend, turns>>
  BY DEF LoadFails, At, Goto, world
<1>2. /\ resume'[d] = None
  BY <1>1, Before DEF StoreTypes
<1>3. SlotTrue(Slot(d))' /\ DriverTrue(d)'
  BY <1>1, <1>2, Before DEF SlotTrue, DriverTrue, True, Known
<1> QED BY <1>1, <1>2, <1>3, Before, Unmoved, QuietKeeps DEF States

LEMMA ReusesStep ==
    ASSUME StoreInv, NEW d \in Drivers, Reuses(d)
    PROVE  StoreInv'
<1>1. /\ st[d] = "prepare" /\ resume[d] = None /\ session[d] # 0 /\ IsPrefix(snapshot[d], req[d])
      /\ st' = [st EXCEPT ![d] = "prepared"]
      /\ UNCHANGED <<view, disk, lock, session, snapshot, resume, req, conv, backend, turns>>
  BY DEF Reuses, At, Goto, world, Extends
<1>2. /\ st'[d] = "prepared"
  BY <1>1, Before DEF StoreTypes
<1>3. SlotTrue(Slot(d))' /\ DriverTrue(d)'
  BY <1>1, <1>2, Before DEF SlotTrue, DriverTrue, True, Known
<1> QED BY <1>1, <1>2, <1>3, Before, Unmoved, QuietKeeps DEF States

LEMMA StartFailsStep ==
    ASSUME StoreInv, NEW d \in Drivers, StartFails(d)
    PROVE  StoreInv'
<1>1. /\ st[d] \in {"prepare", "prepared"}
      /\ st' = [st EXCEPT ![d] = "unstarted"]
      /\ session' = [session EXCEPT ![d] = 0]
      /\ snapshot' = [snapshot EXCEPT ![d] = <<>>]
      /\ resume' = [resume EXCEPT ![d] = None]
      /\ req' = [req EXCEPT ![d] = <<>>]
      /\ UNCHANGED <<view, disk, lock, conv, backend, turns>>
  BY DEF StartFails, At, Goto, world, Drops
<1>2. /\ st'[d] = "unstarted"
      /\ session'[d] = 0
      /\ snapshot'[d] = <<>>
      /\ resume'[d] = None
      /\ req'[d] = <<>>
  BY <1>1, Before DEF StoreTypes
<1>3. SlotTrue(Slot(d))' /\ DriverTrue(d)'
  BY <1>1, <1>2, Before DEF SlotTrue, DriverTrue, True, Known
<1> QED BY <1>1, <1>2, <1>3, Before, Unmoved, QuietKeeps DEF States

LEMMA SaveRenamesStep ==
    ASSUME StoreInv, NEW d \in Drivers, SaveRenames(d)
    PROVE  StoreInv'
<1>1. /\ st[d] = "save"
      /\ view' = [view EXCEPT ![Slot(d)] =
                      [key |-> d[2], session |-> session[d], history |-> snapshot[d]]]
      /\ st' = [st EXCEPT ![d] = "saved"]
      /\ UNCHANGED <<disk, lock, session, snapshot, resume, req, conv, backend, turns>>
  BY DEF SaveRenames, At, Goto, world
<1>2. /\ view'[Slot(d)] = [key |-> d[2], session |-> session[d], history |-> snapshot[d]]
      /\ st'[d] = "saved"
  BY <1>1, Before DEF StoreTypes
<1>3. view'[Slot(d)] \in Records /\ view'[Slot(d)].session = session[d]
  BY <1>1, <1>2, Before, SlotType DEF Records, DriverTrue
<1>4. SlotTrue(Slot(d))' /\ DriverTrue(d)'
  <2>1. session[d] # 0 /\ Known(session[d]) /\ backend[session[d]] = snapshot[d]
        /\ disk[Slot(d)] = None /\ resume[d] = None
    BY <1>1, Before DEF DriverTrue
  <2>2. view'[Slot(d)].session = session[d] /\ view'[Slot(d)].history = snapshot[d]
    BY <1>2
  <2>3. SlotTrue(Slot(d))'
    BY <1>1, <2>1, <2>2 DEF SlotTrue, True, Known
  <2> QED BY <1>1, <1>2, <2>1, <2>3, Before DEF DriverTrue, Known
<1> QED BY <1>1, <1>2, <1>3, <1>4, Before, Unmoved, QuietKeeps DEF States

LEMMA SaveSyncsStep ==
    ASSUME StoreInv, NEW d \in Drivers, SaveSyncs(d)
    PROVE  StoreInv'
<1>1. /\ st[d] = "saved"
      /\ disk' = [disk EXCEPT ![Slot(d)] = view[Slot(d)]]
      /\ st' = [st EXCEPT ![d] = "idle"]
      /\ UNCHANGED <<view, lock, session, snapshot, resume, req, conv, backend, turns>>
  BY DEF SaveSyncs, At, Goto, world
<1>2. /\ disk'[Slot(d)] = view[Slot(d)]
      /\ st'[d] = "idle"
  BY <1>1, Before DEF StoreTypes
<1>3. SlotTrue(Slot(d))' /\ DriverTrue(d)'
  BY <1>1, <1>2, Before DEF SlotTrue, DriverTrue, True, Known
<1> QED BY <1>1, <1>2, <1>3, Before, Unmoved, QuietKeeps DEF States

LEMMA SaveFailsStep ==
    ASSUME StoreInv, NEW d \in Drivers, SaveFails(d)
    PROVE  StoreInv'
<1>1. /\ st[d] \in {"save", "saved"}
      /\ st' = [st EXCEPT ![d] = "idle"]
      /\ UNCHANGED <<view, disk, lock, session, snapshot, resume, req, conv, backend, turns>>
  BY DEF SaveFails, At, Goto, world
<1>2. /\ st'[d] = "idle"
  BY <1>1, Before DEF StoreTypes
<1>3. SlotTrue(Slot(d))' /\ DriverTrue(d)'
  BY <1>1, <1>2, Before DEF SlotTrue, DriverTrue, True, Known
<1> QED BY <1>1, <1>2, <1>3, Before, Unmoved, QuietKeeps DEF States

LEMMA BackendEndsStep ==
    ASSUME StoreInv, NEW d \in Drivers, BackendEnds(d)
    PROVE  StoreInv'
<1>1. /\ st[d] = "idle"
      /\ st' = [st EXCEPT ![d] = "unstarted"]
      /\ session' = [session EXCEPT ![d] = 0]
      /\ snapshot' = [snapshot EXCEPT ![d] = <<>>]
      /\ resume' = [resume EXCEPT ![d] = None]
      /\ req' = [req EXCEPT ![d] = <<>>]
      /\ UNCHANGED <<view, disk, lock, conv, backend, turns>>
  BY DEF BackendEnds, At, Goto, world, Drops
<1>2. /\ st'[d] = "unstarted"
      /\ session'[d] = 0
      /\ snapshot'[d] = <<>>
      /\ resume'[d] = None
      /\ req'[d] = <<>>
  BY <1>1, Before DEF StoreTypes
<1>3. SlotTrue(Slot(d))' /\ DriverTrue(d)'
  BY <1>1, <1>2, Before DEF SlotTrue, DriverTrue, True, Known
<1> QED BY <1>1, <1>2, <1>3, Before, Unmoved, QuietKeeps DEF States

LEMMA ClosesClientStep ==
    ASSUME StoreInv, NEW d \in Drivers, ClosesClient(d)
    PROVE  StoreInv'
<1>1. /\ st[d] \in {"unstarted", "idle"}
      /\ st' = [st EXCEPT ![d] = "closing"]
      /\ session' = [session EXCEPT ![d] = 0]
      /\ snapshot' = [snapshot EXCEPT ![d] = <<>>]
      /\ resume' = [resume EXCEPT ![d] = None]
      /\ req' = [req EXCEPT ![d] = <<>>]
      /\ UNCHANGED <<view, disk, lock, conv, backend, turns>>
  BY DEF ClosesClient, At, Goto, world, Drops
<1>2. /\ st'[d] = "closing"
      /\ session'[d] = 0
      /\ snapshot'[d] = <<>>
      /\ resume'[d] = None
      /\ req'[d] = <<>>
  BY <1>1, Before DEF StoreTypes
<1>3. SlotTrue(Slot(d))' /\ DriverTrue(d)'
  BY <1>1, <1>2, Before DEF SlotTrue, DriverTrue, True, Known
<1> QED BY <1>1, <1>2, <1>3, Before, Unmoved, QuietKeeps DEF States

LEMMA ClosesStep ==
    ASSUME StoreInv, NEW d \in Drivers, Closes(d)
    PROVE  StoreInv'
<1>1. /\ st[d] = "closing"
      /\ lock' = [lock EXCEPT ![Slot(d)] = IF @ = d THEN None ELSE @]
      /\ st' = [st EXCEPT ![d] = "none"]
      /\ session' = [session EXCEPT ![d] = 0]
      /\ snapshot' = [snapshot EXCEPT ![d] = <<>>]
      /\ resume' = [resume EXCEPT ![d] = None]
      /\ req' = [req EXCEPT ![d] = <<>>]
      /\ UNCHANGED <<view, disk, conv, backend, turns>>
  BY DEF Closes, At, Goto, world, Drops
<1>2. /\ lock'[Slot(d)] = None
      /\ st'[d] = "none"
      /\ session'[d] = 0
      /\ snapshot'[d] = <<>>
      /\ resume'[d] = None
      /\ req'[d] = <<>>
  BY <1>1, Before DEF StoreTypes
<1>3. SlotTrue(Slot(d))' /\ DriverTrue(d)'
  BY <1>1, <1>2, Before DEF SlotTrue, DriverTrue, True, Known
<1> QED BY <1>1, <1>2, <1>3, Before, Unmoved, QuietKeeps DEF States

LEMMA CompletesStep ==
    ASSUME StoreInv, NEW d \in Drivers, Completes(d)
    PROVE  StoreInv'
<1>1. /\ st[d] = "prompting"
      /\ st' = [st EXCEPT ![d] = "save"]
      /\ snapshot' = [snapshot EXCEPT ![d] = req[d]]
      /\ req' = [req EXCEPT ![d] = <<>>]
      /\ conv' \in {conv, [conv EXCEPT ![d[2]] = req[d]]}
      /\ UNCHANGED <<view, disk, lock, session, resume, backend, turns>>
  BY DEF Completes, At, Goto
<1>2. /\ st'[d] = "save"
      /\ snapshot'[d] = req[d]
      /\ req'[d] = <<>>
  BY <1>1, Before DEF StoreTypes
<1>3. conv' \in [Keys -> Seq(Nat)]
  BY <1>1, Before, SlotType DEF StoreTypes
<1>4. SlotTrue(Slot(d))' /\ DriverTrue(d)'
  BY <1>1, <1>2, Before DEF SlotTrue, DriverTrue, True, Known
<1> QED BY <1>1, <1>2, <1>3, <1>4, Before, Unmoved, QuietKeeps DEF States

LEMMA AbortsStep ==
    ASSUME StoreInv, NEW d \in Drivers, Aborts(d)
    PROVE  StoreInv'
<1>1. /\ st[d] = "prompting"
      /\ st' = [st EXCEPT ![d] = "unstarted"]
      /\ session' = [session EXCEPT ![d] = 0]
      /\ snapshot' = [snapshot EXCEPT ![d] = <<>>]
      /\ resume' = [resume EXCEPT ![d] = None]
      /\ req' = [req EXCEPT ![d] = <<>>]
      /\ conv' \in {conv, [conv EXCEPT ![d[2]] = req[d]]}
      /\ UNCHANGED <<view, disk, lock, backend, turns>>
  BY DEF Aborts, At, Goto, Drops
<1>2. /\ st'[d] = "unstarted"
      /\ session'[d] = 0
      /\ snapshot'[d] = <<>>
      /\ resume'[d] = None
      /\ req'[d] = <<>>
  BY <1>1, Before DEF StoreTypes
<1>3. conv' \in [Keys -> Seq(Nat)]
  BY <1>1, Before, SlotType DEF StoreTypes
<1>4. SlotTrue(Slot(d))' /\ DriverTrue(d)'
  BY <1>1, <1>2, Before DEF SlotTrue, DriverTrue, True, Known
<1> QED BY ZenonT(60), <1>1, <1>2, <1>3, <1>4, Before, Unmoved, QuietKeeps DEF States

LEMMA CreatesStep ==
    ASSUME StoreInv, NEW d \in Drivers, Creates(d)
    PROVE  StoreInv'
<1>1. /\ st[d] = "prepare" /\ resume[d] = None
      /\ backend' = Append(backend, <<>>)
      /\ st' = [st EXCEPT ![d] = "prepared"] /\ session' = [session EXCEPT ![d] = Len(backend')]
      /\ snapshot' = [snapshot EXCEPT ![d] = <<>>]
      /\ UNCHANGED <<view, disk, lock, resume, req, conv, turns>>
  BY DEF Creates, At, Goto
<1>2. /\ backend' \in Seq(Seq(Nat)) /\ Len(backend') = Len(backend) + 1 /\ Len(backend) \in Nat
      /\ \A n \in 1..Len(backend) : backend'[n] = backend[n]
      /\ backend'[Len(backend) + 1] = <<>>
  BY <1>1, Before, AppendProperties DEF StoreTypes
<1>3. st'[d] = "prepared" /\ session'[d] = Len(backend) + 1 /\ snapshot'[d] = <<>>
  BY <1>1, <1>2, Before DEF StoreTypes
<1>4. StoreTypes'
  BY <1>1, <1>2, Before, Unmoved DEF StoreTypes, States
<1>5. Frame(d)
  BY <1>1, <1>2, <1>3, Unmoved DEF Frame
<1>6. SlotTrue(Slot(d))'
  BY <1>1, Before DEF SlotTrue, DriverTrue
<1>7. DriverTrue(d)'
  BY <1>1, <1>2, <1>3, Before, EmptyPrefix DEF DriverTrue, Known
<1>8. NamesKept(d)
  <2>1. \A e \in Drivers \ {d} : session'[e] = session[e]
    BY <1>1, Before DEF StoreTypes
  <2> QED BY <1>1, <1>3, <2>1 DEF NamesKept, Names
<1>9. lock[Slot(d)] = d
  BY <1>1, Before
<1> QED BY <1>4, <1>5, <1>6, <1>7, <1>8, <1>9, FrameKeeps

LEMMA PromptsStep ==
    ASSUME StoreInv, NEW d \in Drivers, Prompts(d)
    PROVE  StoreInv'
<1> DEFINE told == backend[session[d]] \o SubSeq(req[d], Len(snapshot[d]) + 1, Len(req[d]))
<1>1. /\ st[d] = "prepared" /\ st' = [st EXCEPT ![d] = "prompting"]
      /\ backend' = [backend EXCEPT ![session[d]] = told]
      /\ UNCHANGED <<view, disk, lock, session, snapshot, resume, req, conv, turns>>
  BY DEF Prompts, At, Goto
<1>2. /\ session[d] # 0 /\ Known(session[d]) /\ backend[session[d]] = snapshot[d]
      /\ IsPrefix(snapshot[d], req[d]) /\ view[Slot(d)] = None /\ disk[Slot(d)] = None
      /\ resume[d] = None
  BY <1>1, Before DEF DriverTrue
<1>3. told = req[d]
  BY <1>2, Before, Completed
<1> HIDE DEF told
<1>4. /\ backend' \in Seq(Seq(Nat)) /\ Len(backend') = Len(backend) /\ Len(backend) \in Nat
      /\ backend'[session[d]] = req[d]
      /\ \A n \in 1..Len(backend) : n # session[d] => backend'[n] = backend[n]
  BY <1>1, <1>2, <1>3, Before DEF StoreTypes, Known
<1>5. st'[d] = "prompting"
  BY <1>1, Before DEF StoreTypes
<1>6. StoreTypes'
  BY <1>1, <1>4, Before, Unmoved DEF StoreTypes, States
<1>7. Frame(d)
  BY <1>1, <1>4, <1>5, Unmoved DEF Frame
<1>8. SlotTrue(Slot(d))'
  BY <1>1, <1>2 DEF SlotTrue
<1>9. DriverTrue(d)'
  BY <1>1, <1>2, <1>4, <1>5, Before DEF DriverTrue, Known
<1>10. NamesKept(d) /\ lock[Slot(d)] = d
  BY <1>1, <1>4, Before DEF NamesKept, Names
<1> QED BY <1>6, <1>7, <1>8, <1>9, <1>10, FrameKeeps

\* Processes end, and either nothing happens to the records or nobody is left.
LEMMA GoneStep ==
    ASSUME StoreInv, NEW ps \in SUBSET Procs, Gone(ps), UNCHANGED <<conv, backend, turns>>,
           UNCHANGED <<view, disk>> \/ ps = Procs,
           view' \in [Slots -> Records \cup {None}], disk' \in [Slots -> Records \cup {None}],
           \A s \in Slots : view'[s] \in {view[s], disk[s]} /\ disk'[s] \in {view[s], disk[s]}
    PROVE  StoreInv'
<1> DEFINE gone == {d \in Drivers : d[1] \in ps}
<1>1. /\ st' = [d \in Drivers |-> IF d \in gone THEN "none" ELSE st[d]]
      /\ session' = [d \in Drivers |-> IF d \in gone THEN 0 ELSE session[d]]
      /\ snapshot' = [d \in Drivers |-> IF d \in gone THEN <<>> ELSE snapshot[d]]
      /\ resume' = [d \in Drivers |-> IF d \in gone THEN None ELSE resume[d]]
      /\ req' = [d \in Drivers |-> IF d \in gone THEN <<>> ELSE req[d]]
      /\ lock' = [s \in Slots |-> IF lock[s] \in gone THEN None ELSE lock[s]]
  BY DEF Gone
<1>2. ps = Procs => gone = Drivers
  BY DEF Drivers
<1>3. gone \subseteq Drivers
  OBVIOUS
<1> HIDE DEF gone
<1>4. StoreTypes'
  BY <1>1 DEF StoreInv, StoreTypes, States
<1>5. ASSUME NEW s \in Slots PROVE SlotTrue(s)'
  BY <1>5 DEF StoreInv, SlotTrue, True, Known
<1>6. ASSUME NEW d \in gone PROVE DriverTrue(d)'
  BY <1>1, <1>3, <1>6 DEF DriverTrue
<1>7. ASSUME NEW d \in Drivers \ gone PROVE DriverTrue(d)'
  <2>1. UNCHANGED <<view, disk>>
    BY <1>2, <1>7
  <2>2. /\ st'[d] = st[d] /\ session'[d] = session[d] /\ snapshot'[d] = snapshot[d]
        /\ resume'[d] = resume[d] /\ req'[d] = req[d]
        /\ lock[Slot(d)] = d => lock'[Slot(d)] = d
    BY <1>1, <1>7, SlotType
  <2> QED BY <1>7, <2>1, <2>2 DEF StoreInv, DriverTrue, True, Known
<1>8. ASSUME NEW s \in Slots, NEW n \in 1..Len(backend), Names(s, n)' PROVE Names(s, n)
  <2>1. \A d \in Drivers : /\ session'[d] \in {0, session[d]} /\ resume'[d] \in {None, resume[d]}
    BY <1>1
  <2>2. n # 0
    BY <1>8
  <2> QED BY <1>8, <2>1, <2>2 DEF Names
<1>9. Apart'
  BY <1>8 DEF StoreInv, Apart
<1> QED BY <1>4, <1>5, <1>6, <1>7, <1>9 DEF StoreInv

LEMMA StoreStep ==
    ASSUME StoreInv, [Next]_vars
    PROVE  StoreInv'
<1>1. ASSUME NEW d \in Drivers, Works(d) PROVE StoreInv'
  BY <1>1, ClaimStep, StartStep, InvalidateRemovesStep, InvalidateSyncsStep, InvalidateFailsStep,
     LoadsStep, LoadFailsStep, ReusesStep, CreatesStep, StartFailsStep, PromptsStep, CompletesStep,
     AbortsStep, SaveRenamesStep, SaveSyncsStep, SaveFailsStep, BackendEndsStep, ClosesClientStep,
     ClosesStep DEF Works
<1>2. ASSUME NEW p \in Procs, Crash(p) PROVE StoreInv'
  <2>1. Gone({p}) /\ UNCHANGED <<view, disk, conv, backend, turns>>
    BY <1>2 DEF Crash, world
  <2>2. {p} \in SUBSET Procs /\ StoreTypes
    BY <1>2 DEF StoreInv
  <2> QED BY <2>1, <2>2, GoneStep DEF StoreTypes
<1>3. CASE PowerLoss
  <2>1. PICK undone \in SUBSET Slots :
            view' = [s \in Slots |-> IF s \in undone THEN disk[s] ELSE view[s]]
    BY <1>3 DEF PowerLoss
  <2>2. Gone(Procs) /\ disk' = view' /\ UNCHANGED <<conv, backend, turns>>
    BY <1>3 DEF PowerLoss, world
  <2>3. \A s \in Slots : view'[s] \in {view[s], disk[s]}
    BY <2>1
  <2>4. view' \in [Slots -> Records \cup {None}]
    BY <2>1 DEF StoreInv, StoreTypes
  <2>5. Procs \in SUBSET Procs
    OBVIOUS
  <2> QED BY <2>2, <2>3, <2>4, <2>5, GoneStep
<1>4. CASE UNCHANGED <<view, disk, lock, own, world>>
  BY <1>4 DEF own, world, StoreInv, StoreTypes, SlotTrue, DriverTrue, Apart, Names, True, Known, Slot
<1>5. ASSUME NEW p \in Procs, Boot(p) PROVE UNCHANGED <<view, disk, lock, own, world>>
  BY <1>5 DEF Boot, KeyLock, KeyRead, KeyNew, KeyWrite, KeySync
<1> QED BY <1>1, <1>2, <1>3, <1>4, <1>5 DEF Next, vars

LEMMA StoreAlways == Spec => []StoreInv
<1>1. Init => StoreInv
  <2> SUFFICES ASSUME Init PROVE StoreInv
    OBVIOUS
  <2>1. StoreTypes
    BY DEF Init, StoreTypes, States
  <2>2. \A d \in Drivers : DriverTrue(d)
    BY SlotType DEF Init, DriverTrue
  <2>3. \A s \in Slots : SlotTrue(s)
    BY DEF Init, SlotTrue
  <2>4. Apart
    BY DEF Init, Apart
  <2> QED BY <2>1, <2>2, <2>3, <2>4 DEF StoreInv
<1> QED BY <1>1, StoreStep, PTL DEF Spec

\* A record, as the processes or as the disk have it, states what its backend session has been told,
\* whatever crashed: Lease.Invalidate has removed it for good before the session is told more.
THEOREM RecordHolds == Spec => []RecordTrue
<1>1. StoreInv => RecordTrue
  BY DEF StoreInv, SlotTrue, True, RecordTrue
<1> QED BY <1>1, StoreAlways, PTL

\* While a prompt is under way its session has been told the request's history and nothing else,
\* whether Driver.Start made the session, kept it or loaded it from a record.
THEOREM ContextHolds == Spec => []ContextExact
<1>1. StoreInv => ContextExact
  BY DEF StoreInv, DriverTrue, ContextExact, At
<1> QED BY <1>1, StoreAlways, PTL
=============================================================================
