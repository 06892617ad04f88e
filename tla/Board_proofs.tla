----------------------------- MODULE Board_proofs -----------------------------
(***************************************************************************)
(* The proof that the goroutines of one Reconciler implement StatusBoard,  *)
(* however many and with every failure (but no disable, as in              *)
(* AtRest_proofs).                                                         *)
(***************************************************************************)
EXTENDS AtRest_proofs

(***************************************************************************)
(* Statuses.                                                               *)
(***************************************************************************)
LEMMA StatusShape ==
  ASSUME NEW r \in Records
  PROVE  /\ Status(r) \in Board!Statuses
         /\ Status(r).by = r.by
         /\ ~Ours(r) => Status(r) = [by |-> r.by, torn |-> FALSE]
         /\ Ours(r) => Status(r) = [by |-> r.by, torn |-> r.torn]
BY DEF Status, Records, Board!Statuses

LEMMA WantedShape ==
  ASSUME TypeOK, NEW g \in Games
  PROVE  Wanted(g) \subseteq Board!Statuses
<1>1. Status(NoRecord) \in Board!Statuses
  BY RecordShapes, StatusShape
<1>2. ASSUME NEW s \in Sources
      PROVE  [by |-> s, torn |-> row[s].torn] \in Board!Statuses
  BY DEF TypeOK, Rows, Board!Statuses
<1> QED
  BY <1>1, <1>2 DEF Wanted

\* What a finished walk comes to is wanted.
LEMMA PickedIsWanted ==
  ASSUME NEW r \in Records, NEW g \in Games, Picked(r, g, On)
  PROVE  Status(r) \in Wanted(g)
<1>1. CASE r.by = None /\ \A s \in On : row[s].key # g
  <2>1. ~Ours(r) /\ ~Ours(NoRecord)
    BY <1>1, SourcesAssumption DEF Ours, NoRecord
  <2>2. Status(r) = Status(NoRecord)
    BY <1>1, <2>1, RecordShapes, StatusShape DEF NoRecord
  <2> QED
    BY <1>1, <2>2 DEF Wanted
<1>2. ASSUME NEW s \in Sources, Wins(s, g, On), r.by = s, r.torn = row[s].torn
      PROVE  Status(r) \in Wanted(g)
  <2>1. Status(r) = [by |-> s, torn |-> row[s].torn]
    BY <1>2, StatusShape DEF Ours
  <2> QED
    BY <1>2, <2>1 DEF Wanted
<1> QED
  BY <1>1, <1>2 DEF Picked

LEMMA ConsistentIsFaithful ==
  ASSUME TypeOK, Consistent
  PROVE  Board!Faithful
<1> SUFFICES ASSUME NEW g \in Games
             PROVE  Status(pds[g]).by = Rival \/ Status(pds[g]) \in Wanted(g)
  BY DEF Board!Faithful
<1>1. pds[g] \in Records /\ Published(g)
  BY DEF TypeOK, Consistent
<1>2. pds[g].by = Rival \/ Picked(pds[g], g, On)
  BY <1>1 DEF Published, Picked
<1> QED
  BY <1>1, <1>2, StatusShape, PickedIsWanted

\* One record changes, and with it one status.
LEMMA OneStatus ==
  ASSUME TypeOK, NEW g \in Games, NEW r \in Records, pds' = [pds EXCEPT ![g] = r]
  PROVE  [h \in Games |-> Status(pds[h])]'
           = [[h \in Games |-> Status(pds[h])] EXCEPT ![g] = Status(r)]
BY DEF TypeOK, Status, Ours

LEMMA SameStatuses ==
  ASSUME UNCHANGED pds
  PROVE  UNCHANGED [h \in Games |-> Status(pds[h])]
BY DEF Status, Ours

LEMMA SameWanted ==
  ASSUME UNCHANGED <<row, on, prio>>
  PROVE  UNCHANGED On /\ UNCHANGED [g \in Games |-> Wanted(g)]
BY DEF On, Wanted, Wins, Status, Ours

(***************************************************************************)
(* Rounds.                                                                 *)
(***************************************************************************)
LEMMA SameRound ==
  ASSUME \A q \in Procs : Inside(q)' = Inside(q),
         \A q \in Procs : Inside(q) => pass'[q].muted = pass[q].muted
  PROVE  UNCHANGED Barred /\ UNCHANGED (\E p \in Procs : Inside(p))
BY DEF Barred

LEMMA SameDue ==
  ASSUME UNCHANGED owed, \A q \in Procs : Pending(q)' = Pending(q)
  PROVE  UNCHANGED Due
BY DEF Due

LEMMA OneRound ==
  ASSUME LockDiscipline, TypeOK, OneShared, NEW p \in Procs, Inside(p)
  PROVE  Barred = pass[p].muted
BY OneInside DEF Barred

LEMMA NoRound ==
  ASSUME \A q \in Procs : ~Inside(q)
  PROVE  Barred = {}
BY DEF Barred

\* What a round has barred is off.
LEMMA BarredOff ==
  ASSUME SilentInv
  PROVE  Barred \cap On = {} /\ silent \cap On = {}
BY DEF SilentInv, Barred, On

LEMMA NewWantedShape ==
  ASSUME TypeOK', NEW g \in Games
  PROVE  Wanted(g)' \subseteq Board!Statuses
<1>1. Status(NoRecord)' \in Board!Statuses
  BY RecordShapes, StatusShape DEF Status, Ours, NoRecord
<1>2. ASSUME NEW s \in Sources
      PROVE  [by |-> s, torn |-> row'[s].torn] \in Board!Statuses
  BY DEF TypeOK, Rows, Board!Statuses
<1> QED
  BY <1>1, <1>2 DEF Wanted

(***************************************************************************)
(* The steps.                                                              *)
(***************************************************************************)
LEMMA AsideChanges ==
  ASSUME TypeOK', SilentInv, Aside, Due',
         UNCHANGED [g \in Games |-> Status(pds[g])]
  PROVE  Board!Change
<1>1. UNCHANGED Barred /\ UNCHANGED (\E p \in Procs : Inside(p)) /\ UNCHANGED silent
  BY SameRound DEF Aside
<1>2. On' \subseteq On /\ On' \in SUBSET Sources
  BY DEF Aside, On
<1>3. [g \in Games |-> Wanted(g)]' \in [Games -> SUBSET Board!Statuses]
  BY NewWantedShape
<1>4. Barred' = Barred \ On' /\ silent' = silent \ On'
  BY <1>1, <1>2, BarredOff
<1> QED
  BY <1>1, <1>2, <1>3, <1>4 DEF Board!Change

LEMMA LockOpens ==
  ASSUME TypeOK, LockDiscipline, OneShared, NEW p \in Procs, Lock(p)
  PROVE  Board!Open
<1>1. \A q \in Procs : ~Inside(q)
  BY NobodyInside
<1>2. /\ pc'[p] = "walk" /\ UNCHANGED <<row, on, prio, pds, silent>>
      /\ \A q \in Procs : q # p => pc'[q] = pc[q]
      /\ pass'[p].muted = Sources \ On
  BY DEF Lock, Goto, dbVars, TypeOK, NoPass
<1>3. Due /\ Due' \in BOOLEAN
  BY DEF Lock, Due, Pending
<1>4. Barred' = Sources \ On
  BY <1>1, <1>2 DEF Barred, Inside
<1>5. Inside(p)'
  BY <1>2 DEF Inside
<1> QED
  BY <1>1, <1>2, <1>3, <1>4, <1>5, SameWanted, SameStatuses DEF Board!Open

LEMMA WriteWrites ==
  ASSUME TypeOK, LockDiscipline, MutedUnseen, SilentInv, PublishedInv, OneShared,
         NEW p \in Procs, DeleteStatus(p) \/ PutStatus(p)
  PROVE  \E g \in Games, r \in Board!Statuses : Board!Write(g, r)
<1>1. PICK g \in pass[p].work : WriteStatus(p, g)
  BY DEF DeleteStatus, PutStatus, Deletes
<1>2. pc[p] = "write" /\ pass[p] \in Passes
  BY DEF DeleteStatus, PutStatus, TypeOK
<1>3. g \in Games /\ pass[p].desired[g] \in Records
  BY <1>2, PassFields
<1> DEFINE r == pass[p].desired[g]
<1>4. /\ UNCHANGED <<row, on, prio, pc, owed, silent>> /\ pds' = [pds EXCEPT ![g] = r]
      /\ \A q \in Procs : pass'[q].muted = pass[q].muted
  BY <1>1, <1>2 DEF WriteStatus, dbVars, TypeOK, Passes
<1>5. r.by \notin Barred \cup silent \cup {Rival}
  BY <1>2, <1>3, OneRound DEF MutedUnseen, SilentInv, Inside
<1>6. Due \/ Status(r) \in Wanted(g)
  <2> SUFFICES ASSUME ~Due
               PROVE  Status(r) \in Wanted(g)
    OBVIOUS
  <2>1. Tracks(p)
    BY <1>2 DEF Due, Settled, PublishedInv, Inside
  <2>2. Picked(r, g, On)
    BY <1>2, <1>3, <2>1 DEF Tracks
  <2> QED
    BY <1>3, <2>2, PickedIsWanted
<1>7. [h \in Games |-> Status(pds[h])]'
        = [[h \in Games |-> Status(pds[h])] EXCEPT ![g] = Status(r)]
  BY <1>3, <1>4, OneStatus
<1>8. UNCHANGED Barred /\ UNCHANGED (\E q \in Procs : Inside(q)) /\ UNCHANGED Due
  BY <1>4, SameRound, SameDue DEF Inside, Pending
<1>9. Status(r) \in Board!Statuses /\ Status(r).by = r.by
  BY <1>3, StatusShape
<1>10. UNCHANGED On /\ UNCHANGED [h \in Games |-> Wanted(h)]
  BY <1>4, SameWanted
<1> HIDE DEF r
<1>11. Board!Write(g, Status(r))
  BY <1>2, <1>3, <1>4, <1>5, <1>6, <1>7, <1>8, <1>9, <1>10 DEF Board!Write, Inside
<1> QED
  BY <1>3, <1>9, <1>11

LEMMA UnlockCloses ==
  ASSUME TypeOK, LockDiscipline, SilentInv, SilentInv', PublishedInv, OneShared,
         NEW p \in Procs, Unlock(p)
  PROVE  Board!Close
<1>1. /\ pc[p] = "write" /\ pass[p].work = {} /\ UNCHANGED <<row, on, prio, pds, owed>>
      /\ pc'[p] \in {"idle", "flip"} /\ \A q \in Procs : q # p => pc'[q] = pc[q]
  BY DEF Unlock, Finish, Goto, dbVars, TypeOK
<1>2. \A q \in Procs : Inside(q) => q = p
  BY <1>1, OneInside DEF Inside
<1>3. Barred = pass[p].muted /\ Inside(p)
  BY <1>1, OneRound DEF Inside
<1>4. Barred' = {} /\ ~(\E q \in Procs : Inside(q))'
  BY <1>1, <1>2 DEF Inside, Barred
<1>5. Due \/ Board!Faithful
  <2> SUFFICES ASSUME ~Due
               PROVE  Board!Faithful
    OBVIOUS
  <2>1. Tracks(p)
    BY <1>3 DEF Due, Settled, PublishedInv
  <2> QED
    BY <1>1, <2>1, DonePublished, ConsistentIsFaithful
<1>6. silent \subseteq silent' /\ silent' \subseteq silent \cup Barred
  BY <1>3 DEF Unlock
<1>7. ASSUME NEW s \in silent' PROVE ~Board!Shows(s)
  <2>1. \A g \in Games : pds[g].by # s
    BY <1>1 DEF SilentInv, StopIsFinal
  <2>2. \A g \in Games : Status(pds[g]).by = pds[g].by
    BY StatusShape DEF TypeOK
  <2> QED
    BY <2>1, <2>2 DEF Board!Shows
<1>8. silent' \subseteq silent \cup {s \in Barred : ~Board!Shows(s)}
  BY <1>6, <1>7
<1>9. UNCHANGED Due
  BY <1>1, SameDue DEF Pending
<1> QED
  BY <1>1, <1>3, <1>4, <1>5, <1>6, <1>8, <1>9, SameWanted, SameStatuses DEF Board!Close

LEMMA GiveUpFails ==
  ASSUME TypeOK, LockDiscipline, OneShared, NEW p \in Procs, GiveUp(p)
  PROVE  Board!Fail
<1>1. /\ UNCHANGED <<row, on, prio, pds, silent>> /\ owed'
      /\ pc'[p] = "idle" /\ \A q \in Procs : q # p => pc'[q] = pc[q] /\ pass'[q] = pass[q]
  BY DEF GiveUp, Finish, Goto, dbVars, TypeOK
<1>2. Due'
  BY <1>1 DEF Due
<1>3. CASE Inside(p)
  <2>1. Barred' = {} /\ ~(\E q \in Procs : Inside(q))'
    BY <1>1, <1>3, OneInside DEF Inside, Barred
  <2> QED
    BY <1>1, <1>2, <2>1, SameWanted, SameStatuses DEF Board!Fail
<1>4. CASE ~Inside(p)
  <2>1. UNCHANGED Barred /\ UNCHANGED (\E q \in Procs : Inside(q))
    BY <1>1, <1>4, SameRound DEF Inside
  <2> QED
    BY <1>1, <1>2, <2>1, SameWanted, SameStatuses DEF Board!Fail
<1> QED
  BY <1>3, <1>4

LEMMA CrashFails ==
  ASSUME Crash
  PROVE  Board!Fail
<1>1. UNCHANGED <<row, on, prio, pds, silent>> /\ Due'
  BY DEF Crash, dbVars, Due
<1>2. Barred' = {} /\ ~(\E q \in Procs : Inside(q))'
  BY DEF Crash, Inside, Barred
<1> QED
  BY <1>1, <1>2, SameWanted, SameStatuses DEF Board!Fail

LEMMA SetOnChanges ==
  ASSUME TypeOK, TypeOK', JobKnown, SilentInv, NEW p \in Procs, SetOn(p)
  PROVE  Board!Change
<1> DEFINE s == job[p].src
<1>1. /\ pc[p] = "setOn" /\ pc'[p] = "lock" /\ UNCHANGED pds /\ s \in Sources
      /\ \A q \in Procs : q # p => pc'[q] = pc[q]
      /\ on' = [on EXCEPT ![s] = TRUE] /\ silent' = silent \ {s}
  BY DEF SetOn, EnableSource, CallReconcile, Goto, TypeOK, JobKnown
<1>2. \A q \in Procs : pass'[q].muted = pass[q].muted \ {s}
  <2>1. \A q \in Procs : pass[q] \in Passes
    BY DEF TypeOK
  <2> QED
    BY <2>1 DEF SetOn, EnableSource, Passes
<1>3. \A q \in Procs : Inside(q)' = Inside(q)
  BY <1>1 DEF Inside
<1>4. On' = On \cup {s}
  BY <1>1 DEF On, TypeOK
<1>5. Barred' = Barred \ {s}
  BY <1>2, <1>3 DEF Barred
<1>6. Barred' = Barred \ On' /\ silent' = silent \ On'
  BY <1>1, <1>4, <1>5, BarredOff
<1>7. Due'
  BY <1>1 DEF Due, Pending
<1>8. [g \in Games |-> Wanted(g)]' \in [Games -> SUBSET Board!Statuses]
  BY NewWantedShape
<1>9. On' \in SUBSET Sources
  BY DEF On
<1> QED
  BY <1>1, <1>3, <1>6, <1>7, <1>8, <1>9, SameStatuses DEF Board!Change

LEMMA LandIsLate ==
  ASSUME TypeOK, NEW w \in late, Land(w)
  PROVE  \E g \in Games, r \in Board!Statuses : Board!Late(g, r)
<1>1. w.game \in Games /\ w.record \in Records
  BY DEF TypeOK, Writes
<1>2. /\ UNCHANGED <<row, on, prio, pc, pass>> /\ owed' /\ silent' = silent \ {w.record.by}
      /\ pds' = [pds EXCEPT ![w.game] = w.record]
  BY DEF Land, dbVars, procVars
<1>3. Status(w.record) \in Board!Statuses /\ Status(w.record).by = w.record.by
  BY <1>1, StatusShape
<1>4. [h \in Games |-> Status(pds[h])]'
        = [[h \in Games |-> Status(pds[h])] EXCEPT ![w.game] = Status(w.record)]
  BY <1>1, <1>2, OneStatus
<1>5. UNCHANGED Barred /\ UNCHANGED (\E q \in Procs : Inside(q)) /\ Due'
  BY <1>2, SameRound DEF Inside, Due
<1>6. Board!Late(w.game, Status(w.record))
  BY <1>2, <1>3, <1>4, <1>5, SameWanted DEF Board!Late
<1> QED
  BY <1>1, <1>3, <1>6

LEMMA SweepLoses ==
  ASSUME TypeOK, NEW p \in Procs, SweepDelete(p)
  PROVE  \E g \in Games : Board!Lose(g)
<1>1. pc[p] = "sweep" /\ pass[p] \in Passes
  BY DEF SweepDelete, TypeOK
<1>2. PICK g \in pass[p].work : /\ pds' = [pds EXCEPT ![g] = NoRecord]
                                /\ pass' = [pass EXCEPT ![p].work = @ \ {g}]
  BY DEF SweepDelete
<1>3. /\ g \in Games /\ UNCHANGED <<row, on, prio, pc, silent>> /\ owed'
      /\ \A q \in Procs : pass'[q].muted = pass[q].muted
  BY <1>1, <1>2, PassFields DEF SweepDelete, dbVars, TypeOK, Passes
<1>4. [h \in Games |-> Status(pds[h])]'
        = [[h \in Games |-> Status(pds[h])] EXCEPT ![g] = Status(NoRecord)]
  BY <1>2, <1>3, OneStatus, RecordShapes
<1>5. Status(NoRecord) = Board!Nothing
  BY SourcesAssumption DEF Status, Ours, NoRecord, Board!Nothing
<1>6. UNCHANGED Barred /\ UNCHANGED (\E q \in Procs : Inside(q)) /\ Due'
  BY <1>3, SameRound DEF Inside, Due
<1>7. Board!Lose(g)
  BY <1>3, <1>4, <1>5, <1>6, SameWanted DEF Board!Lose
<1> QED
  BY <1>3, <1>7

LEMMA RivalMoves ==
  ASSUME TypeOK, NEW g \in RivalGames, RivalPut(g) \/ RivalDelete(g)
  PROVE  \E h \in Games : Board!RivalPut(h) \/ Board!Lose(h)
<1>1. g \in Games /\ UNCHANGED <<row, on, prio, pc, pass, silent>>
  BY SourcesAssumption DEF RivalPut, RivalDelete, dbVars, procVars
<1>2. UNCHANGED Barred /\ UNCHANGED (\E q \in Procs : Inside(q))
  BY <1>1, SameRound DEF Inside
<1>3. CASE RivalPut(g)
  <2>1. [h \in Games |-> Status(pds[h])]'
          = [[h \in Games |-> Status(pds[h])] EXCEPT ![g] = Status(RivalRecord)]
    BY <1>1, <1>3, OneStatus, RecordShapes DEF RivalPut
  <2>2. Status(RivalRecord) = [by |-> Rival, torn |-> FALSE]
    BY SourcesAssumption DEF Status, Ours, RivalRecord, NoRecord
  <2>3. UNCHANGED Due
    BY <1>1, <1>3, SameDue DEF RivalPut, Pending
  <2>4. Board!RivalPut(g)
    BY <1>1, <1>2, <2>1, <2>2, <2>3, SameWanted DEF Board!RivalPut
  <2> QED
    BY <1>1, <2>4
<1>4. CASE RivalDelete(g)
  <2>1. [h \in Games |-> Status(pds[h])]'
          = [[h \in Games |-> Status(pds[h])] EXCEPT ![g] = Status(NoRecord)]
    BY <1>1, <1>4, OneStatus, RecordShapes DEF RivalDelete
  <2>2. Status(NoRecord) = Board!Nothing
    BY SourcesAssumption DEF Status, Ours, NoRecord, Board!Nothing
  <2>3. Due'
    BY <1>4 DEF RivalDelete, Due
  <2>4. Board!Lose(g)
    BY <1>1, <1>2, <2>1, <2>2, <2>3, SameWanted DEF Board!Lose
  <2> QED
    BY <1>1, <2>4
<1> QED
  BY <1>3, <1>4

\* What is in the collection is changed by these and by nobody else.
LEMMA Writers ==
  ASSUME TypeOK, [Next]_vars
  PROVE  \/ UNCHANGED [g \in Games |-> Status(pds[g])]
         \/ \E p \in Procs : DeleteStatus(p) \/ PutStatus(p) \/ SweepDelete(p)
         \/ \E g \in RivalGames : RivalPut(g) \/ RivalDelete(g)
         \/ \E w \in late : Land(w)
<1>procs. Sweepers \subseteq Procs
  BY DEF Procs
<1>1. ASSUME NEW p \in Tickers, TickList(p) \/ TickClaim(p) \/ TickPoll(p) \/ TickOmitted(p)
      PROVE  UNCHANGED pds
  BY <1>1 DEF TickList, TickClaim, TickPoll, TickOmitted
<1>2. ASSUME NEW p \in Presences, PresenceEvent(p) \/ PresenceGate(p) PROVE UNCHANGED pds
  BY <1>2 DEF PresenceEvent, PresenceGate
<1>3. ASSUME NEW p \in Procs, ReadPrev(p) \/ WriteSession(p) \/ WriteDetails(p) PROVE UNCHANGED pds
  BY <1>3 DEF ReadPrev, WriteSession, WriteDetails
<1>4. ASSUME NEW p \in Procs, Lock(p) \/ Walk(p) \/ ListStatuses(p) \/ Unlock(p) \/ GiveUp(p)
      PROVE  UNCHANGED pds
  BY <1>4 DEF Lock, Walk, ListStatuses, Unlock, GiveUp
<1>5. ASSUME NEW p \in Handlers, EnableRequest(p) \/ SetOn(p) \/ DisableRequest(p) \/ FlipOff(p)
      PROVE  UNCHANGED pds
  BY <1>5 DEF EnableRequest, SetOn, DisableRequest, FlipOff
<1>6. ASSUME NEW p \in Handlers, OrderRequest(p) \/ OrderStep(p) \/ OrderDone(p) PROVE UNCHANGED pds
  BY <1>6 DEF OrderRequest, OrderStep, OrderDone
<1>7. ASSUME NEW p \in Revokers, DropClaim(p) \/ UnsetEnabled(p) \/ ClearSession(p)
      PROVE  UNCHANGED pds
  BY <1>7 DEF DropClaim, UnsetEnabled, ClearSession
<1>8. ASSUME NEW p \in Sweepers, SweepBegin(p) \/ SweepList(p) \/ SweepCut(p) \/ SweepEnd(p)
      PROVE  UNCHANGED pds
  BY <1>8 DEF SweepBegin, SweepList, SweepCut, SweepEnd
<1>9. CASE Crash \/ (\E s \in Sources : Verify(s)) \/ UNCHANGED vars
  BY <1>9, SameStatuses DEF Crash, Verify, vars
<1>10. ASSUME NEW g \in Games, Expire(g) PROVE UNCHANGED [h \in Games |-> Status(pds[h])]
  <2>1. \A h \in Games : pds'[h].by = pds[h].by /\ pds'[h].torn = pds[h].torn
    BY <1>10 DEF Expire, TypeOK, Records
  <2> QED
    BY <2>1 DEF Status, Ours
<1> QED
  BY <1>procs, <1>1, <1>2, <1>3, <1>4, <1>5, <1>6, <1>7, <1>8, <1>9, <1>10, Steps, SameStatuses

(***************************************************************************)
(* Every step.                                                             *)
(***************************************************************************)
LEMMA BoardStep ==
  ASSUME TypeOK, TypeOK', JobKnown, LockDiscipline, MutedUnseen, SilentInv, SilentInv',
         PublishedInv, OneShared, "disable" \notin HandlerOps, [Next]_vars
  PROVE  [Board!Next]_(Board!vars)
<1> USE DEF Board!Next
<1>procs. Handlers \subseteq Procs
  BY DEF Procs
<1>1. ASSUME NEW p \in Procs, Lock(p) PROVE Board!Next
  BY <1>1, LockOpens
<1>2. ASSUME NEW p \in Procs, Walk(p) \/ ListStatuses(p) PROVE UNCHANGED Board!vars
  <2>1. /\ UNCHANGED <<row, on, prio, pds, owed, silent>>
        /\ pc[p] = "walk" /\ pc'[p] \in {"walk", "write"}
        /\ \A q \in Procs : q # p => pc'[q] = pc[q]
    BY <1>2 DEF Walk, ListStatuses, Goto, dbVars, TypeOK
  <2>2. \A q \in Procs : pass'[q].muted = pass[q].muted
    <3>1. \A q \in Procs : pass[q] \in Passes
      BY DEF TypeOK
    <3>2. CASE Walk(p)
      <4>1. \E s \in pass[p].left : \E d :
               pass' = [pass EXCEPT ![p].left = @ \ {s}, ![p].desired = d]
        BY <3>2 DEF Walk
      <4> QED
        BY <3>1, <4>1 DEF Passes, TypeOK
    <3>3. CASE ListStatuses(p)
      BY <3>1, <3>3 DEF ListStatuses, Passes, TypeOK
    <3> QED
      BY <1>2, <3>2, <3>3
  <2>3. UNCHANGED Barred /\ UNCHANGED (\E q \in Procs : Inside(q)) /\ UNCHANGED Due
    BY <2>1, <2>2, SameRound, SameDue DEF Inside, Pending
  <2> QED
    BY <2>1, <2>3, SameWanted, SameStatuses DEF Board!vars
<1>3. ASSUME NEW p \in Procs, DeleteStatus(p) \/ PutStatus(p) PROVE Board!Next
  BY <1>3, WriteWrites
<1>4. ASSUME NEW p \in Procs, Unlock(p) PROVE Board!Next
  BY <1>4, UnlockCloses
<1>5. ASSUME NEW p \in Procs, GiveUp(p) PROVE Board!Next
  BY <1>5, GiveUpFails
<1>6. ASSUME NEW p \in Handlers, SetOn(p) PROVE Board!Next
  BY <1>6, <1>procs, SetOnChanges
<1>7. ASSUME NEW p \in Handlers, FlipOff(p) PROVE FALSE
  BY <1>7, <1>procs DEF FlipOff, JobKnown
<1>8. CASE Crash
  BY <1>8, CrashFails
<1>9. ASSUME NEW w \in late, Land(w) PROVE Board!Next
  BY <1>9, LandIsLate
<1>10. ASSUME NEW p \in Procs, SweepDelete(p) PROVE Board!Next
  BY <1>10, SweepLoses
<1>11. ASSUME NEW g \in RivalGames, RivalPut(g) \/ RivalDelete(g) PROVE Board!Next
  BY <1>11, RivalMoves
<1>12. CASE Aside /\ UNCHANGED [g \in Games |-> Status(pds[g])]
  <2>1. CASE Due'
    BY <1>12, <2>1, AsideChanges
  <2>2. CASE ~Due'
    <3>1. Settled'
      BY <2>2 DEF Settled, Due
    <3>2. CASE Quiet
      <4>1. ~Due
        BY <3>2 DEF Quiet, Settled, Due
      <4>2. UNCHANGED Barred /\ UNCHANGED (\E q \in Procs : Inside(q)) /\ UNCHANGED silent
        BY <1>12, SameRound DEF Aside
      <4>3. UNCHANGED On /\ UNCHANGED [g \in Games |-> Wanted(g)]
        BY <3>2, SameWanted DEF Quiet
      <4> QED
        BY <1>12, <2>2, <4>1, <4>2, <4>3 DEF Board!vars, Due
    <3>3. CASE InReconcile
      BY <3>3, <1>1, <1>2, <1>3, <1>4 DEF InReconcile
    <3> QED
      BY <3>1, <3>2, <3>3, QuietSteps
  <2> QED
    BY <2>1, <2>2
<1>13. CASE UNCHANGED vars
  <2>1. UNCHANGED <<row, on, prio, pds, pc, pass, owed, silent>>
    BY <1>13 DEF vars
  <2>2. UNCHANGED Barred /\ UNCHANGED (\E q \in Procs : Inside(q)) /\ UNCHANGED Due
    BY <2>1, SameRound, SameDue DEF Inside, Pending
  <2> QED
    BY <2>1, <2>2, SameWanted, SameStatuses DEF Board!vars
<1> HIDE DEF Board!Next
<1> QED
  BY <1>1, <1>2, <1>3, <1>4, <1>5, <1>6, <1>7, <1>8, <1>9, <1>10, <1>11, <1>12, <1>13,
     AsideSteps, Writers

\* The callers of the shared Reconciler, however many and whatever fails, keep the
\* promise of StatusBoard; so does a poll loop that only the sweep runs beside.
THEOREM EngineKeepsBoard ==
  ASSUME OneMutex, "disable" \notin HandlerOps
  PROVE  Spec => SyncsBoard
<1>1. Init /\ TypeOK => Board!Init
  <2> SUFFICES ASSUME Init, TypeOK PROVE Board!Init
    OBVIOUS
  <2>1. [g \in Games |-> Wanted(g)] \in [Games -> SUBSET Board!Statuses]
    BY WantedShape
  <2>2. [g \in Games |-> Status(pds[g])] \in [Games -> Board!Statuses]
    BY StatusShape DEF TypeOK
  <2>3. \A p \in Procs : ~Inside(p)
    BY DEF Init, Inside
  <2>4. Due /\ silent = {} /\ On \in SUBSET Sources
    BY DEF Init, Due, On
  <2> QED
    BY <2>1, <2>2, <2>3, <2>4, NoRound DEF Board!Init
<1>2. /\ TypeOK /\ TypeOK' /\ JobKnown /\ LockDiscipline /\ MutedUnseen /\ OneShared
      /\ SilentInv /\ SilentInv' /\ PublishedInv /\ [Next]_vars
      => [Board!Next]_(Board!vars)
  BY BoardStep
<1> QED
  BY <1>1, <1>2, TypesAndJobs, MutexesHeld, NeverUnseen, AlwaysOneShared, AlwaysSilent,
     AlwaysPublished, PTL DEF Spec, SyncsBoard, Board!Spec

-----------------------------------------------------------------------------
(***************************************************************************)
(* What follows from StatusBoard alone then holds of the engine.           *)
(***************************************************************************)
BoardFacts == INSTANCE StatusBoard_proofs WITH
    enabled <- On,
    wanted <- [g \in Games |-> Wanted(g)],
    board <- [g \in Games |-> Status(pds[g])],
    due <- Due,
    round <- \E p \in Procs : Inside(p),
    barred <- Barred,
    stopped <- silent

\* Whenever no pass runs and none is due, every record that is not another
\* instance's is one that the rows allow; and at every moment, in the middle of a
\* pass too, no record is of a source withdrawn for good.
THEOREM ReadersOfStatusesRely ==
  ASSUME OneMutex, "disable" \notin HandlerOps
  PROVE  Spec => [](Board!RestsFaithful /\ Board!StopsHold)
<1>1. BoardFacts!Spec => [](BoardFacts!RestsFaithful /\ BoardFacts!StopsHold)
  BY SourcesAssumption, BoardFacts!ReadersMayRely
<1>2. Board!Init => BoardFacts!Init
  BY DEF Board!Init, BoardFacts!Init, Board!Statuses, BoardFacts!Statuses
<1>3. [Board!Next]_(Board!vars) => [BoardFacts!Next]_(BoardFacts!vars)
  <2>1. Board!vars = BoardFacts!vars /\ Board!vars' = BoardFacts!vars'
    BY DEF Board!vars, BoardFacts!vars
  <2>2. Board!Next => BoardFacts!Next
    BY DEF Board!Next, BoardFacts!Next, Board!Statuses, BoardFacts!Statuses,
           Board!Nothing, BoardFacts!Nothing, Board!Faithful, BoardFacts!Faithful,
           Board!Shows, BoardFacts!Shows, Board!Change, BoardFacts!Change,
           Board!Open, BoardFacts!Open, Board!Write, BoardFacts!Write,
           Board!Close, BoardFacts!Close, Board!Fail, BoardFacts!Fail,
           Board!Lose, BoardFacts!Lose, Board!Late, BoardFacts!Late,
           Board!RivalPut, BoardFacts!RivalPut
  <2> QED
    BY <2>1, <2>2
<1>4. BoardFacts!RestsFaithful /\ BoardFacts!StopsHold => Board!RestsFaithful /\ Board!StopsHold
  BY DEF Board!RestsFaithful, BoardFacts!RestsFaithful, Board!StopsHold, BoardFacts!StopsHold,
         Board!Faithful, BoardFacts!Faithful, Board!Shows, BoardFacts!Shows
<1> QED
  BY <1>1, <1>2, <1>3, <1>4, EngineKeepsBoard, PTL DEF SyncsBoard, Board!Spec, BoardFacts!Spec
=============================================================================
