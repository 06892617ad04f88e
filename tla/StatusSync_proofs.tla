-------------------------- MODULE StatusSync_proofs --------------------------
(***************************************************************************)
(* Proofs about StatusSync, for any sources, games and goroutines.         *)
(***************************************************************************)
EXTENDS StatusSync, FiniteSetTheorems, TLAPS

LEMMA EmptyOrder == <<>> \in Orders
<1>1. Cardinality(Sources) \in Nat
  BY SourcesAssumption, FS_CardinalityType
<1>2. 0 \in 0..Cardinality(Sources)
  BY <1>1
<1>3. <<>> \in [1..0 -> Sources]
  OBVIOUS
<1> QED
  BY <1>2, <1>3 DEF Orders

LEMMA RowShape == NoRow \in Rows
BY DEF NoRow, Rows

LEMMA RecordShapes == NoRecord \in Records /\ RivalRecord \in Records
BY DEF NoRecord, RivalRecord, Records

LEMMA PassShape == NoPass \in Passes
<1>1. [s \in Sources |-> 0] \in [Sources -> Nat]
  OBVIOUS
<1>2. [g \in Games |-> NoRecord] \in [Games -> Records]
  BY RecordShapes
<1> QED
  BY <1>1, <1>2 DEF NoPass, Passes

LEMMA JobShape == NoJob \in Jobs
BY EmptyOrder, RowShape DEF NoJob, Jobs

LEMMA JobFields ==
  ASSUME NEW j \in Jobs
  PROVE  /\ j.src \in Sources \cup {None} /\ j.key \in Keys \cup {None}
         /\ j.prev \in Rows /\ j.order \in Orders /\ j.next \in Nat \ {0}
BY DEF Jobs

LEMMA PassFields ==
  ASSUME NEW a \in Passes
  PROVE  /\ a.rank \in [Sources -> Nat] /\ a.left \in SUBSET Sources
         /\ a.muted \in SUBSET Sources /\ a.desired \in [Games -> Records]
         /\ a.work \in SUBSET Games
BY DEF Passes

\* What a goroutine leaves behind is one write of its own pass, or nothing.
LEMMA UnansweredWrites ==
  ASSUME TypeOK, NEW p \in Procs
  PROVE  \A sent \in Unanswered(p) : sent \subseteq Writes
<1>1. pass[p].desired \in [Games -> Records] /\ pass[p].work \in SUBSET Games
  BY PassFields DEF TypeOK
<1>2. NextWrites(p) \subseteq Games
  BY <1>1 DEF NextWrites, Deletes
<1> QED
  BY <1>1, <1>2 DEF Unanswered, Writes

\* A goroutine's locals keep their shape under the assignments the handlers make.
LEMMA KeyUpdate ==
  ASSUME NEW j \in Jobs, NEW k \in Keys \cup {None}
  PROVE  [j EXCEPT !.key = k] \in Jobs
BY DEF Jobs

LEMMA PrevUpdate ==
  ASSUME NEW j \in Jobs, NEW r \in Rows
  PROVE  [j EXCEPT !.prev = r] \in Jobs
BY DEF Jobs

LEMMA NextUpdate ==
  ASSUME NEW j \in Jobs
  PROVE  [j EXCEPT !.next = @ + 1] \in Jobs
BY DEF Jobs

LEMMA SourceJob ==
  ASSUME NEW op \in {"tick", "enable", "disable", "invalidate"}, NEW s \in Sources
  PROVE  [NoJob EXCEPT !.op = op, !.src = s] \in Jobs
BY JobShape DEF Jobs

LEMMA PresenceJob ==
  ASSUME NEW s \in Sources, NEW k \in Keys \cup {None}
  PROVE  [NoJob EXCEPT !.op = "presence", !.src = s, !.key = k] \in Jobs
BY JobShape DEF Jobs

LEMMA OrderJob ==
  ASSUME NEW q \in Orders
  PROVE  [NoJob EXCEPT !.op = "order", !.order = q] \in Jobs
BY JobShape DEF Jobs

LEMMA SweepJob == [NoJob EXCEPT !.op = "sweep"] \in Jobs
BY JobShape DEF Jobs

LEMMA Begins ==
  ASSUME TypeOK, NEW p \in Procs, NEW label \in Labels, NEW f \in Jobs, Begin(p, label, f)
  PROVE  pc' \in [Procs -> Labels] /\ job' \in [Procs -> Jobs]
BY DEF TypeOK, Begin, Goto

LEMMA Finishes ==
  ASSUME TypeOK, NEW p \in Procs, Finish(p)
  PROVE  pc' \in [Procs -> Labels] /\ job' \in [Procs -> Jobs]
BY JobShape DEF TypeOK, Finish, Goto, Labels

LEMMA Calls ==
  ASSUME TypeOK, NEW p \in Procs, CallReconcile(p)
  PROVE  pc' \in [Procs -> Labels] /\ job' \in [Procs -> Jobs]
<1>1. job[p] \in Jobs
  BY DEF TypeOK
<1>2. [job[p] EXCEPT !.prev = NoRow] \in Jobs
  BY <1>1, PrevUpdate, RowShape
<1> QED
  BY <1>2, JobShape DEF TypeOK, CallReconcile, Goto, Labels

LEMMA StartPass ==
  ASSUME NEW rank \in [Sources -> Nat], NEW S \in SUBSET Sources
  PROVE  [NoPass EXCEPT !.rank = rank, !.left = S, !.muted = Sources \ S] \in Passes
BY PassShape DEF Passes

LEMMA WalkPass ==
  ASSUME NEW a \in Passes, NEW S \in SUBSET Sources, NEW d \in [Games -> Records]
  PROVE  [a EXCEPT !.left = S, !.desired = d] \in Passes
BY DEF Passes

LEMMA ListPass ==
  ASSUME NEW a \in Passes, NEW G \in SUBSET Games, NEW rank \in [Sources -> Nat]
  PROVE  [a EXCEPT !.work = G, !.rank = rank] \in Passes
BY DEF Passes

LEMMA WorkUpdate ==
  ASSUME NEW a \in Passes, NEW G \in SUBSET Games
  PROVE  [a EXCEPT !.work = G] \in Passes
BY DEF Passes

LEMMA MutedUpdate ==
  ASSUME NEW a \in Passes, NEW S \in SUBSET Sources
  PROVE  [a EXCEPT !.muted = S] \in Passes
BY DEF Passes

LEMMA TornUpdate ==
  ASSUME NEW r \in Rows, NEW b \in BOOLEAN
  PROVE  [r EXCEPT !.torn = b] \in Rows
BY DEF Rows

LEMMA Outdated ==
  ASSUME NEW r \in Rows
  PROVE  Outdate(r) \in Rows
BY DEF Rows, Outdate

(***************************************************************************)
(* A step is one of the following.                                         *)
(***************************************************************************)
LEMMA Steps ==
  ASSUME Next
  PROVE  \/ \E p \in Tickers : TickList(p) \/ TickClaim(p) \/ TickPoll(p) \/ TickOmitted(p)
         \/ \E p \in Presences : PresenceEvent(p) \/ PresenceGate(p)
         \/ \E p \in Handlers : \/ EnableRequest(p) \/ SetOn(p) \/ DisableRequest(p)
                                \/ FlipOff(p) \/ OrderRequest(p) \/ OrderStep(p)
                                \/ OrderDone(p)
         \/ \E p \in Revokers : DropClaim(p) \/ UnsetEnabled(p) \/ ClearSession(p)
         \/ \E p \in Sweepers : \/ SweepBegin(p) \/ SweepList(p) \/ SweepCut(p)
                                \/ SweepDelete(p) \/ SweepEnd(p)
         \/ \E p \in Procs : \/ ReadPrev(p) \/ WriteSession(p) \/ WriteDetails(p)
                             \/ Lock(p) \/ Walk(p) \/ ListStatuses(p) \/ DeleteStatus(p)
                             \/ PutStatus(p) \/ Unlock(p) \/ GiveUp(p)
         \/ Crash
         \/ \E w \in late : Land(w)
         \/ \E s \in Sources : Verify(s)
         \/ \E g \in Games : Expire(g)
         \/ \E g \in RivalGames : RivalPut(g) \/ RivalDelete(g)
BY DEF Next, Tick, Presence, Request, InvalidateClaim, RunStatusSweep, UpdateSession,
       Reconcile, Environment

(***************************************************************************)
(* Types.                                                                  *)
(***************************************************************************)
\* Whatever is about one source knows which, until the last step that asks; and a
\* disable was asked for.
JobKnown ==
    \A p \in Procs :
        /\ job[p].op \in {"tick", "presence", "enable", "disable", "invalidate"} =>
              job[p].src \in Sources
        /\ pc[p] \in {"tickClaim", "poll", "gate", "prev", "decide"} =>
              job[p].op \in {"tick", "presence"}
        /\ pc[p] = "setOn" => job[p].op = "enable"
        /\ pc[p] \in {"unset", "clear"} => job[p].op = "invalidate"
        /\ pc[p] = "flip" => job[p].op = "disable"
        /\ job[p].op = "disable" => "disable" \in HandlerOps

LEMMA JobKnownStep ==
  ASSUME TypeOK, JobKnown, [Next]_vars
  PROVE  JobKnown'
<1>jobs. \A q \in Procs : job[q] \in Jobs
  BY DEF TypeOK
<1> USE SourcesAssumption DEF JobKnown, TypeOK, Goto, Begin, Finish, CallReconcile, NoJob
<1>1. ASSUME NEW p \in Tickers, TickList(p) PROVE JobKnown'
  BY <1>1 DEF TickList
<1>2. ASSUME NEW p \in Tickers, TickClaim(p) PROVE JobKnown'
  BY <1>2 DEF TickClaim
<1>3. ASSUME NEW p \in Tickers, TickPoll(p) PROVE JobKnown'
  <2>1. PICK k \in Keys \cup {None} : job' = [job EXCEPT ![p].key = k]
    BY <1>3 DEF TickPoll
  <2>2. \A q \in Procs : job'[q].op = job[q].op /\ job'[q].src = job[q].src
    BY <2>1, <1>jobs DEF Jobs
  <2> QED
    BY <1>3, <2>2 DEF TickPoll
<1>omitted. ASSUME NEW p \in Tickers, TickOmitted(p) PROVE JobKnown'
  BY <1>omitted DEF TickOmitted
<1>4. ASSUME NEW p \in Presences, PresenceEvent(p) PROVE JobKnown'
  <2>1. PICK s \in Sources \ {Steam}, k \in Keys \cup {None} :
           Begin(p, "gate", [NoJob EXCEPT !.op = "presence", !.src = s, !.key = k])
    BY <1>4 DEF PresenceEvent
  <2> QED
    BY <2>1
<1>5. ASSUME NEW p \in Presences, PresenceGate(p) PROVE JobKnown'
  BY <1>5 DEF PresenceGate
<1>6. ASSUME NEW p \in Procs, ReadPrev(p) PROVE JobKnown'
  BY <1>6, <1>jobs DEF ReadPrev, Jobs
<1>7. ASSUME NEW p \in Procs, WriteSession(p) PROVE JobKnown'
  <2>1. CASE job[p].key = None
    <3>1. pc' = [pc EXCEPT ![p] = "lock"] /\ job' = [job EXCEPT ![p] = NoJob]
      BY <1>7, <2>1 DEF WriteSession
    <3> QED
      BY <3>1
  <2>2. CASE job[p].key # None
    BY <1>7, <2>2 DEF WriteSession
  <2> QED
    BY <2>1, <2>2
<1>8. ASSUME NEW p \in Procs, WriteDetails(p) PROVE JobKnown'
  BY <1>8, <1>jobs DEF WriteDetails, Jobs
<1>9. ASSUME NEW p \in Procs, Lock(p) PROVE JobKnown'
  BY <1>9 DEF Lock
<1>10. ASSUME NEW p \in Procs, Walk(p) PROVE JobKnown'
  BY <1>10 DEF Walk
<1>11. ASSUME NEW p \in Procs, ListStatuses(p) PROVE JobKnown'
  BY <1>11 DEF ListStatuses
<1>12. ASSUME NEW p \in Procs, DeleteStatus(p) PROVE JobKnown'
  BY <1>12 DEF DeleteStatus, WriteStatus
<1>13. ASSUME NEW p \in Procs, PutStatus(p) PROVE JobKnown'
  BY <1>13 DEF PutStatus, WriteStatus
<1>14. ASSUME NEW p \in Procs, Unlock(p) PROVE JobKnown'
  <2>1. CASE job[p].op = "disable"
    BY <1>14, <2>1 DEF Unlock
  <2>2. CASE job[p].op # "disable"
    <3>1. pc' = [pc EXCEPT ![p] = "idle"] /\ job' = [job EXCEPT ![p] = NoJob]
      BY <1>14, <2>2 DEF Unlock
    <3> QED
      BY <3>1
  <2> QED
    BY <2>1, <2>2
<1>15. ASSUME NEW p \in Handlers, EnableRequest(p) PROVE JobKnown'
  <2>1. PICK s \in Sources : Begin(p, "setOn", [NoJob EXCEPT !.op = "enable", !.src = s])
    BY <1>15 DEF EnableRequest
  <2> QED
    BY <2>1
<1>16. ASSUME NEW p \in Handlers, SetOn(p) PROVE JobKnown'
  BY <1>16, <1>jobs DEF SetOn, Jobs
<1>17. ASSUME NEW p \in Handlers, DisableRequest(p) PROVE JobKnown'
  <2>1. PICK s \in Sources : Begin(p, "lock", [NoJob EXCEPT !.op = "disable", !.src = s])
    BY <1>17 DEF DisableRequest
  <2>2. "disable" \in HandlerOps
    BY <1>17 DEF DisableRequest
  <2> QED
    BY <2>1, <2>2
<1>18. ASSUME NEW p \in Handlers, FlipOff(p) PROVE JobKnown'
  <2>1. \A q \in Procs : q # p => job'[q].op = job[q].op /\ job'[q].src = job[q].src
    BY <1>18, <1>jobs DEF FlipOff, Jobs
  <2>2. p \in Procs => job'[p] = NoJob
    BY <1>18 DEF FlipOff
  <2> QED
    BY <1>18, <2>1, <2>2 DEF FlipOff
<1>19. ASSUME NEW p \in Handlers, OrderRequest(p) PROVE JobKnown'
  <2>1. PICK q \in Orders : Begin(p, "order", [NoJob EXCEPT !.op = "order", !.order = q])
    BY <1>19 DEF OrderRequest
  <2> QED
    BY <2>1
<1>20. ASSUME NEW p \in Handlers, OrderStep(p) PROVE JobKnown'
  BY <1>20, <1>jobs DEF OrderStep, Jobs
<1>21. ASSUME NEW p \in Handlers, OrderDone(p) PROVE JobKnown'
  BY <1>21, <1>jobs DEF OrderDone, Jobs
<1>22. ASSUME NEW p \in Revokers, DropClaim(p) PROVE JobKnown'
  <2>1. PICK s \in Sources : Begin(p, "unset", [NoJob EXCEPT !.op = "invalidate", !.src = s])
    BY <1>22 DEF DropClaim
  <2> QED
    BY <2>1
<1>23. ASSUME NEW p \in Revokers, UnsetEnabled(p) PROVE JobKnown'
  <2>1. \A q \in Procs : job'[q].op = job[q].op /\ job'[q].src = job[q].src
    BY <1>23, <1>jobs DEF UnsetEnabled, Jobs
  <2> QED
    BY <1>23, <2>1 DEF UnsetEnabled
<1>24. ASSUME NEW p \in Revokers, ClearSession(p) PROVE JobKnown'
  BY <1>24, <1>jobs DEF ClearSession, Jobs
<1>begun. ASSUME NEW p \in Sweepers, SweepBegin(p) PROVE JobKnown'
  BY <1>begun DEF SweepBegin
<1>25. ASSUME NEW p \in Sweepers, SweepList(p) \/ SweepCut(p) PROVE JobKnown'
  BY <1>25 DEF SweepList, SweepCut
<1>26. ASSUME NEW p \in Sweepers, SweepDelete(p) PROVE JobKnown'
  BY <1>26 DEF SweepDelete
<1>27. ASSUME NEW p \in Sweepers, SweepEnd(p) PROVE JobKnown'
  BY <1>27 DEF SweepEnd
<1>28. ASSUME NEW p \in Procs, GiveUp(p) PROVE JobKnown'
  BY <1>28 DEF GiveUp
<1>29. CASE Crash
  BY <1>29 DEF Crash
<1>30. CASE \/ \E s \in Sources : Verify(s)
            \/ \E g \in Games : Expire(g)
            \/ \E g \in RivalGames : RivalPut(g) \/ RivalDelete(g)
            \/ \E w \in late : Land(w)
            \/ UNCHANGED vars
  BY <1>30 DEF Land, Verify, Expire, RivalPut, RivalDelete, procVars, vars
<1> QED
  BY <1>1, <1>2, <1>3, <1>4, <1>5, <1>6, <1>7, <1>8, <1>9, <1>10, <1>11, <1>12, <1>13,
     <1>14, <1>15, <1>16, <1>17, <1>18, <1>19, <1>20, <1>21, <1>22, <1>23, <1>24, <1>25,
     <1>26, <1>27, <1>28, <1>29, <1>30, <1>omitted, <1>begun, Steps

LEMMA TypesAndJobs == Spec => [](TypeOK /\ JobKnown)
<1>1. Init => TypeOK
  <2> SUFFICES ASSUME Init PROVE TypeOK
    OBVIOUS
  <2>1. \A s \in Sources : [NoRecord EXCEPT !.by = s] \in Records
    BY RecordShapes DEF Records
  <2>2. pds \in [Games -> Records]
    BY <2>1, RecordShapes DEF Init
  <2>3. row \in [Sources -> Rows]
    BY DEF Init
  <2>4. prio \in [Sources -> Nat]
    BY DEF Init, DefaultPriority
  <2> QED
    BY <2>2, <2>3, <2>4, JobShape, PassShape, FaultsAssumption DEF Init, TypeOK, Labels
<1>2. TypeOK /\ JobKnown /\ [Next]_vars => TypeOK'
  <2> SUFFICES ASSUME TypeOK, JobKnown, [Next]_vars PROVE TypeOK'
    OBVIOUS
  <2>procs. /\ Tickers \subseteq Procs /\ Presences \subseteq Procs
            /\ Handlers \subseteq Procs /\ Revokers \subseteq Procs
            /\ Sweepers \subseteq Procs
    BY DEF Procs
  <2>jobs. \A p \in Procs : job[p] \in Jobs /\ pass[p] \in Passes
    BY DEF TypeOK
  <2>src. \A p \in Procs : pc[p] \in {"prev", "decide", "flip"} => job[p].src \in Sources
    BY DEF JobKnown
  <2> USE <2>procs
  <2>1. ASSUME NEW p \in Tickers, TickList(p) PROVE TypeOK'
    <3>1. Begin(p, "tickClaim", [NoJob EXCEPT !.op = "tick", !.src = Steam])
      BY <2>1 DEF TickList
    <3>2. pc' \in [Procs -> Labels] /\ job' \in [Procs -> Jobs]
      BY <3>1, Begins, SourceJob, SourcesAssumption DEF Labels
    <3> QED
      BY <2>1, <3>2 DEF TypeOK, TickList, dbVars
  <2>2. ASSUME NEW p \in Tickers, TickClaim(p) PROVE TypeOK'
    BY <2>2, Finishes DEF TickClaim, Labels, Goto, TypeOK, dbVars
  <2>3. ASSUME NEW p \in Tickers, TickPoll(p) PROVE TypeOK'
    <3>1. PICK k \in Keys \cup {None} : job' = [job EXCEPT ![p].key = k]
      BY <2>3 DEF TickPoll
    <3>2. job' \in [Procs -> Jobs]
      BY <2>jobs, <3>1, KeyUpdate DEF TypeOK
    <3> QED
      BY <2>3, <3>2 DEF TickPoll, Labels, Goto, TypeOK, dbVars
  <2>omitted. ASSUME NEW p \in Tickers, TickOmitted(p) PROVE TypeOK'
    BY <2>omitted, Finishes DEF TickOmitted, TypeOK, dbVars
  <2>4. ASSUME NEW p \in Presences, PresenceEvent(p) PROVE TypeOK'
    <3>1. PICK s \in Sources \ {Steam}, k \in Keys \cup {None} :
             Begin(p, "gate", [NoJob EXCEPT !.op = "presence", !.src = s, !.key = k])
      BY <2>4 DEF PresenceEvent
    <3>2. pc' \in [Procs -> Labels] /\ job' \in [Procs -> Jobs]
      BY <3>1, Begins, PresenceJob DEF Labels
    <3> QED
      BY <2>4, <3>2 DEF TypeOK, PresenceEvent, dbVars
  <2>5. ASSUME NEW p \in Presences, PresenceGate(p) PROVE TypeOK'
    BY <2>5, Finishes DEF PresenceGate, Labels, Goto, TypeOK, dbVars
  <2>6. ASSUME NEW p \in Procs, ReadPrev(p) PROVE TypeOK'
    <3>1. row[job[p].src] \in Rows
      BY <2>6, <2>src DEF ReadPrev, TypeOK
    <3>2. job' \in [Procs -> Jobs]
      BY <2>6, <2>jobs, <3>1, PrevUpdate DEF ReadPrev, TypeOK
    <3> QED
      BY <2>6, <3>2 DEF ReadPrev, Labels, Goto, TypeOK, dbVars
  <2>7. ASSUME NEW p \in Procs, WriteSession(p) PROVE TypeOK'
    <3>1. CASE job[p].key = None
      BY <2>7, <3>1, RowShape, Calls DEF WriteSession, TypeOK, dbVars
    <3>2. CASE job[p].key # None
      <4>1. DecidedRow(job[p].src, job[p].key, job[p].prev) \in Rows
        BY <2>7, <2>src, <2>jobs, JobFields DEF DecidedRow, Rows, TypeOK, WriteSession
      <4>2. row' \in [Sources -> Rows]
        BY <2>7, <3>2, <4>1 DEF WriteSession, TypeOK
      <4> QED
        BY <2>7, <3>2, <4>2 DEF WriteSession, Labels, Goto, TypeOK
    <3> QED
      BY <3>1, <3>2
  <2>8. ASSUME NEW p \in Procs, WriteDetails(p) PROVE TypeOK'
    <3>1. row' \in [Sources -> Rows]
      BY <2>8, TornUpdate DEF WriteDetails, TypeOK
    <3> QED
      BY <2>8, <3>1, Calls DEF WriteDetails, TypeOK
  <2>9. ASSUME NEW p \in Procs, Lock(p) PROVE TypeOK'
    <3>1. [NoPass EXCEPT !.rank = prio, !.left = On, !.muted = Sources \ On] \in Passes
      BY StartPass DEF TypeOK, On
    <3> QED
      BY <2>9, <3>1 DEF Lock, MutexOf, TypeOK, Labels, Goto, dbVars
  <2>10. ASSUME NEW p \in Procs, Walk(p) PROVE TypeOK'
    <3>1. PICK s \in pass[p].left :
            LET k == row[s].key
                claims == k \in Games /\ pass[p].desired[k].by = None
            IN  pass' = [pass EXCEPT
                    ![p].left = @ \ {s},
                    ![p].desired = IF claims
                                   THEN [@ EXCEPT ![k] = [by |-> s, torn |-> row[s].torn,
                                                          stale |-> FALSE]]
                                   ELSE @]
      BY <2>10 DEF Walk
    <3> DEFINE k == row[s].key
               d == IF k \in Games /\ pass[p].desired[k].by = None
                    THEN [pass[p].desired EXCEPT ![k] = [by |-> s, torn |-> row[s].torn,
                                                         stale |-> FALSE]]
                    ELSE pass[p].desired
    <3>2. pass[p].left \in SUBSET Sources /\ pass[p].desired \in [Games -> Records]
      BY <2>jobs, PassFields
    <3>3. [by |-> s, torn |-> row[s].torn, stale |-> FALSE] \in Records
      BY <3>2 DEF TypeOK, Rows, Records
    <3>4. d \in [Games -> Records]
      BY <3>2, <3>3
    <3>5. [pass[p] EXCEPT !.left = @ \ {s}, !.desired = d] \in Passes
      BY <2>jobs, <3>2, <3>4, WalkPass
    <3>6. pass' = [pass EXCEPT ![p] = [pass[p] EXCEPT !.left = @ \ {s}, !.desired = d]]
      BY <3>1 DEF TypeOK
    <3> QED
      BY <2>10, <3>5, <3>6 DEF Walk, TypeOK, dbVars
  <2>11. ASSUME NEW p \in Procs, ListStatuses(p) PROVE TypeOK'
    <3>1. [pass[p] EXCEPT !.work = Diff(pass[p].desired), !.rank = NoPass.rank] \in Passes
      BY <2>jobs, ListPass, PassShape, PassFields DEF Diff
    <3> QED
      BY <2>11, <3>1 DEF ListStatuses, Labels, Goto, TypeOK, dbVars
  <2>12. ASSUME NEW p \in Procs, NEW g \in Games, WriteStatus(p, g) PROVE TypeOK'
    <3>1. pass[p].desired[g] \in Records /\ pass[p].work \ {g} \in SUBSET Games
      BY <2>jobs, PassFields
    <3>2. [pass[p] EXCEPT !.work = @ \ {g}] \in Passes
      BY <2>jobs, <3>1, WorkUpdate
    <3> QED
      BY <2>12, <3>1, <3>2 DEF WriteStatus, TypeOK, dbVars
  <2>13. ASSUME NEW p \in Procs, DeleteStatus(p) \/ PutStatus(p) PROVE TypeOK'
    <3>1. PICK g \in pass[p].work : WriteStatus(p, g)
      BY <2>13 DEF DeleteStatus, PutStatus, Deletes
    <3> QED
      BY <2>12, <2>jobs, <3>1, PassFields
  <2>14. ASSUME NEW p \in Procs, Unlock(p) PROVE TypeOK'
    <3>1. pass[p].muted \in SUBSET Sources
      BY <2>jobs, PassFields
    <3>2. silent' \in SUBSET Sources
      BY <2>14, <3>1 DEF Unlock, TypeOK
    <3> QED
      BY <2>14, <3>2, PassShape, Finishes DEF Unlock, MutexOf, Labels, Goto, TypeOK, dbVars
  <2>15. ASSUME NEW p \in Handlers, EnableRequest(p) PROVE TypeOK'
    <3>1. PICK s \in Sources : Begin(p, "setOn", [NoJob EXCEPT !.op = "enable", !.src = s])
      BY <2>15 DEF EnableRequest
    <3>2. pc' \in [Procs -> Labels] /\ job' \in [Procs -> Jobs]
      BY <3>1, Begins, SourceJob DEF Labels
    <3> QED
      BY <2>15, <3>2 DEF EnableRequest, TypeOK, dbVars
  <2>16. ASSUME NEW p \in Handlers, SetOn(p) PROVE TypeOK'
    <3>1. pass' \in [Procs -> Passes]
      BY <2>16, <2>jobs, PassFields, MutedUpdate DEF SetOn, EnableSource, TypeOK
    <3> QED
      BY <2>16, <3>1, Calls DEF SetOn, EnableSource, TypeOK
  <2>17. ASSUME NEW p \in Handlers, DisableRequest(p) PROVE TypeOK'
    <3>1. PICK s \in Sources : Begin(p, "lock", [NoJob EXCEPT !.op = "disable", !.src = s])
                               /\ row' = [row EXCEPT ![s] = NoRow]
      BY <2>17 DEF DisableRequest
    <3>2. pc' \in [Procs -> Labels] /\ job' \in [Procs -> Jobs]
      BY <3>1, Begins, SourceJob DEF Labels
    <3> QED
      BY <2>17, <3>1, <3>2, RowShape DEF DisableRequest, TypeOK
  <2>18. ASSUME NEW p \in Handlers, FlipOff(p) PROVE TypeOK'
    <3>1. \A q \in Procs : [job[q] EXCEPT !.prev = Outdate(@)] \in Jobs
      BY <2>jobs, JobFields, Outdated, PrevUpdate
    <3>2. job' \in [Procs -> Jobs]
      BY <2>18, <2>jobs, <3>1, JobShape DEF FlipOff
    <3>3. row' \in [Sources -> Rows]
      BY <2>18, Outdated DEF FlipOff, StopSource, TypeOK
    <3> QED
      BY <2>18, <2>src, <3>2, <3>3 DEF FlipOff, StopSource, Labels, Goto, TypeOK
  <2>19. ASSUME NEW p \in Handlers, OrderRequest(p) PROVE TypeOK'
    <3>1. PICK q \in Orders : Begin(p, "order", [NoJob EXCEPT !.op = "order", !.order = q])
      BY <2>19 DEF OrderRequest
    <3>2. pc' \in [Procs -> Labels] /\ job' \in [Procs -> Jobs]
      BY <3>1, Begins, OrderJob DEF Labels
    <3> QED
      BY <2>19, <3>2 DEF OrderRequest, TypeOK, dbVars
  <2>20. ASSUME NEW p \in Handlers, OrderStep(p) PROVE TypeOK'
    <3>1. job' \in [Procs -> Jobs]
      BY <2>20, <2>jobs, NextUpdate DEF OrderStep, TypeOK
    <3>2. job[p].next - 1 \in Nat
      BY <2>jobs, JobFields
    <3> QED
      BY <2>20, <3>1, <3>2 DEF OrderStep, TypeOK
  <2>21. ASSUME NEW p \in Handlers, OrderDone(p) PROVE TypeOK'
    BY <2>21, Calls DEF OrderDone, TypeOK, dbVars
  <2>22. ASSUME NEW p \in Revokers, DropClaim(p) PROVE TypeOK'
    <3>1. PICK s \in Sources :
              /\ Begin(p, "unset", [NoJob EXCEPT !.op = "invalidate", !.src = s])
              /\ claim' = [claim EXCEPT ![s] = FALSE]
              /\ UNCHANGED <<on, prio, row, pds, mu, pass, faults, late, owed, silent>>
      BY <2>22 DEF DropClaim
    <3>2. pc' \in [Procs -> Labels] /\ job' \in [Procs -> Jobs]
      BY <3>1, Begins, SourceJob DEF Labels
    <3> QED
      BY <3>1, <3>2 DEF TypeOK
  <2>23. ASSUME NEW p \in Revokers, UnsetEnabled(p) PROVE TypeOK'
    <3>1. \A q \in Procs : [job[q] EXCEPT !.prev = Outdate(@)] \in Jobs
      BY <2>jobs, JobFields, Outdated, PrevUpdate
    <3>2. job' \in [Procs -> Jobs]
      BY <2>23, <2>jobs, <3>1, JobShape DEF UnsetEnabled
    <3>3. row' \in [Sources -> Rows]
      BY <2>23, Outdated DEF UnsetEnabled, StopSource, TypeOK
    <3> QED
      BY <2>23, <3>2, <3>3 DEF UnsetEnabled, StopSource, Labels, Goto, TypeOK
  <2>24. ASSUME NEW p \in Revokers, ClearSession(p) PROVE TypeOK'
    BY <2>24, Calls, RowShape DEF ClearSession, TypeOK
  <2>begun. ASSUME NEW p \in Sweepers, SweepBegin(p) PROVE TypeOK'
    <3>1. Begin(p, "list", [NoJob EXCEPT !.op = "sweep"])
      BY <2>begun DEF SweepBegin
    <3>2. pc' \in [Procs -> Labels] /\ job' \in [Procs -> Jobs]
      BY <3>1, Begins, SweepJob DEF Labels
    <3> QED
      BY <2>begun, <3>2 DEF SweepBegin, TypeOK, dbVars
  <2>25. ASSUME NEW p \in Sweepers, SweepList(p) PROVE TypeOK'
    <3>1. [pass[p] EXCEPT !.work = Expired] \in Passes
      BY <2>jobs, WorkUpdate DEF Expired
    <3> QED
      BY <2>25, <3>1, Finishes DEF SweepList, Labels, Goto, TypeOK, dbVars
  <2>cut. ASSUME NEW p \in Sweepers, SweepCut(p) PROVE TypeOK'
    BY <2>cut, Finishes DEF SweepCut, TypeOK, dbVars
  <2>26. ASSUME NEW p \in Sweepers, SweepDelete(p) PROVE TypeOK'
    <3>1. PICK g \in pass[p].work : /\ pds' = [pds EXCEPT ![g] = NoRecord]
                                    /\ pass' = [pass EXCEPT ![p].work = @ \ {g}]
      BY <2>26 DEF SweepDelete
    <3>2. [pass[p] EXCEPT !.work = @ \ {g}] \in Passes
      BY <2>jobs, PassFields, WorkUpdate
    <3> QED
      BY <2>26, <3>1, <3>2, RecordShapes DEF SweepDelete, TypeOK, dbVars
  <2>27. ASSUME NEW p \in Sweepers, SweepEnd(p) PROVE TypeOK'
    BY <2>27, Finishes DEF SweepEnd, TypeOK, dbVars
  <2>28. ASSUME NEW p \in Procs, GiveUp(p) PROVE TypeOK'
    <3>1. late' \in SUBSET Writes
      BY <2>28, UnansweredWrites DEF GiveUp, TypeOK
    <3> QED
      BY <2>28, <3>1, Finishes, PassShape, FaultsAssumption
      DEF GiveUp, MutexOf, TypeOK, dbVars
  <2>29. CASE Crash
    <3>1. late' \in SUBSET Writes
      BY <2>29, UnansweredWrites DEF Crash, TypeOK
    <3> QED
      BY <2>29, <3>1, JobShape, PassShape, FaultsAssumption DEF Crash, Labels, TypeOK, dbVars
  <2>30. ASSUME NEW s \in Sources, Verify(s) PROVE TypeOK'
    BY <2>30 DEF Verify, TypeOK, procVars
  <2>31. ASSUME NEW g \in Games, Expire(g) PROVE TypeOK'
    BY <2>31 DEF Expire, Records, TypeOK, dbVars, procVars
  <2>32. ASSUME NEW g \in RivalGames, RivalPut(g) PROVE TypeOK'
    BY <2>32, RecordShapes DEF RivalPut, TypeOK, dbVars, procVars
  <2>33. ASSUME NEW g \in RivalGames, RivalDelete(g) PROVE TypeOK'
    BY <2>33, RecordShapes DEF RivalDelete, TypeOK, dbVars, procVars
  <2>34. CASE UNCHANGED vars
    BY <2>34 DEF vars, TypeOK
  <2>35. ASSUME NEW w \in late, Land(w) PROVE TypeOK'
    <3>1. w.game \in Games /\ w.record \in Records
      BY DEF TypeOK, Writes
    <3> QED
      BY <2>35, <3>1 DEF Land, TypeOK, dbVars, procVars
  <2> QED
    BY <2>1, <2>2, <2>3, <2>4, <2>5, <2>6, <2>7, <2>8, <2>9, <2>10, <2>11, <2>13,
       <2>14, <2>15, <2>16, <2>17, <2>18, <2>19, <2>20, <2>21, <2>22, <2>23, <2>24, <2>25,
       <2>26, <2>27, <2>28, <2>29, <2>30, <2>31, <2>32, <2>33, <2>34, <2>35, <2>omitted,
       <2>begun, <2>cut, Steps
<1>3. TypeOK /\ JobKnown /\ [Next]_vars => JobKnown'
  BY JobKnownStep
<1>4. Init => JobKnown
  BY DEF Init, JobKnown, NoJob
<1> QED
  BY <1>1, <1>2, <1>3, <1>4, PTL DEF Spec

\* Every variable keeps its shape, for any sources, games and goroutines.
THEOREM TypeCorrect == Spec => []TypeOK
BY TypesAndJobs, PTL

(***************************************************************************)
(* Steps outside Reconcile.  They leave the mutexes, the passes under way  *)
(* and `silent` alone, enable nothing, and publish nothing of ours.        *)
(***************************************************************************)
Aside ==
    /\ UNCHANGED <<mu, silent>>
    /\ owed => owed'
    /\ \A q \in Procs : Inside(q)' = Inside(q)
    /\ \A q \in Procs : Inside(q) => pc'[q] = pc[q] /\ pass'[q] = pass[q]
    /\ \A s \in Sources : on'[s] => on[s]
    /\ \A g \in Games : pds'[g].by \in {pds[g].by, None, Rival}

LEMMA AsideSteps ==
  ASSUME TypeOK, Next
  PROVE  \/ Aside
         \/ \E p \in Procs : \/ Lock(p) \/ Walk(p) \/ ListStatuses(p) \/ DeleteStatus(p)
                             \/ PutStatus(p) \/ Unlock(p) \/ GiveUp(p)
         \/ \E p \in Handlers : SetOn(p) \/ FlipOff(p)
         \/ Crash
         \/ \E w \in late : Land(w)
<1>procs. /\ Tickers \subseteq Procs /\ Presences \subseteq Procs
          /\ Handlers \subseteq Procs /\ Revokers \subseteq Procs
          /\ Sweepers \subseteq Procs
  BY DEF Procs
<1>begin. ASSUME NEW p \in Procs, NEW label \in Labels \ {"walk", "write"}, NEW f,
                 Begin(p, label, f), UNCHANGED <<mu, pass, owed, silent>>,
                 UNCHANGED on, UNCHANGED pds
          PROVE  Aside
  BY <1>begin DEF Aside, Begin, Goto, Inside, TypeOK
<1> USE <1>procs DEF Labels, Goto, dbVars, procVars
<1>1. ASSUME NEW p \in Tickers, TickList(p) PROVE Aside
  <2> DEFINE f == [NoJob EXCEPT !.op = "tick", !.src = Steam]
  <2>1. Begin(p, "tickClaim", f) /\ UNCHANGED <<mu, pass, owed, silent, on, pds>>
    BY <1>1 DEF TickList
  <2> HIDE DEF f
  <2> QED
    BY <1>begin, <2>1
<1>2. ASSUME NEW p \in Tickers, TickClaim(p) PROVE Aside
  BY <1>2 DEF TickClaim, Finish, Aside, Inside, TypeOK
<1>3. ASSUME NEW p \in Tickers, TickPoll(p) \/ TickOmitted(p) PROVE Aside
  BY <1>3 DEF TickPoll, TickOmitted, Finish, Aside, Inside, TypeOK
<1>4. ASSUME NEW p \in Presences, PresenceEvent(p) PROVE Aside
  <2>1. PICK s \in Sources \ {Steam}, k \in Keys \cup {None} :
           Begin(p, "gate", [NoJob EXCEPT !.op = "presence", !.src = s, !.key = k])
    BY <1>4 DEF PresenceEvent
  <2> DEFINE f == [NoJob EXCEPT !.op = "presence", !.src = s, !.key = k]
  <2>2. Begin(p, "gate", f) /\ UNCHANGED <<mu, pass, owed, silent, on, pds>>
    BY <1>4, <2>1 DEF PresenceEvent
  <2> HIDE DEF f
  <2> QED
    BY <1>begin, <2>2
<1>5. ASSUME NEW p \in Presences, PresenceGate(p) PROVE Aside
  BY <1>5 DEF PresenceGate, Finish, Aside, Inside, TypeOK
<1>6. ASSUME NEW p \in Procs, ReadPrev(p) PROVE Aside
  BY <1>6 DEF ReadPrev, Aside, Inside, TypeOK
<1>7. ASSUME NEW p \in Procs, WriteSession(p) PROVE Aside
  BY <1>7 DEF WriteSession, CallReconcile, Aside, Inside, TypeOK
<1>8. ASSUME NEW p \in Procs, WriteDetails(p) PROVE Aside
  BY <1>8 DEF WriteDetails, CallReconcile, Aside, Inside, TypeOK
<1>9. ASSUME NEW p \in Handlers, EnableRequest(p) PROVE Aside
  <2>1. PICK s \in Sources : Begin(p, "setOn", [NoJob EXCEPT !.op = "enable", !.src = s])
    BY <1>9 DEF EnableRequest
  <2> DEFINE f == [NoJob EXCEPT !.op = "enable", !.src = s]
  <2>2. Begin(p, "setOn", f) /\ UNCHANGED <<mu, pass, owed, silent, on, pds>>
    BY <1>9, <2>1 DEF EnableRequest
  <2> HIDE DEF f
  <2> QED
    BY <1>begin, <2>2
<1>10. ASSUME NEW p \in Handlers, DisableRequest(p) PROVE Aside
  <2>1. PICK s \in Sources : Begin(p, "lock", [NoJob EXCEPT !.op = "disable", !.src = s])
    BY <1>10 DEF DisableRequest
  <2> DEFINE f == [NoJob EXCEPT !.op = "disable", !.src = s]
  <2>2. Begin(p, "lock", f) /\ UNCHANGED <<mu, pass, owed, silent, on, pds>>
    BY <1>10, <2>1 DEF DisableRequest
  <2> HIDE DEF f
  <2> QED
    BY <1>begin, <2>2
<1>11. ASSUME NEW p \in Handlers, OrderRequest(p) PROVE Aside
  <2>1. PICK q \in Orders : Begin(p, "order", [NoJob EXCEPT !.op = "order", !.order = q])
    BY <1>11 DEF OrderRequest
  <2> DEFINE f == [NoJob EXCEPT !.op = "order", !.order = q]
  <2>2. Begin(p, "order", f) /\ UNCHANGED <<mu, pass, owed, silent, on, pds>>
    BY <1>11, <2>1 DEF OrderRequest
  <2> HIDE DEF f
  <2> QED
    BY <1>begin, <2>2
<1>12. ASSUME NEW p \in Handlers, OrderStep(p) PROVE Aside
  BY <1>12 DEF OrderStep, Aside, Inside, TypeOK
<1>13. ASSUME NEW p \in Handlers, OrderDone(p) PROVE Aside
  BY <1>13 DEF OrderDone, CallReconcile, Aside, Inside, TypeOK
<1>14. ASSUME NEW p \in Revokers, DropClaim(p) PROVE Aside
  <2>1. PICK s \in Sources : Begin(p, "unset", [NoJob EXCEPT !.op = "invalidate", !.src = s])
    BY <1>14 DEF DropClaim
  <2> DEFINE f == [NoJob EXCEPT !.op = "invalidate", !.src = s]
  <2>2. Begin(p, "unset", f) /\ UNCHANGED <<mu, pass, owed, silent, on, pds>>
    BY <1>14, <2>1 DEF DropClaim
  <2> HIDE DEF f
  <2> QED
    BY <1>begin, <2>2
<1>15. ASSUME NEW p \in Revokers, UnsetEnabled(p) PROVE Aside
  BY <1>15 DEF UnsetEnabled, StopSource, Aside, Inside, TypeOK
<1>16. ASSUME NEW p \in Revokers, ClearSession(p) PROVE Aside
  BY <1>16 DEF ClearSession, CallReconcile, Aside, Inside, TypeOK
<1>17. ASSUME NEW p \in Sweepers, SweepBegin(p) \/ SweepList(p) \/ SweepCut(p) PROVE Aside
  BY <1>17 DEF SweepBegin, SweepList, SweepCut, Begin, Finish, Aside, Inside, TypeOK
<1>18. ASSUME NEW p \in Sweepers, SweepDelete(p) PROVE Aside
  <2>1. PICK g \in pass[p].work : /\ pds' = [pds EXCEPT ![g] = NoRecord]
                                  /\ pass' = [pass EXCEPT ![p].work = @ \ {g}]
    BY <1>18 DEF SweepDelete
  <2> QED
    BY <1>18, <2>1 DEF SweepDelete, NoRecord, Aside, Inside, TypeOK
<1>19. ASSUME NEW p \in Sweepers, SweepEnd(p) PROVE Aside
  BY <1>19 DEF SweepEnd, Finish, Aside, Inside, TypeOK
<1>20. ASSUME NEW s \in Sources, Verify(s) PROVE Aside
  BY <1>20 DEF Verify, Aside, Inside, TypeOK
<1>21. ASSUME NEW g \in Games, Expire(g) PROVE Aside
  BY <1>21 DEF Expire, Records, Aside, Inside, TypeOK
<1>22. ASSUME NEW g \in RivalGames, RivalPut(g) PROVE Aside
  BY <1>22 DEF RivalPut, RivalRecord, NoRecord, Aside, Inside, TypeOK
<1>23. ASSUME NEW g \in RivalGames, RivalDelete(g) PROVE Aside
  BY <1>23 DEF RivalDelete, NoRecord, Aside, Inside, TypeOK
<1> QED
  BY <1>1, <1>2, <1>3, <1>4, <1>5, <1>6, <1>7, <1>8, <1>9, <1>10, <1>11, <1>12, <1>13,
     <1>14, <1>15, <1>16, <1>17, <1>18, <1>19, <1>20, <1>21, <1>22, <1>23, Steps

(***************************************************************************)
(* The mutexes.                                                            *)
(***************************************************************************)
\* Exactly the goroutine inside a Reconciler's Reconcile holds its mutex, and
\* no return leaves it locked.
THEOREM MutexesHeld == Spec => []LockDiscipline
<1>1. Init => LockDiscipline
  BY ProcsAssumption DEF Init, LockDiscipline, Inside
<1>2. TypeOK /\ LockDiscipline /\ [Next]_vars => LockDiscipline'
  <2> SUFFICES ASSUME TypeOK, LockDiscipline, [Next]_vars PROVE LockDiscipline'
    OBVIOUS
  <2> USE ProcsAssumption DEF LockDiscipline, Inside, MutexOf, TypeOK
  <2>1. CASE Aside
    BY <2>1 DEF Aside
  <2>2. ASSUME NEW p \in Procs, Lock(p) PROVE LockDiscipline'
    BY <2>2 DEF Lock, Goto
  <2>3. ASSUME NEW p \in Procs, Walk(p) \/ ListStatuses(p) PROVE LockDiscipline'
    BY <2>3 DEF Walk, ListStatuses, Goto
  <2>4. ASSUME NEW p \in Procs, DeleteStatus(p) \/ PutStatus(p) PROVE LockDiscipline'
    BY <2>4 DEF DeleteStatus, PutStatus, WriteStatus
  <2>5. ASSUME NEW p \in Procs, Unlock(p) PROVE LockDiscipline'
    BY <2>5 DEF Unlock, Finish, Goto
  <2>6. ASSUME NEW p \in Procs, GiveUp(p) PROVE LockDiscipline'
    BY <2>6 DEF GiveUp, Finish, Goto
  <2>7. ASSUME NEW p \in Handlers, SetOn(p) \/ FlipOff(p) PROVE LockDiscipline'
    BY <2>7 DEF SetOn, FlipOff, CallReconcile, Goto, Procs
  <2>8. CASE Crash
    BY <2>8 DEF Crash
  <2>9. CASE (\E w \in late : Land(w)) \/ UNCHANGED vars
    BY <2>9 DEF Land, procVars, vars
  <2> QED
    BY <2>1, <2>2, <2>3, <2>4, <2>5, <2>6, <2>7, <2>8, <2>9, AsideSteps
<1> QED
  BY <1>1, <1>2, TypeCorrect, PTL DEF Spec

(***************************************************************************)
(* Consent.  OffStaysOff is not inductive: the walk must not have a muted  *)
(* source left either.  Nor does a pass ever put a record in the name of   *)
(* another instance.                                                       *)
(***************************************************************************)
MutedUnseen ==
    \A p \in Procs : Inside(p) =>
        /\ pass[p].left \cap pass[p].muted = {}
        /\ \A g \in Games : pass[p].desired[g].by \notin pass[p].muted \cup {Rival}

LEMMA MutedStep ==
  ASSUME TypeOK, MutedUnseen, [Next]_vars
  PROVE  MutedUnseen'
<1>passes. \A q \in Procs : pass[q] \in Passes
  BY DEF TypeOK
<1> USE SourcesAssumption DEF MutedUnseen, Inside, TypeOK
<1>1. CASE Aside
  BY <1>1 DEF Aside
<1>2. ASSUME NEW p \in Procs, Lock(p) PROVE MutedUnseen'
  BY <1>2 DEF Lock, Goto, NoPass, NoRecord, On
<1>3. ASSUME NEW p \in Procs, Walk(p) PROVE MutedUnseen'
  BY <1>3, PassFields DEF Walk, Passes
<1>4. ASSUME NEW p \in Procs, ListStatuses(p) PROVE MutedUnseen'
  BY <1>4, PassFields DEF ListStatuses, Goto, Passes
<1>5. ASSUME NEW p \in Procs, DeleteStatus(p) \/ PutStatus(p) PROVE MutedUnseen'
  <2>1. PICK g \in pass[p].work : WriteStatus(p, g)
    BY <1>5 DEF DeleteStatus, PutStatus, Deletes
  <2>2. /\ UNCHANGED pc
        /\ \A q \in Procs : /\ pass'[q].left = pass[q].left
                            /\ pass'[q].muted = pass[q].muted
                            /\ pass'[q].desired = pass[q].desired
    BY <2>1, <1>passes DEF WriteStatus, Passes
  <2> QED
    BY <2>2
<1>6. ASSUME NEW p \in Procs, Unlock(p) PROVE MutedUnseen'
  BY <1>6 DEF Unlock, Finish, Goto
<1>7. ASSUME NEW p \in Procs, GiveUp(p) PROVE MutedUnseen'
  BY <1>7 DEF GiveUp, Finish, Goto
<1>8. ASSUME NEW p \in Handlers, SetOn(p) PROVE MutedUnseen'
  <2>1. \A q \in Procs : Inside(q)' => Inside(q)
    BY <1>8 DEF SetOn, EnableSource, CallReconcile, Goto
  <2>2. \A q \in Procs : /\ pass'[q].left = pass[q].left
                         /\ pass'[q].muted \subseteq pass[q].muted
                         /\ pass'[q].desired = pass[q].desired
    BY <1>8, <1>passes DEF SetOn, EnableSource, Passes
  <2> QED
    BY <2>1, <2>2
<1>9. ASSUME NEW p \in Handlers, FlipOff(p) PROVE MutedUnseen'
  BY <1>9 DEF FlipOff, Goto, Procs
<1>10. CASE Crash
  BY <1>10 DEF Crash
<1>11. CASE (\E w \in late : Land(w)) \/ UNCHANGED vars
  BY <1>11 DEF Land, procVars, vars
<1> QED
  BY <1>1, <1>2, <1>3, <1>4, <1>5, <1>6, <1>7, <1>8, <1>9, <1>10, <1>11, AsideSteps

LEMMA NeverUnseen == Spec => []MutedUnseen
<1>1. Init => MutedUnseen
  BY DEF Init, MutedUnseen, Inside
<1>2. TypeOK /\ MutedUnseen /\ [Next]_vars => MutedUnseen'
  BY MutedStep
<1> QED
  BY <1>1, <1>2, TypeCorrect, PTL DEF Spec

\* A pass never publishes a source disabled ever since it took its mutex.
THEOREM ConsentRespected == Spec => []OffStaysOff
<1>1. MutedUnseen => OffStaysOff
  BY DEF MutedUnseen, OffStaysOff
<1> QED
  BY <1>1, NeverUnseen, PTL

(***************************************************************************)
(* What follows is about goroutines that share one Reconciler: the callers *)
(* of the one that main wires, however many, or a poll loop that is alone  *)
(* with the sweep, as for an account that plays on Steam only.             *)
(***************************************************************************)
Reconcilers == Tickers \cup Presences \cup Handlers \cup Revokers

OneMutex == \A p, q \in Reconcilers : MutexOf(p) = MutexOf(q)

\* The sweep never reconciles.
SweepsOnly == \A q \in Procs \ Reconcilers : pc[q] \in {"idle", "list", "sweep"}

\* So whoever does is in Reconcilers.
AtWork(p) == pc[p] \notin {"idle", "list", "sweep"}
OneShared == \A p, q \in {r \in Procs : AtWork(r)} : MutexOf(p) = MutexOf(q)

LEMMA SweepsOnlyStep ==
  ASSUME TypeOK, SweepsOnly, [Next]_vars
  PROVE  SweepsOnly'
<1>pc. pc \in [Procs -> Labels]
  BY DEF TypeOK
<1>one. ASSUME NEW p \in Procs, p \in Reconcilers \/ pc'[p] \in {"idle", "list", "sweep"},
               \A q \in Procs \ {p} : pc'[q] = pc[q]
        PROVE  SweepsOnly'
  BY <1>one DEF SweepsOnly
<1>goto. ASSUME NEW p \in Procs, NEW label, Goto(p, label)
         PROVE  pc'[p] = label /\ \A q \in Procs \ {p} : pc'[q] = pc[q]
  BY <1>goto, <1>pc DEF Goto
<1>groups. /\ Reconcilers \subseteq Procs /\ Sweepers \subseteq Procs
           /\ Tickers \subseteq Reconcilers /\ Presences \subseteq Reconcilers
           /\ Handlers \subseteq Reconcilers /\ Revokers \subseteq Reconcilers
  BY DEF Procs, Reconcilers
<1>same. ASSUME UNCHANGED pc PROVE SweepsOnly'
  BY <1>same DEF SweepsOnly
<1>1. ASSUME NEW p \in Tickers, TickList(p) \/ TickClaim(p) \/ TickPoll(p) \/ TickOmitted(p)
      PROVE  SweepsOnly'
  BY <1>1, <1>groups, <1>goto, <1>one DEF TickList, TickClaim, TickPoll, TickOmitted, Begin, Finish
<1>2. ASSUME NEW p \in Presences, PresenceEvent(p) \/ PresenceGate(p) PROVE SweepsOnly'
  BY <1>2, <1>groups, <1>goto, <1>one DEF PresenceEvent, PresenceGate, Begin, Finish
<1>3. ASSUME NEW p \in Handlers,
             \/ EnableRequest(p) \/ SetOn(p) \/ DisableRequest(p) \/ FlipOff(p)
             \/ OrderRequest(p) \/ OrderDone(p)
      PROVE  SweepsOnly'
  BY <1>3, <1>groups, <1>goto, <1>one
  DEF EnableRequest, SetOn, DisableRequest, FlipOff, OrderRequest, OrderDone, Begin,
      CallReconcile
<1>4. ASSUME NEW p \in Revokers, DropClaim(p) \/ UnsetEnabled(p) \/ ClearSession(p)
      PROVE  SweepsOnly'
  BY <1>4, <1>groups, <1>goto, <1>one
  DEF DropClaim, UnsetEnabled, ClearSession, Begin, CallReconcile
<1>5. ASSUME NEW p \in Sweepers, SweepBegin(p) \/ SweepList(p) \/ SweepCut(p) \/ SweepEnd(p)
      PROVE  SweepsOnly'
  BY <1>5, <1>groups, <1>goto, <1>one DEF SweepBegin, SweepList, SweepCut, SweepEnd, Begin, Finish
<1>6. ASSUME NEW p \in Procs, ReadPrev(p) \/ WriteSession(p) \/ WriteDetails(p)
      PROVE  SweepsOnly'
  <2>1. p \in Reconcilers
    BY <1>6 DEF SweepsOnly, ReadPrev, WriteSession, WriteDetails
  <2> QED
    BY <1>6, <2>1, <1>goto, <1>one DEF ReadPrev, WriteSession, WriteDetails, CallReconcile
<1>7. ASSUME NEW p \in Procs, Lock(p) \/ ListStatuses(p) \/ Unlock(p) PROVE SweepsOnly'
  <2>1. p \in Reconcilers
    BY <1>7 DEF SweepsOnly, Lock, ListStatuses, Unlock
  <2> QED
    BY <1>7, <2>1, <1>goto, <1>one DEF Lock, ListStatuses, Unlock, Finish
<1>8. ASSUME NEW p \in Procs, GiveUp(p) PROVE SweepsOnly'
  BY <1>8, <1>goto, <1>one DEF GiveUp, Finish
<1>9. ASSUME NEW p \in Procs, Walk(p) \/ DeleteStatus(p) \/ PutStatus(p) PROVE SweepsOnly'
  BY <1>9, <1>same DEF Walk, DeleteStatus, PutStatus, WriteStatus
<1>10. ASSUME NEW p \in Procs, OrderStep(p) \/ SweepDelete(p) PROVE SweepsOnly'
  BY <1>10, <1>same DEF OrderStep, SweepDelete
<1>11. CASE Crash
  BY <1>11 DEF Crash, SweepsOnly
<1>12. ASSUME \/ \E w \in late : Land(w)
              \/ \E s \in Sources : Verify(s)
              \/ \E g \in Games : Expire(g)
              \/ \E g \in RivalGames : RivalPut(g) \/ RivalDelete(g)
       PROVE  SweepsOnly'
  BY <1>12, <1>same DEF Land, Verify, Expire, RivalPut, RivalDelete, procVars
<1>13. CASE UNCHANGED vars
  BY <1>13, <1>same DEF vars
<1> QED
  BY <1>1, <1>2, <1>3, <1>4, <1>5, <1>6, <1>7, <1>8, <1>9, <1>10, <1>11, <1>12, <1>13,
     <1>groups, Steps

LEMMA AlwaysOneShared ==
  ASSUME OneMutex
  PROVE  Spec => []OneShared
<1>1. Init => SweepsOnly
  BY DEF Init, SweepsOnly
<1>2. TypeOK /\ SweepsOnly /\ [Next]_vars => SweepsOnly'
  BY SweepsOnlyStep
<1>3. SweepsOnly => OneShared
  BY DEF SweepsOnly, OneShared, AtWork, OneMutex
<1> QED
  BY <1>1, <1>2, <1>3, TypeCorrect, PTL DEF Spec

LEMMA OneInside ==
  ASSUME LockDiscipline, TypeOK, OneShared, NEW p \in Procs, NEW q \in Procs,
         Inside(p), Inside(q)
  PROVE  p = q
<1>1. MutexOf(p) = MutexOf(q) /\ MutexOf(p) \in DOMAIN mu
  BY DEF OneShared, AtWork, Inside, TypeOK, MutexOf
<1> QED
  BY <1>1 DEF LockDiscipline

\* Whoever takes the mutex finds nobody inside.
LEMMA NobodyInside ==
  ASSUME LockDiscipline, TypeOK, OneShared, NEW p \in Procs, Lock(p), NEW q \in Procs
  PROVE  ~Inside(q)
<1> SUFFICES ASSUME Inside(q) PROVE FALSE
  OBVIOUS
<1>1. MutexOf(p) = MutexOf(q) /\ MutexOf(q) \in DOMAIN mu
  BY DEF OneShared, AtWork, Inside, Lock, TypeOK, MutexOf
<1> QED
  BY <1>1, ProcsAssumption DEF LockDiscipline, Lock

(***************************************************************************)
(* A stop is final.                                                        *)
(***************************************************************************)
\* A stopped source is off, is muted in whatever pass is under way, and has no
\* record; what a pass has muted has been off ever since; and a pass that is writing
\* has settled the rkeys it is done with, unless something else has gone wrong.
SilentInv ==
    /\ \A s \in silent : ~on[s]
    /\ \A p \in Procs : Inside(p) =>
          /\ silent \subseteq pass[p].muted
          /\ \A s \in pass[p].muted : ~on[s]
    /\ StopIsFinal
    /\ \A p \in Procs : pc[p] = "write" /\ ~owed =>
          \A g \in Games \ pass[p].work :
              pds[g].by \in {Rival, None, pass[p].desired[g].by}

LEMMA SilentStep ==
  ASSUME TypeOK, JobKnown, LockDiscipline, MutedUnseen, SilentInv, OneShared,
         "disable" \notin HandlerOps, [Next]_vars
  PROVE  SilentInv'
<1>passes. \A q \in Procs : pass[q] \in Passes
  BY DEF TypeOK
<1>apart. \A s \in Sources : s # Rival /\ s # None
  BY SourcesAssumption
<1>silent. silent \subseteq Sources
  BY DEF TypeOK
<1>1. CASE Aside
  <2>1. \A q \in Procs : pc'[q] = "write" => pc[q] = "write" /\ pass'[q] = pass[q]
    BY <1>1 DEF Aside, Inside
  <2> QED
    BY <1>1, <2>1, <1>passes, <1>apart, <1>silent, PassFields
    DEF Aside, SilentInv, StopIsFinal
<1>2. ASSUME NEW p \in Procs, Lock(p) PROVE SilentInv'
  <2>1. \A q \in Procs : ~Inside(q)
    BY <1>2, NobodyInside
  <2>2. /\ pc'[p] = "walk" /\ UNCHANGED <<on, pds, silent>>
        /\ \A q \in Procs : q # p => pc'[q] = pc[q]
        /\ pass'[p].muted = Sources \ On
    BY <1>2 DEF Lock, Goto, dbVars, TypeOK, NoPass
  <2> QED
    BY <2>1, <2>2, <1>silent DEF On, SilentInv, StopIsFinal, Inside
<1>3. ASSUME NEW p \in Procs, Walk(p) PROVE SilentInv'
  <2>1. /\ pc[p] = "walk" /\ UNCHANGED <<on, pc, pds, owed, silent>>
        /\ \A q \in Procs : pass'[q].muted = pass[q].muted
        /\ \A q \in Procs : q # p => pass'[q] = pass[q]
    BY <1>3, <1>passes DEF Walk, Passes, dbVars, TypeOK
  <2> QED
    BY <2>1 DEF SilentInv, StopIsFinal, Inside
<1>4. ASSUME NEW p \in Procs, ListStatuses(p) PROVE SilentInv'
  <2>1. /\ pc[p] = "walk" /\ UNCHANGED <<on, pds, owed, silent>>
        /\ \A q \in Procs : pass'[q].muted = pass[q].muted
        /\ \A q \in Procs : pass'[q].desired = pass[q].desired
        /\ pass'[p].work = Diff(pass[p].desired)
        /\ \A q \in Procs : q # p => pass'[q] = pass[q] /\ pc'[q] = pc[q]
        /\ \A q \in Procs : Inside(q)' = Inside(q)
    BY <1>4, <1>passes DEF ListStatuses, Passes, Goto, dbVars, TypeOK, Inside
  <2>2. \A g \in Games \ Diff(pass[p].desired) : pds[g].by \in {Rival, None}
    BY DEF Diff, Ours, TypeOK, Records
  <2> QED
    BY <2>1, <2>2 DEF SilentInv, StopIsFinal
<1>5. ASSUME NEW p \in Procs, DeleteStatus(p) \/ PutStatus(p) PROVE SilentInv'
  <2>1. PICK g \in pass[p].work : WriteStatus(p, g)
    BY <1>5 DEF DeleteStatus, PutStatus, Deletes
  <2>2. g \in Games /\ pc[p] = "write"
    BY <1>5, <1>passes, PassFields DEF DeleteStatus, PutStatus
  <2>3. pass[p].desired[g].by \notin silent
    BY <2>2 DEF MutedUnseen, SilentInv, Inside
  <2>4. \A q \in Procs : pc[q] = "write" => q = p
    BY <2>2, OneInside DEF Inside
  <2>5. /\ UNCHANGED <<on, pc, owed, silent>>
        /\ pds' = [pds EXCEPT ![g] = pass[p].desired[g]]
        /\ \A q \in Procs : /\ pass'[q].muted = pass[q].muted
                            /\ pass'[q].desired = pass[q].desired
        /\ pass'[p].work = pass[p].work \ {g}
    BY <2>1, <1>passes DEF WriteStatus, Passes, dbVars, TypeOK
  <2> QED
    BY <2>2, <2>3, <2>4, <2>5 DEF SilentInv, StopIsFinal, Inside, TypeOK
<1>6. ASSUME NEW p \in Procs, Unlock(p) PROVE SilentInv'
  <2>1. \A q \in Procs : Inside(q) => q = p
    BY <1>6, OneInside DEF Unlock, Inside
  <2>2. pass[p].work = {} /\ pc[p] = "write" /\ UNCHANGED <<on, pds>>
    BY <1>6 DEF Unlock, dbVars
  <2>3. pass[p].muted \subseteq Sources
    BY <1>passes, PassFields
  <2>4. ~owed => \A s \in pass[p].muted, g \in Games : pds[g].by # s
    BY <2>2, <2>3, <1>apart DEF MutedUnseen, SilentInv, Inside
  <2>5. silent' \subseteq IF owed THEN silent ELSE silent \cup pass[p].muted
    BY <1>6 DEF Unlock
  <2>6. \A q \in Procs : ~Inside(q)'
    BY <1>6, <2>1 DEF Unlock, Finish, Goto, Inside, TypeOK
  <2>7. \A s \in silent' : ~on[s] /\ \A g \in Games : pds[g].by # s
    BY <2>2, <2>4, <2>5 DEF SilentInv, StopIsFinal, Inside
  <2> QED
    BY <2>2, <2>6, <2>7 DEF SilentInv, StopIsFinal, Inside
<1>7. ASSUME NEW p \in Procs, GiveUp(p) PROVE SilentInv'
  BY <1>7 DEF GiveUp, Finish, Goto, dbVars, SilentInv, StopIsFinal, Inside, TypeOK
<1>8. ASSUME NEW p \in Handlers, SetOn(p) PROVE SilentInv'
  <2> DEFINE s == job[p].src
  <2>1. /\ UNCHANGED <<pds, owed>> /\ silent' = silent \ {s}
        /\ \A t \in Sources : t # s => on'[t] = on[t]
        /\ \A q \in Procs : pc'[q] = "write" => pc[q] = "write"
        /\ \A q \in Procs : Inside(q)' => Inside(q)
    BY <1>8 DEF SetOn, EnableSource, CallReconcile, Goto, Inside, TypeOK
  <2>2. \A q \in Procs : /\ pass'[q].muted = pass[q].muted \ {s}
                         /\ pass'[q].desired = pass[q].desired
                         /\ pass'[q].work = pass[q].work
    BY <1>8, <1>passes DEF SetOn, EnableSource, Passes
  <2>3. \A q \in Procs : pass[q].muted \subseteq Sources
    BY <1>passes, PassFields
  <2> QED
    BY <2>1, <2>2, <2>3, <1>silent DEF SilentInv, StopIsFinal
<1>9. ASSUME NEW p \in Handlers, FlipOff(p) PROVE SilentInv'
  BY <1>9 DEF FlipOff, JobKnown, Procs
<1>10. CASE Crash
  BY <1>10 DEF Crash, dbVars, SilentInv, StopIsFinal, Inside
<1>11. CASE UNCHANGED vars
  BY <1>11 DEF vars, SilentInv, StopIsFinal, Inside
<1>12. ASSUME NEW w \in late, Land(w) PROVE SilentInv'
  <2>1. w.game \in Games
    BY DEF TypeOK, Writes
  <2>2. /\ silent' = silent \ {w.record.by} /\ owed' /\ UNCHANGED <<on, pc, pass>>
        /\ pds' = [pds EXCEPT ![w.game] = w.record]
    BY <1>12 DEF Land, dbVars, procVars
  <2>3. \A s \in silent', g \in Games : pds'[g].by # s
    BY <2>1, <2>2 DEF SilentInv, StopIsFinal, TypeOK
  <2> QED
    BY <2>2, <2>3 DEF SilentInv, StopIsFinal, Inside
<1> QED
  BY <1>1, <1>2, <1>3, <1>4, <1>5, <1>6, <1>7, <1>8, <1>9, <1>10, <1>11, <1>12, AsideSteps

LEMMA AlwaysSilent ==
  ASSUME OneMutex, "disable" \notin HandlerOps
  PROVE  Spec => []SilentInv
<1>1. Init => SilentInv
  BY DEF Init, SilentInv, StopIsFinal, Inside
<1>2. TypeOK /\ JobKnown /\ LockDiscipline /\ MutedUnseen /\ OneShared /\ SilentInv
      /\ [Next]_vars
      => SilentInv'
  BY SilentStep
<1> QED
  BY <1>1, <1>2, TypesAndJobs, MutexesHeld, NeverUnseen, AlwaysOneShared, PTL DEF Spec

\* Among the goroutines of one Reconciler none that was already under
\* way brings a stopped source back.
THEOREM StopsAreFinal ==
  ASSUME OneMutex, "disable" \notin HandlerOps
  PROVE  Spec => []StopIsFinal
<1>1. SilentInv => StopIsFinal
  BY DEF SilentInv
<1> QED
  BY <1>1, AlwaysSilent, PTL
=============================================================================
