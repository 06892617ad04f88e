---------------------------- MODULE AtRest_proofs ----------------------------
(***************************************************************************)
(* The proof that what is published at rest is what the database says, for *)
(* any number of goroutines with one Reconciler (a tick, which has a mutex *)
(* of its own, must be alone) and no disable, which writes after its       *)
(* Reconcile.                                                              *)
(***************************************************************************)
EXTENDS StatusSync_proofs

Settled == ~owed /\ \A p \in Procs : ~Pending(p)

\* d is what a walk over the sources in S comes to for rkey g.
Picked(d, g, S) ==
    \/ d.by = None /\ \A s \in S : row[s].key # g
    \/ \E s \in Sources : Wins(s, g, S) /\ d.by = s /\ d.torn = row[s].torn

\* The record r is as good as d, the one wanted.
Settles(r, d) == r.by = Rival \/ (r.by = d.by /\ (r.by # None => r.torn = d.torn))

\* The pass of p has read the rows as they are now, and is done with every rkey
\* it has no work left on.
Tracks(p) ==
    /\ pass[p].left \subseteq On
    /\ pc[p] = "walk" => pass[p].rank = prio
    /\ \A s \in On \ pass[p].left, t \in pass[p].left : prio[s] <= prio[t]
    /\ \A g \in Games : Picked(pass[p].desired[g], g, On \ pass[p].left)
    /\ pc[p] = "write" =>
          /\ pass[p].left = {}
          /\ \A g \in Games \ pass[p].work : Settles(pds[g], pass[p].desired[g])

PublishedInv ==
    Settled =>
        /\ \A p \in Procs : Inside(p) => Tracks(p)
        /\ (\A p \in Procs : ~Inside(p)) => Consistent

(***************************************************************************)
(* A step to a settled state either takes the mutex, or belongs to the     *)
(* pass, or starts from a settled state and changes nothing that matters.  *)
(***************************************************************************)
Quiet ==
    /\ Settled
    /\ UNCHANGED <<row, on, prio>>
    /\ \A q \in Procs : Inside(q)' = Inside(q)
    /\ \A q \in Procs : Inside(q) => pc'[q] = pc[q] /\ pass'[q] = pass[q]
    /\ \A g \in Games : \/ pds'[g].by = Rival
                        \/ pds'[g].by = pds[g].by /\ pds'[g].torn = pds[g].torn

InReconcile ==
    \E p \in Procs : \/ Lock(p) \/ Walk(p) \/ ListStatuses(p) \/ DeleteStatus(p)
                     \/ PutStatus(p) \/ Unlock(p)

LEMMA QuietSteps ==
  ASSUME TypeOK, JobKnown, "disable" \notin HandlerOps, [Next]_vars, Settled'
  PROVE  Quiet \/ InReconcile
<1>procs. /\ Tickers \subseteq Procs /\ Presences \subseteq Procs
          /\ Handlers \subseteq Procs /\ Revokers \subseteq Procs
          /\ Sweepers \subseteq Procs
  BY DEF Procs
<1>pc. pc \in [Procs -> Labels]
  BY DEF TypeOK
<1>began. ASSUME NEW p \in Procs, NEW label \in {"tickClaim", "gate", "setOn", "unset", "list"},
                 NEW f, Begin(p, label, f), UNCHANGED <<row, on, prio, pds, owed>>,
                 \A q \in Procs \ {p} : pass'[q] = pass[q]
          PROVE  Quiet
  BY <1>began, <1>pc DEF Begin, Goto, Quiet, Settled, Pending, Inside
<1>pending. ASSUME NEW p \in Procs, NEW label \in {"details", "lock", "order", "clear"},
                   Goto(p, label)
            PROVE  FALSE
  BY <1>pending, <1>pc DEF Goto, Settled, Pending
<1> USE <1>procs, <1>pc DEF dbVars, procVars
<1>1. ASSUME NEW p \in Tickers, TickList(p) PROVE Quiet
  <2> DEFINE f == [NoJob EXCEPT !.op = "tick", !.src = Steam]
  <2>1. Begin(p, "tickClaim", f) /\ UNCHANGED <<row, on, prio, pds, owed, pass>>
    BY <1>1 DEF TickList
  <2> HIDE DEF f
  <2> QED
    BY <1>began, <2>1
<1>2. ASSUME NEW p \in Tickers, TickClaim(p) PROVE Quiet
  BY <1>2 DEF TickClaim, Finish, Goto, Quiet, Settled, Pending, Inside
<1>3. ASSUME NEW p \in Tickers, TickPoll(p) \/ TickOmitted(p) PROVE Quiet
  BY <1>3 DEF TickPoll, TickOmitted, Finish, Goto, Quiet, Settled, Pending, Inside
<1>4. ASSUME NEW p \in Presences, PresenceEvent(p) PROVE Quiet
  <2>1. PICK s \in Sources \ {Steam}, k \in Keys \cup {None} :
           Begin(p, "gate", [NoJob EXCEPT !.op = "presence", !.src = s, !.key = k])
    BY <1>4 DEF PresenceEvent
  <2> DEFINE f == [NoJob EXCEPT !.op = "presence", !.src = s, !.key = k]
  <2>2. Begin(p, "gate", f) /\ UNCHANGED <<row, on, prio, pds, owed, pass>>
    BY <1>4, <2>1 DEF PresenceEvent
  <2> HIDE DEF f
  <2> QED
    BY <1>began, <2>2
<1>5. ASSUME NEW p \in Presences, PresenceGate(p) PROVE Quiet
  BY <1>5 DEF PresenceGate, Finish, Goto, Quiet, Settled, Pending, Inside
<1>6. ASSUME NEW p \in Procs, ReadPrev(p) PROVE Quiet
  BY <1>6 DEF ReadPrev, Goto, Quiet, Settled, Pending, Inside
<1>7. ASSUME NEW p \in Procs, WriteSession(p) \/ WriteDetails(p) PROVE FALSE
  BY <1>7, <1>pending DEF WriteSession, WriteDetails, CallReconcile
<1>8. ASSUME NEW p \in Handlers, EnableRequest(p) PROVE Quiet
  <2>1. PICK s \in Sources : Begin(p, "setOn", [NoJob EXCEPT !.op = "enable", !.src = s])
    BY <1>8 DEF EnableRequest
  <2> DEFINE f == [NoJob EXCEPT !.op = "enable", !.src = s]
  <2>2. Begin(p, "setOn", f) /\ UNCHANGED <<row, on, prio, pds, owed, pass>>
    BY <1>8, <2>1 DEF EnableRequest
  <2> HIDE DEF f
  <2> QED
    BY <1>began, <2>2
<1>9. ASSUME NEW p \in Handlers, SetOn(p) PROVE FALSE
  BY <1>9, <1>pending DEF SetOn, CallReconcile
<1>10. ASSUME NEW p \in Handlers, DisableRequest(p) \/ FlipOff(p) PROVE FALSE
  BY <1>10 DEF DisableRequest, FlipOff, JobKnown
<1>11. ASSUME NEW p \in Handlers, OrderRequest(p) PROVE FALSE
  BY <1>11, <1>pending DEF OrderRequest, Begin
<1>12. ASSUME NEW p \in Handlers, OrderStep(p) PROVE FALSE
  BY <1>12 DEF OrderStep, Settled, Pending
<1>13. ASSUME NEW p \in Handlers, OrderDone(p) PROVE FALSE
  BY <1>13, <1>pending DEF OrderDone, CallReconcile
<1>14. ASSUME NEW p \in Revokers, DropClaim(p) PROVE Quiet
  <2>1. PICK s \in Sources : Begin(p, "unset", [NoJob EXCEPT !.op = "invalidate", !.src = s])
    BY <1>14 DEF DropClaim
  <2> DEFINE f == [NoJob EXCEPT !.op = "invalidate", !.src = s]
  <2>2. Begin(p, "unset", f) /\ UNCHANGED <<row, on, prio, pds, owed, pass>>
    BY <1>14, <2>1 DEF DropClaim
  <2> HIDE DEF f
  <2> QED
    BY <1>began, <2>2
<1>15. ASSUME NEW p \in Revokers, UnsetEnabled(p) \/ ClearSession(p) PROVE FALSE
  BY <1>15, <1>pending DEF UnsetEnabled, ClearSession, CallReconcile
<1>begun. ASSUME NEW p \in Sweepers, SweepBegin(p) PROVE Quiet
  <2> DEFINE f == [NoJob EXCEPT !.op = "sweep"]
  <2>1. Begin(p, "list", f) /\ UNCHANGED <<row, on, prio, pds, owed, pass>>
    BY <1>begun DEF SweepBegin
  <2> HIDE DEF f
  <2> QED
    BY <1>began, <2>1
<1>16. ASSUME NEW p \in Sweepers, SweepList(p) \/ SweepCut(p) PROVE Quiet
  <2>1. \A q \in Procs \ {p} : pass'[q] = pass[q]
    BY <1>16 DEF SweepList, SweepCut, TypeOK
  <2> QED
    BY <1>16, <2>1 DEF SweepList, SweepCut, Finish, Goto, Quiet, Settled, Pending, Inside
<1>17. ASSUME NEW p \in Sweepers, SweepDelete(p) PROVE FALSE
  BY <1>17 DEF SweepDelete, Settled
<1>18. ASSUME NEW p \in Sweepers, SweepEnd(p) PROVE Quiet
  BY <1>18 DEF SweepEnd, Finish, Goto, Quiet, Settled, Pending, Inside
<1>19. ASSUME NEW p \in Procs, GiveUp(p) PROVE FALSE
  BY <1>19 DEF GiveUp, Settled
<1>20. CASE Crash
  BY <1>20 DEF Crash, Settled
<1>21. ASSUME NEW s \in Sources, Verify(s) PROVE Quiet
  BY <1>21 DEF Verify, Quiet, Settled, Pending, Inside
<1>22. ASSUME NEW g \in Games, Expire(g) PROVE Quiet
  <2>1. \A h \in Games : pds'[h].by = pds[h].by /\ pds'[h].torn = pds[h].torn
    BY <1>22 DEF Expire, TypeOK, Records
  <2> QED
    BY <1>22, <2>1 DEF Expire, Quiet, Settled, Pending, Inside
<1>23. ASSUME NEW g \in RivalGames, RivalPut(g) PROVE Quiet
  <2>1. \A h \in Games : pds'[h].by = Rival \/ pds'[h] = pds[h]
    BY <1>23 DEF RivalPut, TypeOK, RivalRecord, NoRecord
  <2> QED
    BY <1>23, <2>1 DEF RivalPut, Quiet, Settled, Pending, Inside
<1>24. ASSUME NEW g \in RivalGames, RivalDelete(g) PROVE FALSE
  BY <1>24 DEF RivalDelete, Settled
<1>25. CASE UNCHANGED vars
  BY <1>25 DEF vars, Quiet, Settled, Pending, Inside
<1>26. ASSUME NEW w \in late, Land(w) PROVE FALSE
  BY <1>26 DEF Land, Settled
<1> QED
  BY <1>1, <1>2, <1>3, <1>4, <1>5, <1>6, <1>7, <1>8, <1>9, <1>10, <1>11, <1>12, <1>13,
     <1>14, <1>15, <1>16, <1>17, <1>18, <1>19, <1>20, <1>21, <1>22, <1>23, <1>24, <1>25,
     <1>26, <1>begun, Steps DEF InReconcile

(***************************************************************************)
(* The pass.                                                               *)
(***************************************************************************)
LEMMA WalkTracks ==
  ASSUME TypeOK, NEW p \in Procs, Walk(p), Tracks(p)
  PROVE  Tracks(p)'
<1> DEFINE left == pass[p].left
           desired == pass[p].desired
<1>1. PICK s \in left :
        LET k == row[s].key
            claims == k \in Games /\ pass[p].desired[k].by = None
        IN  /\ \A t \in left : pass[p].rank[s] <= pass[p].rank[t]
            /\ pass' = [pass EXCEPT
                    ![p].left = @ \ {s},
                    ![p].desired = IF claims
                                   THEN [@ EXCEPT ![k] = [by |-> s, torn |-> row[s].torn,
                                                          stale |-> FALSE]]
                                   ELSE @]
  BY DEF Walk
<1> DEFINE k == row[s].key
           claims == k \in Games /\ desired[k].by = None
           d == IF claims
                THEN [desired EXCEPT ![k] = [by |-> s, torn |-> row[s].torn, stale |-> FALSE]]
                ELSE desired
<1>2. pass[p] \in Passes
  BY DEF TypeOK
<1>3. left \in SUBSET Sources /\ desired \in [Games -> Records]
  BY <1>2, PassFields
<1>4. pass'[p].left = left \ {s} /\ pass'[p].desired = d /\ pass'[p].rank = pass[p].rank
  BY <1>1, <1>2 DEF TypeOK, Passes
<1>5. pc[p] = "walk" /\ UNCHANGED <<row, on, prio, pc>>
  BY DEF Walk, dbVars
<1>6. On' = On /\ left \subseteq On
  BY <1>5 DEF On, Tracks
<1>7. \A t \in left : prio[s] <= prio[t]
  BY <1>1, <1>5 DEF Tracks
<1>8. On \ (left \ {s}) = (On \ left) \cup {s}
  BY <1>6
<1>9. ASSUME NEW g \in Games
      PROVE  Picked(d[g], g, (On \ left) \cup {s})
  <2>1. Picked(desired[g], g, On \ left)
    BY DEF Tracks
  <2>2. CASE claims /\ g = k
    <3>1. d[g] = [by |-> s, torn |-> row[s].torn, stale |-> FALSE]
      BY <2>2, <1>3
    <3>2. \A t \in On \ left : row[t].key # g
      BY <2>1, <2>2, SourcesAssumption DEF Picked
    <3>3. prio[s] <= prio[s]
      BY <1>3 DEF TypeOK
    <3>4. Wins(s, g, (On \ left) \cup {s})
      BY <2>2, <3>2, <3>3 DEF Wins
    <3> QED
      BY <1>3, <3>1, <3>4 DEF Picked
  <2>3. CASE ~(claims /\ g = k)
    <3>1. d[g] = desired[g]
      BY <2>3, <1>3
    <3>2. CASE desired[g].by = None
      <4>1. \A t \in On \ left : row[t].key # g
        BY <2>1, <3>2, SourcesAssumption DEF Picked
      <4>2. row[s].key # g
        BY <2>3, <3>2
      <4> QED
        BY <3>1, <3>2, <4>1, <4>2 DEF Picked
    <3>3. CASE desired[g].by # None
      <4>1. PICK w \in Sources : /\ Wins(w, g, On \ left) /\ desired[g].by = w
                                 /\ desired[g].torn = row[w].torn
        BY <2>1, <3>3 DEF Picked
      <4>2. prio[w] <= prio[s]
        BY <4>1 DEF Wins, Tracks
      <4>3. Wins(w, g, (On \ left) \cup {s})
        BY <4>1, <4>2 DEF Wins
      <4> QED
        BY <3>1, <4>1, <4>3 DEF Picked
    <3> QED
      BY <3>2, <3>3
  <2> QED
    BY <2>2, <2>3
<1>10. \A t \in (On \ left) \cup {s}, u \in left \ {s} : prio[t] <= prio[u]
  BY <1>7 DEF Tracks
<1>11. pass'[p].rank = prio
  BY <1>4, <1>5 DEF Tracks
<1>12. ASSUME NEW g \in Games
       PROVE  Picked(pass[p].desired[g], g, On \ pass[p].left)'
  <2>1. Picked(d[g], g, (On \ left) \cup {s})
    BY <1>9
  <2>2. On' \ pass'[p].left = (On \ left) \cup {s} /\ pass'[p].desired[g] = d[g]
    BY <1>4, <1>6, <1>8
  <2> HIDE DEF d, left
  <2> QED
    BY <1>5, <2>1, <2>2 DEF Picked, Wins
<1> QED
  BY <1>4, <1>5, <1>6, <1>8, <1>10, <1>11, <1>12 DEF Tracks

LEMMA ListTracks ==
  ASSUME TypeOK, NEW p \in Procs, ListStatuses(p), Tracks(p)
  PROVE  Tracks(p)'
<1>1. pass[p] \in Passes
  BY DEF TypeOK
<1>2. /\ pass'[p].left = pass[p].left /\ pass'[p].desired = pass[p].desired
      /\ pass'[p].work = Diff(pass[p].desired)
  BY <1>1 DEF ListStatuses, TypeOK, Passes
<1>3. pass[p].left = {} /\ pc'[p] = "write" /\ UNCHANGED <<row, on, prio, pds>>
  BY DEF ListStatuses, Goto, TypeOK, dbVars
<1>4. ASSUME NEW g \in Games \ Diff(pass[p].desired)
      PROVE  Settles(pds[g], pass[p].desired[g])
  BY <1>4 DEF Settles, Diff, Ours, TypeOK, Records
<1>5. On' = On
  BY <1>3 DEF On
<1>6. \A g \in Games : Picked(pass[p].desired[g], g, On \ pass[p].left)'
  BY <1>2, <1>3, <1>5 DEF Tracks, Picked, Wins
<1> QED
  BY <1>2, <1>3, <1>4, <1>5, <1>6 DEF Tracks, Settles

LEMMA WriteTracks ==
  ASSUME TypeOK, NEW p \in Procs, NEW g \in Games, pc[p] = "write", WriteStatus(p, g), Tracks(p)
  PROVE  Tracks(p)'
<1>1. pass[p] \in Passes
  BY DEF TypeOK
<1>2. /\ pass'[p].left = pass[p].left /\ pass'[p].desired = pass[p].desired
      /\ pass'[p].work = pass[p].work \ {g}
  BY <1>1 DEF WriteStatus, TypeOK, Passes
<1>3. UNCHANGED <<row, on, prio, pc>> /\ pds' = [pds EXCEPT ![g] = pass[p].desired[g]]
  BY DEF WriteStatus, dbVars
<1>4. \A h \in Games \ (pass[p].work \ {g}) : Settles(pds'[h], pass[p].desired[h])
  BY <1>3 DEF Tracks, Settles, TypeOK
<1>5. On' = On
  BY <1>3 DEF On
<1>6. \A h \in Games : Picked(pass[p].desired[h], h, On \ pass[p].left)'
  BY <1>2, <1>3, <1>5 DEF Tracks, Picked, Wins
<1> QED
  BY <1>2, <1>3, <1>4, <1>5, <1>6 DEF Tracks, Settles

\* A pass with nothing left to do has made the collection say what the rows say.
LEMMA DonePublished ==
  ASSUME TypeOK, NEW p \in Procs, pc[p] = "write", pass[p].work = {}, Tracks(p)
  PROVE  Consistent
<1> SUFFICES ASSUME NEW g \in Games
             PROVE  Published(g)
  BY DEF Consistent
<1>1. Settles(pds[g], pass[p].desired[g]) /\ Picked(pass[p].desired[g], g, On)
  BY DEF Tracks
<1>2. CASE pds[g].by = Rival
  BY <1>2 DEF Published
<1>3. CASE pds[g].by # Rival /\ pds[g].by = None
  BY <1>1, <1>3, SourcesAssumption DEF Published, Settles, Picked
<1>4. CASE pds[g].by # Rival /\ pds[g].by # None
  BY <1>1, <1>4 DEF Published, Settles, Picked
<1> QED
  BY <1>2, <1>3, <1>4

LEMMA PublishedStep ==
  ASSUME TypeOK, TypeOK', JobKnown, LockDiscipline, LockDiscipline', PublishedInv,
         OneShared, "disable" \notin HandlerOps, [Next]_vars
  PROVE  PublishedInv'
<1> SUFFICES ASSUME Settled'
             PROVE  /\ \A q \in Procs : Inside(q)' => Tracks(q)'
                    /\ (\A q \in Procs : ~Inside(q)') => Consistent'
  BY DEF PublishedInv
<1>pc. pc \in [Procs -> Labels]
  BY DEF TypeOK
<1>alone. \A p, q \in Procs : Inside(p) /\ Inside(q) => p = q
  BY OneInside
<1>1. CASE Quiet
  <2>1. On' = On
    BY <1>1 DEF Quiet, On
  <2>2. ASSUME NEW q \in Procs, Inside(q)' PROVE Tracks(q)'
    <3>1. Tracks(q) /\ pc'[q] = pc[q] /\ pass'[q] = pass[q]
      BY <1>1, <2>2 DEF Quiet, PublishedInv
    <3>2. \A g \in Games : Picked(pass[q].desired[g], g, On \ pass[q].left)'
      BY <1>1, <2>1, <3>1 DEF Quiet, Tracks, Picked, Wins
    <3>3. pc[q] = "write" =>
            \A g \in Games \ pass[q].work : Settles(pds'[g], pass[q].desired[g])
      BY <1>1, <3>1 DEF Quiet, Tracks, Settles
    <3> QED
      BY <1>1, <2>1, <3>1, <3>2, <3>3 DEF Quiet, Tracks, Settles
  <2>3. ASSUME \A q \in Procs : ~Inside(q)' PROVE Consistent'
    <3>1. Consistent
      BY <1>1, <2>3 DEF Quiet, PublishedInv
    <3>2. ASSUME NEW g \in Games PROVE Published(g)'
      <4>1. Published(g)
        BY <3>1 DEF Consistent
      <4>2. CASE pds'[g].by = Rival
        BY <4>2 DEF Published
      <4>3. CASE pds'[g].by = pds[g].by /\ pds'[g].torn = pds[g].torn
        BY <1>1, <2>1, <4>1, <4>3 DEF Quiet, Published, Wins
      <4> QED
        BY <1>1, <4>2, <4>3 DEF Quiet
    <3> QED
      BY <3>2 DEF Consistent
  <2> QED
    BY <2>2, <2>3
<1>2. ASSUME NEW p \in Procs, Lock(p) PROVE PublishedInv'
  <2>1. \A q \in Procs : ~Inside(q)
    BY <1>2, NobodyInside
  <2>2. pc'[p] = "walk" /\ \A q \in Procs : q # p => pc'[q] = pc[q]
    BY <1>2, <1>pc DEF Lock, Goto
  <2>3. UNCHANGED <<row, on, prio>>
    BY <1>2 DEF Lock, dbVars
  <2>4. pass'[p] = [NoPass EXCEPT !.rank = prio, !.left = On, !.muted = Sources \ On]
    BY <1>2 DEF Lock, TypeOK
  <2>5. /\ pass'[p].rank = prio /\ pass'[p].left = On
        /\ \A g \in Games : pass'[p].desired[g].by = None
    BY <2>4 DEF NoPass, NoRecord
  <2>6. On' = On
    BY <2>3 DEF On
  <2>7. Tracks(p)'
    BY <2>2, <2>3, <2>5, <2>6 DEF Tracks, Picked
  <2> QED
    BY <2>1, <2>2, <2>7 DEF PublishedInv, Inside
<1>3. ASSUME NEW p \in Procs, Walk(p) PROVE PublishedInv'
  <2>1. Settled /\ pc[p] = "walk" /\ UNCHANGED pc
    BY <1>3 DEF Walk, Settled, Pending
  <2>2. Tracks(p)'
    BY <1>3, <2>1, WalkTracks DEF PublishedInv, Inside
  <2> QED
    BY <2>1, <2>2, <1>alone DEF PublishedInv, Inside
<1>4. ASSUME NEW p \in Procs, ListStatuses(p) PROVE PublishedInv'
  <2>1. /\ pc[p] = "walk" /\ pc'[p] = "write" /\ UNCHANGED owed
        /\ \A q \in Procs : q # p => pc'[q] = pc[q]
    BY <1>4, <1>pc DEF ListStatuses, Goto
  <2>2. Settled
    BY <2>1 DEF Settled, Pending
  <2>3. Tracks(p)'
    BY <1>4, <2>1, <2>2, ListTracks DEF PublishedInv, Inside
  <2> QED
    BY <2>1, <2>3, <1>alone DEF PublishedInv, Inside
<1>5. ASSUME NEW p \in Procs, DeleteStatus(p) \/ PutStatus(p) PROVE PublishedInv'
  <2>1. PICK g \in pass[p].work : WriteStatus(p, g)
    BY <1>5 DEF DeleteStatus, PutStatus, Deletes
  <2>2. pc[p] = "write" /\ UNCHANGED <<pc, owed>>
    BY <1>5, <2>1 DEF DeleteStatus, PutStatus, WriteStatus
  <2>3. g \in Games
    BY <2>1, PassFields DEF TypeOK
  <2>4. Settled
    BY <2>2 DEF Settled, Pending
  <2>5. Tracks(p)'
    BY <2>1, <2>2, <2>3, <2>4, WriteTracks DEF PublishedInv, Inside
  <2> QED
    BY <2>2, <2>5, <1>alone DEF PublishedInv, Inside
<1>6. ASSUME NEW p \in Procs, Unlock(p) PROVE PublishedInv'
  <2>1. pc[p] = "write" /\ pass[p].work = {} /\ UNCHANGED <<row, on, prio, pds, owed>>
    BY <1>6 DEF Unlock, dbVars
  <2>2. pc'[p] \in {"idle", "flip"} /\ \A q \in Procs : q # p => pc'[q] = pc[q]
    BY <1>6, <1>pc DEF Unlock, Finish, Goto
  <2>3. Settled
    BY <2>1, <2>2 DEF Settled, Pending
  <2>4. Consistent
    BY <2>1, <2>3, DonePublished DEF PublishedInv, Inside
  <2>5. On' = On
    BY <2>1 DEF On
  <2>6. Consistent'
    BY <2>1, <2>4, <2>5 DEF Consistent, Published, Wins
  <2>7. \A q \in Procs : ~Inside(q)'
    BY <2>1, <2>2, <1>alone DEF Inside
  <2> QED
    BY <2>6, <2>7 DEF PublishedInv
<1> QED
  BY <1>1, <1>2, <1>3, <1>4, <1>5, <1>6, QuietSteps DEF InReconcile, PublishedInv

LEMMA AlwaysPublished ==
  ASSUME OneMutex, "disable" \notin HandlerOps
  PROVE  Spec => []PublishedInv
<1>1. Init => PublishedInv
  BY DEF Init, PublishedInv, Settled
<1>2. /\ TypeOK /\ TypeOK' /\ JobKnown /\ LockDiscipline /\ LockDiscipline' /\ OneShared
      /\ PublishedInv /\ [Next]_vars
      => PublishedInv'
  BY PublishedStep
<1> QED
  BY <1>1, <1>2, TypesAndJobs, MutexesHeld, AlwaysOneShared, PTL DEF Spec

\* When every goroutine has returned and none gave up half-way, what is published
\* is what the database says: for the callers of the shared Reconciler, and for the
\* ticks of an account that nothing else reconciles.
THEOREM PublishedAtRest ==
  ASSUME OneMutex, "disable" \notin HandlerOps
  PROVE  Spec => []AtRestPublished
<1>1. PublishedInv => AtRestPublished
  BY DEF PublishedInv, AtRestPublished, AtRest, Settled, Pending, Inside
<1> QED
  BY <1>1, AlwaysPublished, PTL
=============================================================================
