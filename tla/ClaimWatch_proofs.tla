------------------------- MODULE ClaimWatch_proofs -------------------------
(***************************************************************************)
(* Theorems about the claim watch, for every number of records, users,     *)
(* names and goroutines, and however the goroutines' roles overlap.        *)
(***************************************************************************)
EXTENDS ClaimWatch, WellFoundedInduction, TLAPS

-----------------------------------------------------------------------------
(***************************************************************************)
(* The repository: a record that is there was put there by a commit.       *)
(***************************************************************************)
\* A bounded set of numbers has a greatest element.
LEMMA Maximum ==
  ASSUME NEW n \in Nat, NEW T, T \subseteq 1..n, T # {}
  PROVE  \E i \in T : \A j \in T : j <= i
<1> DEFINE below == {m \in Nat : n - m \in T}
           less == OpToRel(<, Nat)
<1>1. \A i \in T : i \in Nat /\ n - i \in Nat /\ n - (n - i) = i
  OBVIOUS
<1>2. below \subseteq Nat /\ below # {}
  BY <1>1
<1>3. PICK x \in below : \A y \in below : ~(<<y, x>> \in less)
  <2>1. IsWellFoundedOn(less, Nat)
    BY NatLessThanWellFounded
  <2> HIDE DEF below, less
  <2> QED
    BY <1>2, <2>1, WFMin
<1>4. \A y \in below : <<y, x>> \in less <=> y < x
  <2>1. \A y \in below : <<y, x>> \in Nat \X Nat
    BY <1>2
  <2> HIDE DEF below
  <2> QED
    BY <2>1, Zenon DEF OpToRel
<1>5. n - x \in T /\ x \in Nat
  OBVIOUS
<1>6. ASSUME NEW j \in T PROVE j <= n - x
  <2>1. n - j \in below /\ n - j \in Nat /\ j \in Nat
    BY <1>1
  <2>2. ~(n - j < x)
    BY <1>3, <1>4, <2>1
  <2> QED
    BY <1>5, <2>1, <2>2
<1> QED
  BY <1>5, <1>6

Logged(k, n) == \E i \in DOMAIN log : log[i] = [k |-> k, n |-> n]

LEMMA EntriesTyped ==
  ASSUME NEW S, NEW s \in Seq(S), NEW i \in DOMAIN s
  PROVE  s[i] \in S
  OBVIOUS

LEMMA RecordLogged ==
  ASSUME TypeOK, NEW k \in Rkeys
  PROVE  Record(k) \in Contents /\ (Record(k) # Gone => Logged(k, Record(k)))
<1> DEFINE here == {i \in DOMAIN log : log[i].k = k}
           last == CHOOSE i \in here : \A j \in here : j <= i
<1>1. CASE here = {}
  BY <1>1 DEF Record, Contents
<1>2. CASE here # {}
  <2>1. Len(log) \in Nat /\ here \subseteq 1..Len(log)
    BY DEF TypeOK
  <2>2. \E i \in here : \A j \in here : j <= i
    <3> HIDE DEF here
    <3> QED
      BY <1>2, <2>1, Maximum
  <2>3. last \in here
    <3> HIDE DEF here
    <3> QED
      BY <2>2
  <2>4. Record(k) = log[last].n
    BY <1>2 DEF Record
  <2> HIDE DEF last
  <2>5. last \in DOMAIN log /\ log[last].k = k
    BY <2>3
  <2>6. \A i \in DOMAIN log : log[i] \in [k : Rkeys, n : Contents]
    BY EntriesTyped DEF TypeOK
  <2>7. log[last] \in [k : Rkeys, n : Contents]
    BY <2>5, <2>6
  <2>8. log[last] = [k |-> k, n |-> log[last].n]
    BY <2>5, <2>7
  <2> QED
    BY <2>4, <2>5, <2>7, <2>8 DEF Logged
<1> QED
  BY <1>1, <1>2

\* Commits are only added.
LEMMA LoggedStays ==
  ASSUME TypeOK, NEW k0 \in Rkeys, NEW n0 \in Contents, Commit(k0, n0), NEW k, NEW n, Logged(k, n)
  PROVE  Logged(k, n)'
<1>1. log' = Append(log, [k |-> k0, n |-> n0])
  BY DEF Commit
<1>2. \A i \in DOMAIN log : i \in DOMAIN log' /\ log'[i] = log[i]
  BY <1>1 DEF TypeOK
<1> QED
  BY <1>2 DEF Logged

-----------------------------------------------------------------------------
(***************************************************************************)
(* The inductive invariant.  What a goroutine has read may be stale; it is *)
(* never made up.                                                          *)
(***************************************************************************)
\* Whoever is in the guild under a name, or was when the cache was told, has had it.
MembersHeld ==
    \A u \in Users : /\ name[u] # None => <<u, name[u]>> \in held
                     /\ cache[u] # None => <<u, cache[u]>> \in held

\* What each goroutine works on, from the first read to the upsert.
Sourced(w) ==
    /\ pc[w] \in {"fetch", "verify", "resolve", "confirm", "upsert"} => job[w].k \in Rkeys
    /\ pc[w] \in {"verify", "resolve", "confirm", "upsert"} =>
        /\ job[w].n \in Contents
        /\ job[w].n \in Names => Logged(job[w].k, job[w].n)
    /\ pc[w] \in {"resolve", "confirm", "upsert"} => job[w].n \in Names
    /\ pc[w] = "upsert" => job[w].user \in Users /\ <<job[w].user, job[w].n>> \in held

WatchInv ==
    /\ TypeOK
    /\ MembersHeld
    /\ \A w \in Workers : Sourced(w)
    /\ Attested

-----------------------------------------------------------------------------
(***************************************************************************)
(* What a step of one goroutine leaves to the others.                      *)
(***************************************************************************)
\* The other goroutines keep their work.
OthersKeep(w) == \A x \in Workers : x # w => pc'[x] = pc[x] /\ job'[x] = job[x]

LEMMA OthersSourced ==
  ASSUME WatchInv, NEW w \in Workers, OthersKeep(w), log' = log, held' = held
  PROVE  \A x \in Workers : x # w => Sourced(x)'
  BY DEF WatchInv, Sourced, OthersKeep, Logged

LEMMA MembersStay ==
  ASSUME WatchInv, UNCHANGED <<name, cache, held>>
  PROVE  MembersHeld'
  BY DEF WatchInv, MembersHeld

LEMMA RowStays ==
  ASSUME WatchInv, UNCHANGED <<log, row, held>>
  PROVE  Attested'
  BY DEF WatchInv, Attested

LEMMA FinishKeeps ==
  ASSUME TypeOK, NEW w \in Workers, Finish(w)
  PROVE  /\ OthersKeep(w)
         /\ pc' \in [Workers -> Labels] /\ job' \in [Workers -> Jobs]
         /\ Sourced(w)'
<1>1. NoJob \in Jobs
  BY DEF NoJob, Jobs
<1>2. pc' \in [Workers -> Labels] /\ job' \in [Workers -> Jobs] /\ pc'[w] = "idle"
  BY <1>1 DEF Finish, Goto, TypeOK, Labels
<1> QED
  BY <1>2 DEF Finish, Goto, OthersKeep, Sourced, TypeOK

LEMMA GotoKeeps ==
  ASSUME TypeOK, NEW w \in Workers, NEW label \in Labels, Goto(w, label), job' = job
  PROVE  /\ OthersKeep(w)
         /\ pc' \in [Workers -> Labels] /\ job' \in [Workers -> Jobs]
         /\ pc'[w] = label /\ job'[w] = job[w]
  BY DEF Goto, OthersKeep, TypeOK

-----------------------------------------------------------------------------
(***************************************************************************)
(* The invariant, one lemma per group of actions.                          *)
(***************************************************************************)
LEMMA WatchInvWorld ==
  ASSUME WatchInv, World
  PROVE  WatchInv'
<1>1. ASSUME NEW k \in Rkeys, NEW n \in Contents, Commit(k, n) PROVE WatchInv'
  <2>1. TypeOK /\ [k |-> k, n |-> n] \in [k : Rkeys, n : Contents]
    BY DEF WatchInv
  <2>2. log' \in Seq([k : Rkeys, n : Contents])
    BY <1>1, <2>1 DEF Commit, TypeOK
  <2>3. TypeOK'
    BY <1>1, <2>1, <2>2 DEF Commit, TypeOK, netVars, guildVars, workVars
  <2>4. \A k1, n1 : Logged(k1, n1) => Logged(k1, n1)'
    BY <1>1, <2>1, LoggedStays
  <2>5. \A w \in Workers : Sourced(w)'
    BY <1>1, <2>4 DEF Commit, WatchInv, Sourced, workVars, guildVars
  <2>6. Attested'
    <3>1. row # NoClaim => Logged(row.k, row.n) /\ <<row.user, row.n>> \in held
      BY DEF WatchInv, Attested, Logged
    <3>2. UNCHANGED <<row, held>>
      BY <1>1 DEF Commit, guildVars
    <3>3. row # NoClaim => Logged(row.k, row.n)'
      BY <2>4, <3>1, <3>2 DEF Logged
    <3> QED
      BY <3>1, <3>2, <3>3 DEF Attested, Logged
  <2>7. MembersHeld'
    BY <1>1, MembersStay DEF Commit, guildVars
  <2> QED
    BY <2>3, <2>5, <2>6, <2>7 DEF WatchInv
<1>2. ASSUME NEW u \in Users, NEW n \in Names \cup {None}, Move(u, n) PROVE WatchInv'
  <2>1. TypeOK' /\ held \subseteq held'
    BY <1>2 DEF Move, WatchInv, TypeOK, netVars, workVars
  <2>2. MembersHeld'
    BY <1>2, <2>1 DEF Move, WatchInv, TypeOK, MembersHeld
  <2>3. \A w \in Workers : Sourced(w)'
    BY <1>2, <2>1 DEF Move, WatchInv, Sourced, Logged, workVars
  <2>4. Attested'
    BY <1>2, <2>1 DEF Move, WatchInv, Attested
  <2> QED
    BY <2>1, <2>2, <2>3, <2>4 DEF WatchInv
<1>3. ASSUME NEW u \in Users, SetMember(u) PROVE WatchInv'
  <2>1. TypeOK'
    BY <1>3 DEF SetMember, WatchInv, TypeOK, netVars, workVars
  <2>2. MembersHeld'
    BY <1>3 DEF SetMember, WatchInv, TypeOK, MembersHeld
  <2>3. \A w \in Workers : Sourced(w)'
    BY <1>3 DEF SetMember, WatchInv, Sourced, Logged, workVars
  <2>4. Attested'
    BY <1>3, RowStays DEF SetMember
  <2> QED
    BY <2>1, <2>2, <2>3, <2>4 DEF WatchInv
<1>4. ASSUME NEW w \in Leavers, NEW u \in Users, RemoveMember(w, u) PROVE WatchInv'
  <2>1. w \in Workers
    BY DEF Workers
  <2>2. /\ pc' \in [Workers -> Labels] /\ job' \in [Workers -> Jobs]
        /\ pc'[w] = "match" /\ OthersKeep(w)
    <3>1. pc' = [pc EXCEPT ![w] = "match"] /\ job' = [job EXCEPT ![w] = [job[w] EXCEPT !.user = u]]
      BY <1>4 DEF RemoveMember
    <3>2. [job[w] EXCEPT !.user = u] \in Jobs
      BY <2>1 DEF WatchInv, TypeOK, Jobs
    <3> QED
      BY <2>1, <3>1, <3>2 DEF WatchInv, TypeOK, OthersKeep, Labels
  <2>3. TypeOK'
    BY <1>4, <2>2 DEF RemoveMember, WatchInv, TypeOK, netVars
  <2>4. MembersHeld'
    BY <1>4 DEF RemoveMember, WatchInv, TypeOK, MembersHeld
  <2>5. Sourced(w)'
    BY <2>2 DEF Sourced
  <2>6. Attested' /\ \A x \in Workers : x # w => Sourced(x)'
    BY <1>4, <2>1, <2>2, OthersSourced, RowStays DEF RemoveMember
  <2> QED
    BY <2>3, <2>4, <2>5, <2>6 DEF WatchInv
<1>5. ASSUME DisableRequest PROVE WatchInv'
  <2>1. TypeOK'
    BY <1>5 DEF DisableRequest, WatchInv, TypeOK, netVars, workVars, guildVars
  <2>2. \A w \in Workers : Sourced(w)'
    BY <1>5 DEF DisableRequest, WatchInv, Sourced, Logged, workVars, guildVars
  <2> QED
    BY <1>5, <2>1, <2>2, RowStays, MembersStay DEF DisableRequest, WatchInv, guildVars
<1> QED
  BY <1>1, <1>2, <1>3, <1>4, <1>5 DEF World

LEMMA WatchInvListening ==
  ASSUME WatchInv, Listening
  PROVE  WatchInv'
<1>1. ASSUME NEW l \in Listeners, ReadEvent(l) PROVE WatchInv'
  <2> DEFINE ev == log[at[l]]
             label == IF ev.n = Gone THEN "match" ELSE "verify"
             work == [k |-> ev.k, n |-> ev.n, user |-> None]
  <2>1. l \in Workers /\ at[l] \in DOMAIN log
    BY <1>1 DEF WatchInv, TypeOK, ReadEvent, Workers
  <2>2. ev \in [k : Rkeys, n : Contents]
    BY <2>1, EntriesTyped DEF WatchInv, TypeOK
  <2>3. ev = [k |-> ev.k, n |-> ev.n] /\ Logged(ev.k, ev.n)
    BY <2>1, <2>2 DEF Logged
  <2>4. pc' = [pc EXCEPT ![l] = label] /\ job' = [job EXCEPT ![l] = work]
    BY <1>1 DEF ReadEvent, Goto
  <2>5. work \in Jobs /\ label \in Labels
    BY <2>2 DEF Jobs, Labels
  <2> HIDE DEF ev
  <2>6. /\ pc' \in [Workers -> Labels] /\ job' \in [Workers -> Jobs] /\ OthersKeep(l)
        /\ pc'[l] = label /\ job'[l] = work
    BY <2>1, <2>4, <2>5 DEF WatchInv, TypeOK, OthersKeep
  <2>7. TypeOK'
    BY <1>1, <2>6 DEF ReadEvent, WatchInv, TypeOK, guildVars
  <2>8. UNCHANGED <<log, row, name, cache, held>>
    BY <1>1 DEF ReadEvent, guildVars
  <2>9. Sourced(l)'
    BY <2>2, <2>3, <2>6, <2>8 DEF Sourced, Logged
  <2> QED
    BY <2>1, <2>6, <2>7, <2>8, <2>9, OthersSourced, RowStays, MembersStay DEF WatchInv
<1>2. ASSUME NEW l \in Listeners, Lose(l) \/ Redial(l) \/ Restart(l) \/ Exit(l)
      PROVE  WatchInv'
  <2>1. Len(log) \in Nat
    BY DEF WatchInv, TypeOK
  <2>2. /\ conn' \in [Listeners -> {"off", "up", "down"}]
        /\ at' \in [Listeners -> Nat \ {0}]
        /\ cursor' \in [Listeners -> Nat]
        /\ seen' \in [Listeners -> SUBSET Nat]
        /\ current' \in Listeners /\ closing' \in Listeners \cup {None}
        /\ asked' \in Nat /\ faults' \in Nat
    <3>1. Len(log) + 1 \in Nat \ {0} /\ asked + 1 \in Nat /\ faults + 1 \in Nat /\ TypeOK
      BY <2>1 DEF WatchInv, TypeOK
    <3>2. CASE Lose(l)
      BY <3>1, <3>2 DEF Lose, TypeOK
    <3>3. CASE Redial(l)
      BY <3>1, <3>3 DEF Redial, TypeOK
    <3>4. CASE Restart(l)
      BY <3>1, <3>4 DEF Restart, Connect, TypeOK
    <3>5. CASE Exit(l)
      BY <3>1, <3>5 DEF Exit, TypeOK
    <3> QED
      BY <1>2, <3>2, <3>3, <3>4, <3>5
  <2>3. UNCHANGED <<log, row, on, guildVars, workVars>>
    BY <1>2 DEF Lose, Redial, Restart, Exit
  <2>4. TypeOK'
    BY <2>2, <2>3 DEF WatchInv, TypeOK, guildVars, workVars
  <2>5. \A w \in Workers : Sourced(w)'
    BY <2>3 DEF WatchInv, Sourced, Logged, workVars, guildVars
  <2> QED
    BY <2>3, <2>4, <2>5, RowStays, MembersStay DEF WatchInv, guildVars
<1>3. ASSUME RestartFails PROVE WatchInv'
  <2>1. asked' \in Nat /\ UNCHANGED <<log, netVars, row, on, guildVars, workVars, faults>>
    BY <1>3 DEF RestartFails, WatchInv, TypeOK
  <2>2. TypeOK'
    BY <2>1 DEF WatchInv, TypeOK, netVars, guildVars, workVars
  <2>3. \A w \in Workers : Sourced(w)'
    BY <2>1 DEF WatchInv, Sourced, Logged, workVars, guildVars
  <2> QED
    BY <2>1, <2>2, <2>3, RowStays, MembersStay DEF WatchInv, guildVars
<1> QED
  BY <1>1, <1>2, <1>3 DEF Listening

\* A step of one goroutine keeps the invariant if what it does to the row does.
LEMMA WorkStep ==
  ASSUME WatchInv, NEW w \in Workers, OthersKeep(w), Sourced(w)',
         pc' \in [Workers -> Labels], job' \in [Workers -> Jobs],
         UNCHANGED <<log, netVars, guildVars>>,
         on' \in BOOLEAN, asked' \in Nat, faults' \in Nat,
         \/ row' = row
         \/ row' = NoClaim
         \/ /\ row' \in [k : Rkeys, user : Users, n : Names]
            /\ Logged(row'.k, row'.n)
            /\ <<row'.user, row'.n>> \in held
  PROVE  WatchInv'
<1>1. UNCHANGED <<log, conn, at, cursor, seen, current, closing, name, cache, held, moves>>
  BY DEF netVars, guildVars
<1>2. TypeOK'
  BY <1>1 DEF WatchInv, TypeOK
<1>3. Attested'
  BY <1>1 DEF WatchInv, Attested, Logged
<1> QED
  BY <1>1, <1>2, <1>3, OthersSourced, MembersStay DEF WatchInv

LEMMA WatchInvBegins ==
  ASSUME WatchInv, Begins
  PROVE  WatchInv'
<1>1. ASSUME NEW w \in Rechecks, Discover(w) PROVE WatchInv'
  <2>1. w \in Workers /\ TypeOK
    BY DEF Workers, WatchInv
  <2>2. CASE Goto(w, "drop") /\ UNCHANGED job
    BY <1>1, <2>1, <2>2, GotoKeeps, WorkStep DEF Discover, Labels, Sourced, TypeOK
  <2>3. ASSUME NEW k \in Rkeys, Record(k) \in Names, Goto(w, "resolve"),
               job' = [job EXCEPT ![w] = [k |-> k, n |-> Record(k), user |-> None]]
        PROVE  WatchInv'
    <3>1. Logged(k, Record(k)) /\ Record(k) \in Contents
      BY <2>1, <2>3, RecordLogged, NamesAssumption
    <3> DEFINE work == [k |-> k, n |-> Record(k), user |-> None]
    <3>2. job' = [job EXCEPT ![w] = work] /\ work \in Jobs
      BY <2>3, <3>1 DEF Jobs
    <3>3. /\ pc' \in [Workers -> Labels] /\ job' \in [Workers -> Jobs] /\ OthersKeep(w)
          /\ pc'[w] = "resolve" /\ job'[w] = work
      BY <2>1, <2>3, <3>2 DEF Goto, TypeOK, OthersKeep, Labels
    <3>4. log' = log
      BY <1>1 DEF Discover
    <3>5. Sourced(w)'
      BY <2>3, <3>1, <3>3, <3>4 DEF Sourced, Logged
    <3> QED
      BY <1>1, <2>1, <3>3, <3>5, WorkStep DEF Discover, TypeOK
  <2> QED
    BY <1>1, <2>2, <2>3 DEF Discover
<1>2. ASSUME NEW w \in Sweepers, SweepClaim(w) PROVE WatchInv'
  <2>1. w \in Workers /\ TypeOK
    BY DEF Workers, WatchInv
  <2>2. row \in [k : Rkeys, user : Users, n : Names]
    BY <1>2, <2>1 DEF SweepClaim, TypeOK
  <2> DEFINE work == [k |-> row.k, n |-> None, user |-> row.user]
  <2>3. job' = [job EXCEPT ![w] = work] /\ work \in Jobs
    BY <1>2, <2>2 DEF SweepClaim, Jobs
  <2>4. /\ pc' \in [Workers -> Labels] /\ job' \in [Workers -> Jobs] /\ OthersKeep(w)
        /\ pc'[w] = "fetch" /\ job'[w] = work
    BY <1>2, <2>1, <2>3 DEF SweepClaim, Goto, TypeOK, OthersKeep, Labels
  <2>5. Sourced(w)'
    BY <2>2, <2>4 DEF Sourced
  <2> QED
    BY <1>2, <2>1, <2>4, <2>5, WorkStep DEF SweepClaim, TypeOK
<1>3. ASSUME NEW w \in Enables, EnableRequest(w) PROVE WatchInv'
  <2>1. w \in Workers /\ TypeOK
    BY DEF Workers, WatchInv
  <2>2. /\ pc' \in [Workers -> Labels] /\ job' \in [Workers -> Jobs] /\ OthersKeep(w)
        /\ pc'[w] = "enable"
    BY <1>3, <2>1, GotoKeeps DEF EnableRequest, Labels
  <2>3. asked' \in Nat
    BY <1>3, <2>1 DEF EnableRequest, TypeOK
  <2>4. Sourced(w)'
    BY <2>2 DEF Sourced
  <2> QED
    BY <1>3, <2>1, <2>2, <2>3, <2>4, WorkStep DEF EnableRequest, TypeOK
<1> QED
  BY <1>1, <1>2, <1>3 DEF Begins

LEMMA WatchInvStep ==
  ASSUME WatchInv, NEW w \in Workers, Step(w) \/ Fail(w)
  PROVE  WatchInv'
<1> USE DEF Labels
<1>1. TypeOK /\ Sourced(w) /\ job[w] \in Jobs
  BY DEF WatchInv, TypeOK
<1>2. CASE Fetch(w)
  <2> DEFINE n == Record(job[w].k)
             label == IF n = Gone THEN "drop" ELSE "verify"
             work == [job[w] EXCEPT !.n = n]
  <2>1. job[w].k \in Rkeys
    BY <1>1, <1>2 DEF Fetch, Sourced
  <2>2. n \in Contents /\ (n # Gone => Logged(job[w].k, n))
    BY <1>1, <2>1, RecordLogged
  <2>3. job' = [job EXCEPT ![w] = work] /\ pc' = [pc EXCEPT ![w] = label] /\ log' = log
    BY <1>2 DEF Fetch, Goto
  <2> HIDE DEF n
  <2>4. work \in Jobs /\ work.k = job[w].k /\ work.n = n
    BY <1>1, <2>2 DEF Jobs
  <2> HIDE DEF work
  <2>5. /\ pc' \in [Workers -> Labels] /\ job' \in [Workers -> Jobs] /\ OthersKeep(w)
        /\ pc'[w] = label /\ job'[w] = work
    BY <1>1, <2>3, <2>4 DEF TypeOK, OthersKeep
  <2>6. Sourced(w)'
    BY <2>1, <2>2, <2>3, <2>4, <2>5 DEF Sourced, Logged
  <2> QED
    BY <1>1, <1>2, <2>5, <2>6, WorkStep DEF Fetch, TypeOK
<1>3. CASE SetOn(w)
  BY <1>1, <1>3, FinishKeeps, WorkStep DEF SetOn, TypeOK
<1>4. CASE Verify(w)
  <2>1. CASE Finish(w)
    BY <1>1, <1>4, <2>1, FinishKeeps, WorkStep DEF Verify, TypeOK
  <2>2. CASE Goto(w, "drop") /\ UNCHANGED job
    BY <1>1, <1>4, <2>2, GotoKeeps, WorkStep DEF Verify, TypeOK, Sourced
  <2>3. CASE job[w].n \in Names /\ Goto(w, Verified(w)) /\ UNCHANGED job
    <3>1. /\ pc' \in [Workers -> Labels] /\ job' \in [Workers -> Jobs] /\ OthersKeep(w)
          /\ pc'[w] \in {"resolve", "confirm"} /\ job'[w] = job[w] /\ log' = log
      BY <1>1, <1>4, <2>3, GotoKeeps DEF Verify, Verified
    <3>2. Sourced(w)'
      BY <1>1, <1>4, <2>3, <3>1 DEF Verify, Sourced, Logged
    <3> QED
      BY <1>1, <1>4, <3>1, <3>2, WorkStep DEF Verify, TypeOK
  <2> QED
    BY <1>4, <2>1, <2>2, <2>3 DEF Verify
<1>11. CASE LookUp(w)
  <2> DEFINE work == [job[w] EXCEPT !.user = row.user]
  <2>1. job' = [job EXCEPT ![w] = work] /\ pc' = [pc EXCEPT ![w] = "confirm"] /\ log' = log
    BY <1>11 DEF LookUp, Goto
  <2>2. row.user \in Users \cup {None}
    BY <1>1 DEF TypeOK, NoClaim
  <2>3. work \in Jobs /\ work.k = job[w].k /\ work.n = job[w].n
    BY <1>1, <2>2 DEF Jobs
  <2> HIDE DEF work
  <2>4. /\ pc' \in [Workers -> Labels] /\ job' \in [Workers -> Jobs] /\ OthersKeep(w)
        /\ pc'[w] = "confirm" /\ job'[w] = work
    BY <1>1, <2>1, <2>3 DEF TypeOK, OthersKeep
  <2>5. Sourced(w)'
    BY <1>1, <1>11, <2>1, <2>3, <2>4 DEF LookUp, Sourced, Logged
  <2> QED
    BY <1>1, <1>11, <2>4, <2>5, WorkStep DEF LookUp, TypeOK
<1>5. CASE Resolve(w)
  <2>1. /\ job[w].k \in Rkeys /\ job[w].n \in Contents /\ job[w].n \in Names
        /\ Logged(job[w].k, job[w].n) /\ job[w].n # None
    BY <1>1, <1>5, NamesAssumption DEF Resolve, Sourced, Contents
  <2>2. UNCHANGED <<log, netVars, row, on, guildVars, asked, faults>>
    BY <1>5 DEF Resolve
  <2>3. CASE Finish(w)
    BY <1>1, <2>2, <2>3, FinishKeeps, WorkStep DEF TypeOK
  <2>4. ASSUME NEW label \in {"match", "drop"}, Goto(w, label), UNCHANGED job PROVE WatchInv'
    BY <1>1, <2>2, <2>4, GotoKeeps, WorkStep DEF TypeOK, Sourced
  <2>5. ASSUME NEW u \in Users, cache[u] = job[w].n, Goto(w, "upsert"),
               NEW work \in Jobs, job' = [job EXCEPT ![w] = work],
               work.k = job[w].k, work.n = job[w].n, work.user = u
        PROVE  WatchInv'
    <3>1. pc' = [pc EXCEPT ![w] = "upsert"]
      BY <2>5 DEF Goto
    <3>3. <<u, job[w].n>> \in held
      BY <2>1, <2>5 DEF WatchInv, MembersHeld
    <3>4. log' = log /\ held' = held
      BY <2>2 DEF guildVars
    <3>5. /\ pc' \in [Workers -> Labels] /\ job' \in [Workers -> Jobs] /\ OthersKeep(w)
          /\ pc'[w] = "upsert" /\ job'[w] = work
      BY <1>1, <2>5, <3>1 DEF TypeOK, OthersKeep
    <3>6. Sourced(w)'
      BY <2>1, <2>5, <3>3, <3>4, <3>5 DEF Sourced, Logged
    <3> QED
      BY <1>1, <2>2, <3>5, <3>6, WorkStep DEF TypeOK
  <2>6. job[w].user \in Users \cup {None}
    BY <1>1 DEF Jobs
  <2>7. CASE job[w].user # None /\ Confirmed(job[w].user, job[w].n) /\ Goto(w, "upsert")
             /\ UNCHANGED job
    <3>1. job' = [job EXCEPT ![w] = job[w]]
      BY <1>1, <2>7 DEF TypeOK
    <3> QED
      BY <1>1, <2>5, <2>6, <2>7, <3>1 DEF Confirmed
  <2>8. ASSUME NEW u \in Users, cache[u] = job[w].n, Goto(w, "upsert"),
               job' = [job EXCEPT ![w].user = u]
        PROVE  WatchInv'
    <3> DEFINE work == [job[w] EXCEPT !.user = u]
    <3>1. work \in Jobs /\ work.k = job[w].k /\ work.n = job[w].n /\ work.user = u
      BY <1>1 DEF Jobs
    <3>2. job' = [job EXCEPT ![w] = work]
      BY <2>8
    <3> HIDE DEF work
    <3> QED
      BY <2>5, <2>8, <3>1, <3>2
  <2> QED
    BY <1>5, <2>3, <2>4, <2>7, <2>8 DEF Resolve, Resolvable
<1>6. CASE UpsertClaim(w)
  <2>1. /\ row' \in [k : Rkeys, user : Users, n : Names]
        /\ Logged(row'.k, row'.n)
        /\ <<row'.user, row'.n>> \in held
    BY <1>1, <1>6 DEF UpsertClaim, Sourced
  <2> QED
    BY <1>1, <1>6, <2>1, FinishKeeps, WorkStep DEF UpsertClaim, TypeOK
<1>7. CASE Match(w)
  <2>1. CASE Finish(w)
    BY <1>1, <1>7, <2>1, FinishKeeps, WorkStep DEF Match, TypeOK
  <2>2. CASE Goto(w, "drop") /\ UNCHANGED job
    BY <1>1, <1>7, <2>2, GotoKeeps, WorkStep DEF Match, TypeOK, Sourced
  <2> QED
    BY <1>7, <2>1, <2>2 DEF Match
<1>8. CASE DeleteClaim(w)
  BY <1>1, <1>8, GotoKeeps, WorkStep DEF DeleteClaim, TypeOK, Sourced
<1>9. CASE UnsetEnabled(w)
  BY <1>1, <1>9, FinishKeeps, WorkStep DEF UnsetEnabled, TypeOK
<1>10. CASE Fail(w)
  <2>1. faults' \in Nat /\ Finish(w) /\ UNCHANGED <<log, netVars, row, on, guildVars, asked>>
    BY <1>1, <1>10 DEF Fail, TypeOK
  <2> QED
    BY <1>1, <2>1, FinishKeeps, WorkStep DEF TypeOK
<1> QED
  BY <1>2, <1>3, <1>4, <1>5, <1>6, <1>7, <1>8, <1>9, <1>10, <1>11 DEF Step

LEMMA WatchInvCrash ==
  ASSUME WatchInv, Crash
  PROVE  WatchInv'
<1>1. UNCHANGED <<log, row, on, name, held, moves, asked>>
  BY DEF Crash
<1>2. Len(log) + 1 \in Nat \ {0} /\ faults + 1 \in Nat
  BY DEF WatchInv, TypeOK
<1>3. NoJob \in Jobs
  BY DEF NoJob, Jobs
<1>4. /\ conn' \in [Listeners -> {"off", "up", "down"}]
      /\ at' \in [Listeners -> Nat \ {0}]
      /\ cursor' \in [Listeners -> Nat]
      /\ seen' \in [Listeners -> SUBSET Nat]
      /\ current' \in Listeners /\ closing' = None
      /\ cache' \in [Users -> Names \cup {None}]
      /\ pc' \in [Workers -> Labels] /\ job' \in [Workers -> Jobs]
      /\ faults' \in Nat
  BY <1>2, <1>3, NamesAssumption DEF Crash, Labels
<1>5. TypeOK'
  BY <1>1, <1>4 DEF WatchInv, TypeOK
<1>6. MembersHeld'
  BY <1>1 DEF Crash, WatchInv, MembersHeld
<1>7. \A w \in Workers : Sourced(w)'
  BY DEF Crash, Sourced
<1> QED
  BY <1>1, <1>5, <1>6, <1>7, RowStays DEF WatchInv

LEMMA WatchInvInit ==
  ASSUME Init
  PROVE  WatchInv
<1>1. NoJob \in Jobs
  BY DEF NoJob, Jobs
<1>2. log \in Seq([k : Rkeys, n : Contents]) /\ row = NoClaim
  BY DEF Init
<1>3. held \in SUBSET (Users \X Names)
  BY DEF Init
<1>4. pc \in [Workers -> Labels] /\ job \in [Workers -> Jobs]
  BY <1>1 DEF Init, Labels
<1>5. /\ conn \in [Listeners -> {"off", "up", "down"}]
      /\ at \in [Listeners -> Nat \ {0}]
      /\ cursor \in [Listeners -> Nat]
      /\ seen \in [Listeners -> SUBSET Nat]
      /\ current \in Listeners
  BY NamesAssumption DEF Init
<1>6. /\ closing = None /\ on \in BOOLEAN
      /\ name \in [Users -> Names \cup {None}]
      /\ cache \in [Users -> Names \cup {None}]
      /\ asked \in Nat /\ moves \in Nat /\ faults \in Nat
  BY NamesAssumption DEF Init
<1>7. TypeOK
  BY <1>2, <1>3, <1>4, <1>5, <1>6 DEF TypeOK
<1>8. MembersHeld
  BY <1>6, NamesAssumption DEF Init, MembersHeld
<1> QED
  BY <1>7, <1>8 DEF Init, WatchInv, Sourced, Attested

LEMMA WatchInvNext ==
  ASSUME WatchInv, [Next]_vars
  PROVE  WatchInv'
<1>1. CASE UNCHANGED vars
  BY <1>1 DEF vars, netVars, guildVars, workVars, WatchInv, TypeOK, MembersHeld, Sourced, Attested,
              Logged
<1> QED
  BY <1>1, WatchInvWorld, WatchInvListening, WatchInvBegins, WatchInvStep, WatchInvCrash DEF Next

LEMMA WatchInvAlways == Spec => []WatchInv
<1>1. WatchInv /\ [Next]_vars => WatchInv'
  BY WatchInvNext
<1> QED
  BY <1>1, WatchInvInit, PTL DEF Spec

\* Every variable keeps its shape; above all a claim's row always names a record
\* and a snowflake, never half of either.
THEOREM TypeCorrect == Spec => []TypeOK
<1>1. WatchInv => TypeOK
  BY DEF WatchInv
<1> QED
  BY <1>1, WatchInvAlways, PTL

\* The claims row was last verified for a name that its record attested and that
\* its snowflake had, in whatever order listeners, rechecks and sweeps, none of
\* which reads and writes in one step, come to write it.
THEOREM LinksAttested == Spec => []Attested
<1>1. WatchInv => Attested
  BY DEF WatchInv
<1> QED
  BY <1>1, WatchInvAlways, PTL

-----------------------------------------------------------------------------
(***************************************************************************)
(* The manager and the cursors.                                            *)
(***************************************************************************)
\* Only what happens to connections is seen here.
LEMMA NetSteps ==
  ASSUME Next
  PROVE  \/ \E l \in Listeners : ReadEvent(l) \/ Lose(l) \/ Redial(l) \/ Restart(l) \/ Exit(l)
         \/ Crash
         \/ UNCHANGED netVars
BY DEF Next, World, Listening, Begins, Step, Commit, Move, SetMember, RemoveMember, DisableRequest,
       RestartFails, Discover, SweepClaim, EnableRequest, Fetch, SetOn, Verify, LookUp, Resolve,
       UpsertClaim, Match, DeleteClaim, UnsetEnabled, Fail

LEMMA AlwaysWatchedStep ==
  ASSUME TypeOK, AlwaysWatched, [Next]_vars
  PROVE  AlwaysWatched'
<1>1. ASSUME NEW l \in Listeners, ReadEvent(l) \/ Lose(l) \/ Redial(l) PROVE AlwaysWatched'
  BY <1>1 DEF ReadEvent, Lose, Redial, TypeOK, AlwaysWatched
<1>2. ASSUME NEW l \in Listeners, Restart(l) PROVE AlwaysWatched'
  BY <1>2 DEF Restart, Connect, TypeOK, AlwaysWatched
<1>3. ASSUME NEW l \in Listeners, Exit(l) PROVE AlwaysWatched'
  BY <1>3, NamesAssumption DEF Exit, TypeOK, AlwaysWatched, Workers
<1>4. CASE Crash
  BY <1>4, NamesAssumption DEF Crash, AlwaysWatched, Workers
<1>5. CASE UNCHANGED netVars
  BY <1>5 DEF netVars, AlwaysWatched
<1> QED
  BY <1>1, <1>2, <1>3, <1>4, <1>5, NetSteps DEF vars

\* Once started, the watch never ceases: Restart connects the new listener before
\* it closes the old one, and closes no other.
THEOREM WatchNeverCeases == Spec => []AlwaysWatched
<1>1. Init => AlwaysWatched
  BY NamesAssumption DEF Init, AlwaysWatched, Workers
<1>2. TypeOK /\ AlwaysWatched /\ [Next]_vars => AlwaysWatched'
  BY AlwaysWatchedStep
<1> QED
  BY <1>1, <1>2, TypeCorrect, PTL DEF Spec

LEMMA NoneLeftBehindStep ==
  ASSUME TypeOK, NoneLeftBehind, [Next]_vars
  PROVE  NoneLeftBehind'
<1>1. ASSUME NEW l \in Listeners, ReadEvent(l) \/ Lose(l) \/ Redial(l) PROVE NoneLeftBehind'
  <2>1. /\ conn[l] # "off" /\ current' = current /\ closing' = closing
        /\ \A m \in Listeners : m # l => conn'[m] = conn[m]
    BY <1>1 DEF ReadEvent, Lose, Redial, TypeOK
  <2> QED
    BY <2>1 DEF NoneLeftBehind
<1>2. ASSUME NEW l \in Listeners, Restart(l) PROVE NoneLeftBehind'
  <2>1. /\ current' = l /\ closing' = current /\ closing = None
        /\ \A m \in Listeners : m # l => conn'[m] = conn[m]
    BY <1>2 DEF Restart, Connect, TypeOK
  <2>2. \A m \in Listeners : m # None
    BY NamesAssumption DEF Workers
  <2> QED
    BY <2>1, <2>2 DEF NoneLeftBehind
<1>3. ASSUME NEW l \in Listeners, Exit(l) PROVE NoneLeftBehind'
  <2>1. /\ closing = l /\ current' = current /\ conn'[l] = "off"
        /\ \A m \in Listeners : m # l => conn'[m] = conn[m]
    BY <1>3 DEF Exit, TypeOK
  <2> QED
    BY <2>1 DEF NoneLeftBehind
<1>4. CASE Crash
  BY <1>4, NamesAssumption DEF Crash, NoneLeftBehind
<1>5. CASE UNCHANGED netVars
  BY <1>5 DEF netVars, NoneLeftBehind
<1> QED
  BY <1>1, <1>2, <1>3, <1>4, <1>5, NetSteps DEF vars

\* However often the watch is restarted, and whatever the cancelled listener has
\* in its handler, no listener but the manager's and the one it waits for has a
\* connection or dials one.
THEOREM NoListenerLeaks == Spec => []NoneLeftBehind
<1>1. Init => NoneLeftBehind
  BY NamesAssumption DEF Init, NoneLeftBehind
<1>2. TypeOK /\ NoneLeftBehind /\ [Next]_vars => NoneLeftBehind'
  BY NoneLeftBehindStep
<1> QED
  BY <1>1, <1>2, TypeCorrect, PTL DEF Spec

\* What a listener would replay from is behind what it was sent, and it has been
\* given nothing without keeping where.
CursorInv ==
    \A l \in Listeners :
        /\ cursor[l] <= at[l]
        /\ cursor[l] = 0 => seen[l] = {}
        /\ conn[l] = "off" => cursor[l] = 0

\* Nothing between a commit the handler was given and the next it will be sent.
SeenFrom(l) == \A i \in seen[l] : i..(at[l] - 1) \subseteq seen[l]

LEMMA RangeSplit ==
  ASSUME NEW i \in Nat, NEW a \in Nat, NEW j \in i..(a + 1 - 1)
  PROVE  j = a \/ j \in i..(a - 1)
  OBVIOUS

LEMMA CursorStep ==
  ASSUME TypeOK, CursorInv, RedialLosesNothing, [Next]_vars
  PROVE  CursorInv' /\ RedialLosesNothing'
<1>1. ASSUME NEW l \in Listeners,
             \A m \in Listeners : m # l => /\ cursor'[m] = cursor[m] /\ at'[m] = at[m]
                                           /\ seen'[m] = seen[m] /\ conn'[m] = conn[m],
             cursor'[l] <= at'[l],
             cursor'[l] = 0 => seen'[l] = {},
             conn'[l] = "off" => cursor'[l] = 0,
             SeenFrom(l)'
      PROVE  CursorInv' /\ RedialLosesNothing'
  BY <1>1 DEF CursorInv, RedialLosesNothing, SeenFrom
<1>2. ASSUME NEW l \in Listeners, ReadEvent(l) PROVE CursorInv' /\ RedialLosesNothing'
  <2>1. /\ cursor'[l] = at[l] /\ at'[l] = at[l] + 1 /\ seen'[l] = seen[l] \cup {at[l]}
        /\ conn' = conn /\ at[l] \in Nat \ {0} /\ conn[l] = "up" /\ seen[l] \subseteq Nat
    BY <1>2 DEF ReadEvent, TypeOK
  <2>2. \A m \in Listeners : m # l => /\ cursor'[m] = cursor[m] /\ at'[m] = at[m]
                                      /\ seen'[m] = seen[m] /\ conn'[m] = conn[m]
    BY <1>2 DEF ReadEvent, TypeOK
  <2>3. ASSUME NEW i \in seen'[l], NEW j \in i..(at'[l] - 1) PROVE j \in seen'[l]
    <3>1. i \in Nat /\ (j = at[l] \/ j \in i..(at[l] - 1))
      BY <2>1, <2>3, RangeSplit
    <3>2. CASE i \in seen[l]
      BY <2>1, <3>1, <3>2 DEF RedialLosesNothing
    <3>3. CASE i = at[l]
      BY <2>1, <3>1, <3>3
    <3> QED
      BY <2>1, <3>2, <3>3
  <2>4. SeenFrom(l)'
    BY <2>3 DEF SeenFrom
  <2>5. cursor'[l] <= at'[l] /\ cursor'[l] # 0
    BY <2>1
  <2> QED
    BY <1>1, <2>1, <2>2, <2>4, <2>5
<1>3. ASSUME NEW l \in Listeners, Redial(l) PROVE CursorInv' /\ RedialLosesNothing'
  <2>1. /\ cursor' = cursor /\ seen' = seen /\ conn'[l] = "up"
        /\ cursor[l] > 0 => at'[l] = cursor[l]
        /\ \A m \in Listeners : m # l => at'[m] = at[m] /\ conn'[m] = conn[m]
    BY <1>3 DEF Redial, TypeOK
  <2>2. cursor[l] \in Nat /\ at[l] \in Nat /\ at'[l] \in Nat /\ seen[l] \subseteq Nat
    BY <1>3 DEF Redial, TypeOK
  <2>3. CASE cursor[l] = 0
    <3>1. seen'[l] = {} /\ cursor'[l] <= at'[l]
      BY <2>1, <2>2, <2>3 DEF CursorInv
    <3>2. SeenFrom(l)'
      BY <3>1 DEF SeenFrom
    <3> QED
      BY <1>1, <2>1, <3>1, <3>2
  <2>4. CASE cursor[l] > 0
    <3>1. at'[l] = cursor[l] /\ cursor[l] <= at[l] /\ cursor'[l] # 0
      BY <2>1, <2>2, <2>4 DEF CursorInv
    <3>2. ASSUME NEW i \in seen[l] PROVE i..(at'[l] - 1) \subseteq i..(at[l] - 1)
      BY <2>2, <3>1
    <3>3. SeenFrom(l)'
      BY <2>1, <3>2 DEF SeenFrom, RedialLosesNothing
    <3> QED
      BY <1>1, <2>1, <2>2, <3>1, <3>3
  <2> QED
    BY <2>2, <2>3, <2>4
<1>4. ASSUME NEW l \in Listeners, Restart(l) PROVE CursorInv' /\ RedialLosesNothing'
  <2>1. /\ cursor' = cursor /\ seen' = seen /\ conn[l] = "off" /\ at'[l] \in Nat
        /\ \A m \in Listeners : m # l => at'[m] = at[m] /\ conn'[m] = conn[m]
    BY <1>4 DEF Restart, Connect, TypeOK
  <2>2. cursor'[l] = 0 /\ seen'[l] = {}
    BY <2>1 DEF CursorInv
  <2>3. cursor'[l] <= at'[l] /\ SeenFrom(l)'
    BY <2>1, <2>2 DEF SeenFrom
  <2> QED
    BY <1>1, <2>1, <2>2, <2>3
<1>5. ASSUME NEW l \in Listeners, Exit(l) PROVE CursorInv' /\ RedialLosesNothing'
  <2>1. /\ cursor'[l] = 0 /\ seen'[l] = {} /\ at'[l] = 1
        /\ \A m \in Listeners : m # l => /\ cursor'[m] = cursor[m] /\ at'[m] = at[m]
                                         /\ seen'[m] = seen[m] /\ conn'[m] = conn[m]
    BY <1>5 DEF Exit, TypeOK
  <2>2. SeenFrom(l)'
    BY <2>1 DEF SeenFrom
  <2> QED
    BY <1>1, <2>1, <2>2
<1>6. ASSUME NEW l \in Listeners, Lose(l) PROVE CursorInv' /\ RedialLosesNothing'
  BY <1>6 DEF Lose, TypeOK, CursorInv, RedialLosesNothing
<1>7. CASE Crash
  <2>1. Len(log) + 1 \in Nat
    BY DEF TypeOK
  <2>2. \A l \in Listeners : cursor'[l] = 0 /\ seen'[l] = {} /\ at'[l] \in Nat
    BY <1>7, <2>1 DEF Crash
  <2> QED
    BY <2>2 DEF CursorInv, RedialLosesNothing
<1>8. CASE UNCHANGED netVars
  BY <1>8 DEF netVars, CursorInv, RedialLosesNothing
<1> QED
  BY <1>2, <1>3, <1>4, <1>5, <1>6, <1>7, <1>8, NetSteps DEF vars

\* From the first commit its handler was given, a listener misses none, however
\* often its connection dies: it redials with the cursor of the last it finished.
THEOREM ReplayIsComplete == Spec => []RedialLosesNothing
<1>1. Init => CursorInv /\ RedialLosesNothing
  BY DEF Init, CursorInv, RedialLosesNothing
<1>2. TypeOK /\ CursorInv /\ RedialLosesNothing /\ [Next]_vars
        => CursorInv' /\ RedialLosesNothing'
  BY CursorStep
<1> QED
  BY <1>1, <1>2, TypeCorrect, PTL DEF Spec
=============================================================================
