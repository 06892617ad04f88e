-------------------------- MODULE Sessions_proofs --------------------------
(***************************************************************************)
(* Theorems about sign-in and the use of sessions, for every number of     *)
(* accounts, browsers, flows, goroutines, writes, refreshes and faults.    *)
(***************************************************************************)
EXTENDS Sessions, TLAPS

-----------------------------------------------------------------------------
(***************************************************************************)
(* The inductive invariant.                                                *)
(***************************************************************************)
\* Where a worker holds its account's session lock.
Locked == {"resume", "use", "persist"}

\* What is known of flows: by whom they were begun and granted, and that a request
\* is there only until the flow has its session.
Flowing ==
    /\ \A f \in Flows : begun[f] = None => f \notin request /\ store[f] = 0
    /\ \A f \in request : store[f] = 0
    /\ \A f \in Flows : store[f] = 0 <=> server[f] = 0
    /\ \A b \in Browsers : state[b] # None => begun[state[b]] = b
    /\ \A b \in Browsers :
        callback[b] # None => begun[callback[b]] = b /\ grant[callback[b]] # None
    /\ \A d \in Dids : active[d] # None => grant[active[d]] = d /\ store[active[d]] # 0

\* What is known of a worker: whose session it has read, that it has the lock it
\* acts under, and that its copy of the token is the stored one, unless the newest was
\* lost, or is to be stored.
Mine(w) ==
    /\ pc[w] \in Holding => grant[job[w].sid] = job[w].did /\ store[job[w].sid] # 0
    /\ pc[w] \in Locked => lock[job[w].did] = w
    /\ pc[w] = "use" /\ job[w].sid \notin lost => job[w].token = store[job[w].sid]
    /\ pc[w] = "persist" => job[w].token = server[job[w].sid]

\* What is stored is what the server expects, unless it is being saved or was lost.
Stored ==
    \A s \in Flows : \/ s \in lost
                     \/ store[s] = server[s]
                     \/ \E w \in Workers : pc[w] = "persist" /\ job[w].sid = s

SessionInv ==
    /\ TypeOK
    /\ Flowing
    /\ \A w \in Workers : Mine(w)
    /\ Stored
    /\ BrowserBound
    /\ RequestOutlivesCookie

\* One session is in the hands of one worker at a time: the lock is the account's,
\* and a session has one account.
LEMMA OneAtATime ==
  ASSUME SessionInv, NEW w \in Workers, NEW x \in Workers,
         pc[w] \in Locked, pc[x] \in Locked, job[w].sid = job[x].sid
  PROVE  w = x
  BY DEF SessionInv, Mine, Holding, Locked

LEMMA WorkIsJob ==
  ASSUME NEW d \in Dids \cup {None}, NEW n \in 0..MaxWrites
  PROVE  /\ Work(d, n) \in Jobs
         /\ Work(d, n).did = d
  BY DEF Work, Jobs

LEMMA NoJobIsJob == NoJob \in Jobs
  BY WorkIsJob, BoundsAssumption DEF NoJob

LEMMA InitInv ==
  ASSUME Init
  PROVE  SessionInv
<1>1. /\ request \in SUBSET Flows
      /\ begun \in [Flows -> Browsers \cup {None}]
      /\ age \in [Flows -> 0..MaxAge]
      /\ grant \in [Flows -> Dids \cup {None}]
      /\ state \in [Browsers -> Flows \cup {None}]
      /\ login \in [Browsers -> Dids \cup {None}]
      /\ callback \in [Browsers -> Flows \cup {None}]
  BY BoundsAssumption DEF Init
<1>2. /\ store \in [Flows -> Nat]
      /\ active \in [Dids -> Flows \cup {None}]
      /\ server \in [Flows -> Nat]
      /\ lost \in SUBSET Flows
      /\ lock \in [Dids -> Workers \cup {None}]
      /\ mu \in Workers \cup {None}
  BY DEF Init
<1>10. faults = 0 /\ stalled = FALSE
  BY DEF Init
<1>11. faults \in 0..MaxFaults
  BY <1>10, BoundsAssumption
<1>3. pc \in [Workers -> Labels] /\ job \in [Workers -> Jobs]
  BY NoJobIsJob DEF Init, Labels
<1>4. \A w \in Workers : pc[w] = "idle"
  BY DEF Init
<1>5. TypeOK
  BY <1>1, <1>2, <1>3, <1>4, <1>10, <1>11 DEF TypeOK, Holding
<1>6. \A w \in Workers : Mine(w)
  BY <1>4 DEF Mine, Holding, Locked
<1>7. Flowing
  BY DEF Init, Flowing
<1>8. Stored /\ BrowserBound
  BY DEF Init, Stored, BrowserBound
<1>9. RequestOutlivesCookie
  BY NamesAssumption DEF Init, RequestOutlivesCookie
<1> QED
  BY <1>5, <1>6, <1>7, <1>8, <1>9 DEF SessionInv

-----------------------------------------------------------------------------
(***************************************************************************)
(* Sign-in: the workers stand still.                                       *)
(***************************************************************************)
\* The workers keep what they know while stored sessions and grants stay.
LEMMA WorkersKeep ==
  ASSUME SessionInv, UNCHANGED <<workVars, lost>>,
         \A f \in Flows : grant[f] # None => grant'[f] = grant[f],
         \A f \in Flows : store[f] # 0 => store'[f] = store[f] /\ server'[f] = server[f]
  PROVE  \A w \in Workers : Mine(w)'
<1> SUFFICES ASSUME NEW w \in Workers PROVE Mine(w)'
  OBVIOUS
<1>1. UNCHANGED <<pc, job, lock, lost>>
  BY DEF workVars
<1>2. CASE pc[w] \in Holding
  <2>1. /\ job[w].sid \in Flows /\ job[w].did \in Dids
        /\ grant[job[w].sid] = job[w].did /\ store[job[w].sid] # 0
    BY <1>2 DEF SessionInv, TypeOK, Mine, Holding
  <2>2. /\ grant'[job[w].sid] = grant[job[w].sid]
        /\ store'[job[w].sid] = store[job[w].sid] /\ server'[job[w].sid] = server[job[w].sid]
    BY <2>1, NamesAssumption
  <2> QED
    BY <1>1, <2>1, <2>2 DEF SessionInv, Mine
<1>3. CASE pc[w] \notin Holding
  BY <1>1, <1>3 DEF Mine, Holding, Locked
<1> QED
  BY <1>2, <1>3

LEMMA SignInInv ==
  ASSUME SessionInv, SignIn
  PROVE  SessionInv'
<1> USE NamesAssumption
<1>1. ASSUME NEW b \in Browsers, NEW f \in Flows, Login(b, f) PROVE SessionInv'
  <2>1. TypeOK'
    BY <1>1 DEF Login, SessionInv, TypeOK, tokenVars, workVars, worldVars
  <2>2. Flowing'
    BY <1>1 DEF Login, SessionInv, TypeOK, Flowing, tokenVars
  <2>3. \A w \in Workers : Mine(w)'
    BY <1>1, WorkersKeep DEF Login, tokenVars
  <2>4. Stored'
    BY <1>1 DEF Login, SessionInv, Stored, tokenVars, workVars
  <2>5. BrowserBound'
    BY <1>1 DEF Login, SessionInv, TypeOK, BrowserBound
  <2>6. RequestOutlivesCookie'
    BY <1>1 DEF Login, SessionInv, TypeOK, RequestOutlivesCookie, tokenVars
  <2> QED
    BY <2>1, <2>2, <2>3, <2>4, <2>5, <2>6 DEF SessionInv
<1>2. ASSUME NEW f \in Flows, NEW d \in Dids, Approve(f, d) PROVE SessionInv'
  <2>1. TypeOK'
    BY <1>2 DEF Approve, SessionInv, TypeOK, tokenVars, workVars, worldVars
  <2>2. \A g \in Flows : grant[g] # None => grant'[g] = grant[g]
    BY <1>2 DEF Approve, SessionInv, TypeOK
  <2>3. Flowing'
    <3>1. UNCHANGED <<begun, request, store, server, state, callback, active>>
      BY <1>2 DEF Approve, tokenVars
    <3> QED
      BY <2>2, <3>1 DEF SessionInv, TypeOK, Flowing
  <2>4. \A w \in Workers : Mine(w)'
    BY <1>2, <2>2, WorkersKeep DEF Approve, tokenVars
  <2>5. Stored'
    BY <1>2 DEF Approve, SessionInv, Stored, tokenVars, workVars
  <2>6. BrowserBound'
    BY <1>2, <2>2 DEF Approve, SessionInv, TypeOK, BrowserBound
  <2>7. RequestOutlivesCookie'
    BY <1>2 DEF Approve, SessionInv, RequestOutlivesCookie, tokenVars
  <2> QED
    BY <2>1, <2>3, <2>4, <2>5, <2>6, <2>7 DEF SessionInv
<1>3. ASSUME NEW b \in Browsers, NEW f \in Flows, StartCallback(b, f) PROVE SessionInv'
  <2>1. TypeOK'
    BY <1>3 DEF StartCallback, SessionInv, TypeOK, tokenVars, workVars, worldVars
  <2>2. Flowing'
    BY <1>3 DEF StartCallback, Bound, SessionInv, TypeOK, Flowing, tokenVars
  <2>3. \A w \in Workers : Mine(w)'
    BY <1>3, WorkersKeep DEF StartCallback, tokenVars
  <2> QED
    BY <1>3, <2>1, <2>2, <2>3 DEF StartCallback, SessionInv, Stored, BrowserBound,
       RequestOutlivesCookie, tokenVars, workVars
<1>4. ASSUME NEW b \in Browsers, Exchange(b) PROVE SessionInv'
  <2> DEFINE f == callback[b]
  <2>1. /\ f \in request /\ f \in Flows /\ f # None /\ store[f] = 0 /\ server[f] = 0
        /\ begun[f] # None
    BY <1>4 DEF Exchange, SessionInv, TypeOK, Flowing
  <2>2. /\ request' = request \ {f}
        /\ store' = [store EXCEPT ![f] = 1] /\ server' = [server EXCEPT ![f] = 1]
        /\ UNCHANGED <<begun, age, grant, state, login, callback, active, lost, workVars, worldVars>>
    BY <1>4 DEF Exchange
  <2> HIDE DEF f
  <2>3. /\ store' \in [Flows -> Nat] /\ server' \in [Flows -> Nat]
        /\ store'[f] = 1 /\ server'[f] = 1
        /\ \A g \in Flows : g # f => store'[g] = store[g] /\ server'[g] = server[g]
    BY <2>1, <2>2 DEF SessionInv, TypeOK
  <2>4. TypeOK'
    BY <2>2, <2>3 DEF SessionInv, TypeOK, workVars, worldVars
  <2>5. Flowing'
    BY <2>1, <2>2, <2>3 DEF SessionInv, TypeOK, Flowing
  <2>6. \A w \in Workers : Mine(w)'
    BY <2>1, <2>2, <2>3, WorkersKeep
  <2>7. Stored'
    BY <2>2, <2>3 DEF SessionInv, Stored, workVars
  <2>8. BrowserBound' /\ RequestOutlivesCookie'
    BY <2>1, <2>2, <2>3 DEF SessionInv, BrowserBound, RequestOutlivesCookie
  <2> QED
    BY <2>4, <2>5, <2>6, <2>7, <2>8 DEF SessionInv
<1>5. ASSUME NEW b \in Browsers, SignedIn(b) PROVE SessionInv'
  <2> DEFINE f == callback[b]
  <2>1. /\ f \in Flows /\ f # None /\ store[f] # 0 /\ begun[f] = b /\ grant[f] \in Dids
    BY <1>5 DEF SignedIn, SessionInv, TypeOK, Flowing
  <2>2. /\ active' = [active EXCEPT ![grant[f]] = f]
        /\ login' = [login EXCEPT ![b] = grant[f]]
        /\ state' = [state EXCEPT ![b] = None] /\ callback' = [callback EXCEPT ![b] = None]
        /\ age' = [age EXCEPT ![f] = 0]
        /\ UNCHANGED <<request, begun, grant, store, server, lost, workVars, worldVars>>
    BY <1>5 DEF SignedIn
  <2> HIDE DEF f
  <2>3. TypeOK'
    BY <2>1, <2>2, BoundsAssumption DEF SessionInv, TypeOK, workVars, worldVars
  <2>4. Flowing'
    BY <2>1, <2>2 DEF SessionInv, TypeOK, Flowing
  <2>5. \A w \in Workers : Mine(w)'
    BY <2>2, WorkersKeep
  <2>6. Stored'
    BY <2>2 DEF SessionInv, Stored, workVars
  <2>7. BrowserBound'
    BY <2>1, <2>2 DEF SessionInv, TypeOK, BrowserBound
  <2>8. RequestOutlivesCookie'
    <3>1. \A g \in Flows : store'[g] = 0 => age'[g] = age[g]
      BY <2>1, <2>2 DEF SessionInv, TypeOK
    <3> QED
      BY <2>2, <3>1 DEF SessionInv, TypeOK, RequestOutlivesCookie
  <2> QED
    BY <2>3, <2>4, <2>5, <2>6, <2>7, <2>8 DEF SessionInv
<1>6. ASSUME NEW b \in Browsers, RefuseCallback(b) \/ Logout(b) PROVE SessionInv'
  <2>1. TypeOK'
    BY <1>6 DEF RefuseCallback, Logout, SessionInv, TypeOK, tokenVars, workVars, worldVars
  <2>2. Flowing'
    BY <1>6 DEF RefuseCallback, Logout, SessionInv, TypeOK, Flowing, tokenVars
  <2>3. \A w \in Workers : Mine(w)'
    BY <1>6, WorkersKeep DEF RefuseCallback, Logout, tokenVars
  <2>4. Stored'
    BY <1>6 DEF RefuseCallback, Logout, SessionInv, Stored, tokenVars, workVars
  <2>5. BrowserBound' /\ RequestOutlivesCookie'
    BY <1>6 DEF RefuseCallback, Logout, SessionInv, TypeOK, BrowserBound, RequestOutlivesCookie,
                tokenVars
  <2> QED
    BY <2>1, <2>2, <2>3, <2>4, <2>5 DEF SessionInv
<1>7. ASSUME NEW f \in Flows, Grow(f) PROVE SessionInv'
  <2>1. /\ age' = [age EXCEPT ![f] = @ + 1] /\ age' \in [Flows -> 0..MaxAge]
        /\ UNCHANGED <<request, begun, grant, state, login, callback, tokenVars, workVars, worldVars>>
    BY <1>7, BoundsAssumption DEF Grow, SessionInv, TypeOK
  <2>2. \A g \in Flows : age'[g] <= CookieTTL => age[g] <= CookieTTL
    BY <2>1 DEF SessionInv, TypeOK, CookieTTL
  <2>3. TypeOK'
    BY <2>1 DEF SessionInv, TypeOK, tokenVars, workVars, worldVars
  <2>4. \A w \in Workers : Mine(w)'
    BY <2>1, WorkersKeep DEF tokenVars
  <2>5. Flowing' /\ Stored' /\ BrowserBound'
    BY <2>1 DEF SessionInv, Flowing, Stored, BrowserBound, tokenVars, workVars
  <2>6. RequestOutlivesCookie'
    BY <2>1, <2>2 DEF SessionInv, RequestOutlivesCookie, tokenVars
  <2> QED
    BY <2>3, <2>4, <2>5, <2>6 DEF SessionInv
<1>8. ASSUME DeleteStaleAuthRequests PROVE SessionInv'
  <2>1. /\ request' \subseteq request
        /\ UNCHANGED <<begun, age, grant, state, login, callback, tokenVars, workVars, worldVars>>
    BY <1>8 DEF DeleteStaleAuthRequests
  <2>2. \A f \in request : age[f] <= CookieTTL => f \in request'
    BY <1>8 DEF DeleteStaleAuthRequests, Stale, StaleAfter, CookieTTL, SessionInv, TypeOK
  <2>3. TypeOK'
    BY <2>1 DEF SessionInv, TypeOK, tokenVars, workVars, worldVars
  <2>4. \A w \in Workers : Mine(w)'
    BY <2>1, WorkersKeep DEF tokenVars
  <2>5. Flowing' /\ Stored' /\ BrowserBound'
    BY <2>1 DEF SessionInv, Flowing, Stored, BrowserBound, tokenVars, workVars
  <2>6. RequestOutlivesCookie'
    BY <2>1, <2>2 DEF SessionInv, RequestOutlivesCookie, tokenVars
  <2> QED
    BY <2>3, <2>4, <2>5, <2>6 DEF SessionInv
<1> QED
  BY <1>1, <1>2, <1>3, <1>4, <1>5, <1>6, <1>7, <1>8 DEF SignIn

-----------------------------------------------------------------------------
(***************************************************************************)
(* Workers: the others stand still.                                        *)
(***************************************************************************)
OthersKeep(w) == \A x \in Workers : x # w => pc'[x] = pc[x] /\ job'[x] = job[x]

\* What a worker has when it has a label, as TypeOK says it.
Typed(w) ==
    /\ pc[w] \in Labels /\ job[w] \in Jobs
    /\ pc[w] # "idle" => job[w].did \in Dids
    /\ pc[w] \in Holding => job[w].sid \in Flows

\* A step in which no token moves keeps the invariant if it leaves the others
\* their locks and does its own part.
LEMMA QuietStep ==
  ASSUME SessionInv, NEW w \in Workers, OthersKeep(w), pc[w] # "persist",
         pc' \in [Workers -> Labels], job' \in [Workers -> Jobs], Typed(w)', Mine(w)',
         lock' \in [Dids -> Workers \cup {None}], mu' \in Workers \cup {None},
         \A x \in Workers : x # w /\ pc[x] \in Locked => lock'[job[x].did] = x,
         UNCHANGED <<flowVars, tokenVars, worldVars>>
  PROVE  SessionInv'
<1>1. UNCHANGED <<request, begun, age, grant, state, login, callback, store, active, server, lost>>
  BY DEF flowVars, tokenVars
<1>2. TypeOK'
  <2>1. \A x \in Workers : /\ pc'[x] # "idle" => job'[x].did \in Dids
                           /\ pc'[x] \in Holding => job'[x].sid \in Flows
    BY DEF SessionInv, TypeOK, OthersKeep, Typed
  <2> QED
    BY <1>1, <2>1 DEF SessionInv, TypeOK, worldVars
<1>3. ASSUME NEW x \in Workers, x # w PROVE Mine(x)'
  BY <1>1, <1>3 DEF SessionInv, Mine, OthersKeep
<1>4. Stored'
  <2> SUFFICES ASSUME NEW s \in Flows, s \notin lost, store[s] # server[s]
               PROVE  \E x \in Workers : pc'[x] = "persist" /\ job'[x].sid = s
    BY <1>1 DEF Stored
  <2>1. PICK x \in Workers : pc[x] = "persist" /\ job[x].sid = s
    BY DEF SessionInv, Stored
  <2> QED
    BY <2>1 DEF OthersKeep
<1>5. Flowing' /\ BrowserBound' /\ RequestOutlivesCookie'
  BY <1>1 DEF SessionInv, Flowing, BrowserBound, RequestOutlivesCookie
<1> QED
  BY <1>2, <1>3, <1>4, <1>5 DEF SessionInv

LEMMA GotoKeeps ==
  ASSUME TypeOK, NEW w \in Workers, NEW label \in Labels, Goto(w, label), NEW work \in Jobs,
         job' = [job EXCEPT ![w] = work]
  PROVE  /\ OthersKeep(w)
         /\ pc' \in [Workers -> Labels] /\ job' \in [Workers -> Jobs]
         /\ pc'[w] = label /\ job'[w] = work
  BY DEF Goto, OthersKeep, TypeOK

LEMMA SameJob ==
  ASSUME TypeOK, NEW w \in Workers
  PROVE  job[w] \in Jobs /\ job = [job EXCEPT ![w] = job[w]]
  BY DEF TypeOK

\* The locks stay.
LEMMA LocksStay ==
  ASSUME SessionInv, lock' = lock, NEW w \in Workers
  PROVE  /\ lock' \in [Dids -> Workers \cup {None}]
         /\ \A x \in Workers : x # w /\ pc[x] \in Locked => lock'[job[x].did] = x
  BY DEF SessionInv, TypeOK, Mine

\* A worker that has no session yet, or no longer, has nothing to keep.
LEMMA FreeWorker ==
  ASSUME NEW w \in Workers, pc[w] \notin Holding
  PROVE  Mine(w)
  BY DEF Mine, Holding, Locked

LEMMA BeginInv ==
  ASSUME SessionInv, NEW w \in Workers, NEW d \in Dids, NEW label \in {"user", "pass", "mu"},
         Begin(w, d, label)
  PROVE  SessionInv'
<1> DEFINE n == IF label = "user" THEN 0 ELSE MaxWrites
<1>1. Work(d, n) \in Jobs /\ Work(d, n).did = d
  BY WorkIsJob, BoundsAssumption
<1>2. /\ OthersKeep(w)
      /\ pc' \in [Workers -> Labels] /\ job' \in [Workers -> Jobs]
      /\ pc'[w] = label /\ job'[w] = Work(d, n)
  BY <1>1, GotoKeeps DEF Begin, SessionInv, Labels
<1>3. Typed(w)' /\ Mine(w)'
  BY <1>1, <1>2 DEF Typed, Labels, Mine, Holding, Locked
<1> QED
  BY <1>2, <1>3, QuietStep, LocksStay DEF Begin, SessionInv, TypeOK

LEMMA DoneKeeps ==
  ASSUME SessionInv, NEW w \in Workers, Done(w)
  PROVE  /\ OthersKeep(w)
         /\ pc' \in [Workers -> Labels] /\ job' \in [Workers -> Jobs]
         /\ mu' \in Workers \cup {None} /\ Typed(w)' /\ Mine(w)'
<1>1. /\ OthersKeep(w) /\ pc' \in [Workers -> Labels] /\ job' \in [Workers -> Jobs]
      /\ pc'[w] = "idle"
  BY NoJobIsJob, GotoKeeps DEF Done, SessionInv, Labels
<1>2. mu' \in Workers \cup {None}
  BY DEF Done, SessionInv, TypeOK
<1> QED
  BY <1>1, <1>2 DEF Typed, Mine, Holding, Locked

\* The token moves in the hands of the one who has the lock.
LEMMA Spends ==
  ASSUME SessionInv, NEW w \in Workers, Spend(w)
  PROVE  /\ pc[w] = "use" /\ job[w].sid \in Flows /\ job[w] \in Jobs /\ job[w].did \in Dids
         /\ job[w].token = server[job[w].sid] /\ job[w].token \in Nat
         /\ store[job[w].sid] # 0 /\ grant[job[w].sid] = job[w].did /\ lock[job[w].did] = w
         /\ server' \in [Flows -> Nat] /\ server'[job[w].sid] = job[w].token + 1
         /\ server'[job[w].sid] # 0
         /\ \A f \in Flows : f # job[w].sid => server'[f] = server[f]
<1> DEFINE s == job[w].sid
           next == server[s] + 1
<1>1. /\ pc[w] = "use" /\ s \in Flows /\ job[w] \in Jobs /\ job[w].did \in Dids
      /\ job[w].token = server[s] /\ store[s] # 0 /\ server[s] \in Nat
      /\ grant[s] = job[w].did /\ lock[job[w].did] = w
  BY DEF Spend, SessionInv, TypeOK, Mine, Holding, Locked
<1>2. next \in Nat \ {0} /\ server' = [server EXCEPT ![s] = next]
  BY <1>1 DEF Spend
<1> HIDE DEF next
<1>3. /\ server' \in [Flows -> Nat] /\ server'[s] = next
      /\ \A f \in Flows : f # s => server'[f] = server[f]
  BY <1>1, <1>2 DEF SessionInv, TypeOK
<1> QED
  BY <1>1, <1>2, <1>3 DEF next

LEMMA RefreshInv ==
  ASSUME SessionInv, NEW w \in Workers, Refresh(w)
  PROVE  SessionInv'
<1> DEFINE s == job[w].sid
           work == [job[w] EXCEPT !.token = @ + 1]
<1>1. /\ pc[w] = "use" /\ s \in Flows /\ job[w] \in Jobs /\ job[w].did \in Dids
      /\ job[w].token = server[s] /\ job[w].token \in Nat
      /\ store[s] # 0 /\ grant[s] = job[w].did /\ lock[job[w].did] = w
  BY Spends DEF Refresh
<1>2. work \in Jobs /\ work.token = job[w].token + 1 /\ work.sid = s /\ work.did = job[w].did
  BY <1>1 DEF Jobs
<1>3. /\ job' = [job EXCEPT ![w] = work]
      /\ lost' = lost \ {s}
      /\ Goto(w, "persist")
      /\ UNCHANGED <<flowVars, store, active, lock, mu, stalled, faults>>
  BY DEF Refresh, worldVars
<1>4. UNCHANGED <<request, begun, age, grant, state, login, callback>>
  BY <1>3 DEF flowVars
<1> HIDE DEF work, s
<1>5. /\ OthersKeep(w) /\ pc' \in [Workers -> Labels] /\ job' \in [Workers -> Jobs]
      /\ pc'[w] = "persist" /\ job'[w] = work
  BY <1>2, <1>3, GotoKeeps DEF SessionInv, Labels
<1>6. /\ server' \in [Flows -> Nat] /\ server'[s] = job[w].token + 1 /\ server'[s] # 0
      /\ \A f \in Flows : f # s => server'[f] = server[f]
  BY Spends DEF Refresh, s
<1>7. TypeOK'
  <2>1. \A x \in Workers : /\ pc'[x] # "idle" => job'[x].did \in Dids
                           /\ pc'[x] \in Holding => job'[x].sid \in Flows
    BY <1>1, <1>2, <1>5 DEF SessionInv, TypeOK, OthersKeep
  <2> QED
    BY <1>3, <1>4, <1>5, <1>6, <2>1 DEF SessionInv, TypeOK
<1>8. Mine(w)'
  BY <1>1, <1>2, <1>3, <1>4, <1>5, <1>6 DEF Mine
<1>9. ASSUME NEW x \in Workers, x # w PROVE Mine(x)'
  <2>1. pc'[x] = pc[x] /\ job'[x] = job[x] /\ Mine(x)
    BY <1>5, <1>9 DEF OthersKeep, SessionInv
  <2>2. pc[x] \in Locked => job[x].sid # s
    BY <1>1, <1>9, OneAtATime DEF Locked, s
  <2>3. pc[x] \in Locked => job[x].sid \in Flows
    BY DEF SessionInv, TypeOK, Holding, Locked
  <2>4. pc[x] = "persist" => server'[job[x].sid] = server[job[x].sid]
    BY <1>6, <2>2, <2>3 DEF Locked
  <2> QED
    BY <1>3, <1>4, <2>1, <2>2, <2>4 DEF Mine, Locked
<1>10. Flowing'
  BY <1>1, <1>3, <1>4, <1>6 DEF SessionInv, TypeOK, Flowing
<1>11. Stored'
  <2>1. ASSUME NEW f \in Flows, f # s, f \notin lost', store[f] # server[f]
        PROVE  \E x \in Workers : pc'[x] = "persist" /\ job'[x].sid = f
    <3>1. PICK x \in Workers : pc[x] = "persist" /\ job[x].sid = f
      BY <1>3, <2>1 DEF SessionInv, Stored
    <3> QED
      BY <1>1, <1>5, <3>1 DEF OthersKeep
  <2> QED
    BY <1>2, <1>3, <1>5, <1>6, <2>1 DEF Stored
<1>12. BrowserBound' /\ RequestOutlivesCookie'
  BY <1>3, <1>4 DEF SessionInv, BrowserBound, RequestOutlivesCookie
<1> QED
  BY <1>7, <1>8, <1>9, <1>10, <1>11, <1>12 DEF SessionInv

LEMMA PersistInv ==
  ASSUME SessionInv, NEW w \in Workers, Persist(w)
  PROVE  SessionInv'
<1> DEFINE s == job[w].sid
<1>1. /\ pc[w] = "persist" /\ s \in Flows /\ job[w] \in Jobs /\ job[w].did \in Dids
      /\ job[w].token = server[s] /\ store[s] # 0 /\ server[s] \in Nat /\ server[s] # 0
      /\ grant[s] = job[w].did /\ lock[job[w].did] = w
  BY DEF Persist, SessionInv, TypeOK, Flowing, Mine, Holding, Locked
<1>2. /\ store' = [store EXCEPT ![s] = server[s]]
      /\ job' = [job EXCEPT ![w] = job[w]]
      /\ Goto(w, "use")
      /\ UNCHANGED <<flowVars, active, server, lost, lock, mu, job, stalled, faults>>
  BY <1>1, SameJob DEF Persist, SessionInv, worldVars
<1>3. UNCHANGED <<request, begun, age, grant, state, login, callback>>
  BY <1>2 DEF flowVars
<1> HIDE DEF s
<1>4. /\ OthersKeep(w) /\ pc' \in [Workers -> Labels] /\ job' \in [Workers -> Jobs]
      /\ pc'[w] = "use" /\ job'[w] = job[w]
  BY <1>1, <1>2, GotoKeeps DEF SessionInv, Labels
<1>5. /\ store' \in [Flows -> Nat] /\ store'[s] = server[s]
      /\ \A f \in Flows : f # s => store'[f] = store[f]
  BY <1>1, <1>2 DEF SessionInv, TypeOK
<1>6. TypeOK'
  <2>1. \A x \in Workers : /\ pc'[x] # "idle" => job'[x].did \in Dids
                           /\ pc'[x] \in Holding => job'[x].sid \in Flows
    BY <1>1, <1>4 DEF SessionInv, TypeOK, OthersKeep, s
  <2> QED
    BY <1>2, <1>3, <1>4, <1>5, <2>1 DEF SessionInv, TypeOK
<1>7. Mine(w)'
  BY <1>1, <1>2, <1>3, <1>4, <1>5 DEF Mine, s
<1>8. ASSUME NEW x \in Workers, x # w PROVE Mine(x)'
  <2>1. pc'[x] = pc[x] /\ job'[x] = job[x] /\ Mine(x)
    BY <1>4, <1>8 DEF OthersKeep, SessionInv
  <2>2. pc[x] \in Locked => job[x].sid # s
    BY <1>1, <1>8, OneAtATime DEF Locked, s
  <2>3. pc[x] \in Holding => job[x].sid \in Flows
    BY DEF SessionInv, TypeOK
  <2>4. pc[x] = "use" => store'[job[x].sid] = store[job[x].sid]
    BY <1>5, <2>2, <2>3 DEF Locked, Holding
  <2>5. pc[x] \in Holding => store'[job[x].sid] # 0
    BY <1>1, <1>5, <2>1, <2>3 DEF Mine
  <2> QED
    BY <1>2, <1>3, <2>1, <2>4, <2>5 DEF Mine
<1>9. Flowing'
  BY <1>1, <1>2, <1>3, <1>5 DEF SessionInv, TypeOK, Flowing
<1>10. Stored'
  <2>1. ASSUME NEW f \in Flows, f # s, f \notin lost, store[f] # server[f]
        PROVE  \E x \in Workers : pc'[x] = "persist" /\ job'[x].sid = f
    <3>1. PICK x \in Workers : pc[x] = "persist" /\ job[x].sid = f
      BY <2>1 DEF SessionInv, Stored
    <3>2. x # w
      BY <2>1, <3>1 DEF s
    <3> QED
      BY <1>4, <3>1, <3>2 DEF OthersKeep
  <2> QED
    BY <1>2, <1>5, <2>1 DEF Stored
<1>11. BrowserBound' /\ RequestOutlivesCookie'
  BY <1>1, <1>3, <1>5 DEF SessionInv, BrowserBound, RequestOutlivesCookie
<1> QED
  BY <1>6, <1>7, <1>8, <1>9, <1>10, <1>11 DEF SessionInv

LEMMA Faulty ==
  ASSUME SessionInv, Fault
  PROVE  faults' \in 0..MaxFaults
BY BoundsAssumption DEF Fault, SessionInv, TypeOK

\* A token that is lost is lost to the one who has the lock.
LEMMA LoseInv ==
  ASSUME SessionInv, NEW w \in Workers, RefreshLost(w) \/ PersistFails(w)
  PROVE  SessionInv'
<1> DEFINE s == job[w].sid
<1>1. /\ UNCHANGED <<request, begun, age, grant, state, login, callback, store, active, lock, mu,
                     stalled, job>>
      /\ lost' = lost \cup {s} /\ faults' \in 0..MaxFaults
  BY Faulty DEF RefreshLost, PersistFails, flowVars, workVars
<1>2. /\ pc[w] \in Locked /\ s \in Flows /\ server' \in [Flows -> Nat]
      /\ server'[s] = 0 <=> server[s] = 0
      /\ \A f \in Flows : f # s => server'[f] = server[f]
  <2>1. CASE RefreshLost(w)
    BY <2>1, Spends DEF RefreshLost, SessionInv, Flowing, Locked
  <2>2. CASE PersistFails(w)
    BY <2>2 DEF PersistFails, SessionInv, TypeOK, Holding, Locked
  <2> QED
    BY <2>1, <2>2
<1>3. /\ pc' \in [Workers -> Labels] /\ pc'[w] = "use" /\ OthersKeep(w)
  BY <1>1 DEF RefreshLost, Spend, PersistFails, Goto, SessionInv, TypeOK, workVars, Labels,
              OthersKeep
<1> HIDE DEF s
<1>4. TypeOK'
  <2>1. \A x \in Workers : /\ pc'[x] # "idle" => job'[x].did \in Dids
                           /\ pc'[x] \in Holding => job'[x].sid \in Flows
    BY <1>1, <1>2, <1>3 DEF SessionInv, TypeOK, OthersKeep, Locked, Holding
  <2> QED
    BY <1>1, <1>2, <1>3, <2>1 DEF SessionInv, TypeOK
<1>5. Mine(w)'
  BY <1>1, <1>2, <1>3 DEF SessionInv, Mine, Holding, Locked, s
<1>6. ASSUME NEW x \in Workers, x # w PROVE Mine(x)'
  <2>1. pc'[x] = pc[x] /\ job'[x] = job[x] /\ Mine(x)
    BY <1>3, <1>6 DEF OthersKeep, SessionInv
  <2>2. pc[x] \in Locked => job[x].sid # s
    BY <1>2, <1>6, OneAtATime DEF s
  <2>3. pc[x] \in Locked => job[x].sid \in Flows
    BY DEF SessionInv, TypeOK, Holding, Locked
  <2>4. pc[x] = "persist" => server'[job[x].sid] = server[job[x].sid]
    BY <1>2, <2>2, <2>3 DEF Locked
  <2> QED
    BY <1>1, <2>1, <2>4 DEF Mine
<1>7. Flowing'
  BY <1>1, <1>2 DEF SessionInv, Flowing
<1>8. Stored'
  <2> SUFFICES ASSUME NEW f \in Flows, f \notin lost', store'[f] # server'[f]
               PROVE  \E x \in Workers : pc'[x] = "persist" /\ job'[x].sid = f
    BY DEF Stored
  <2>1. f # s /\ f \notin lost /\ store[f] # server[f]
    BY <1>1, <1>2
  <2>2. PICK x \in Workers : pc[x] = "persist" /\ job[x].sid = f
    BY <2>1 DEF SessionInv, Stored
  <2> QED
    BY <1>3, <2>1, <2>2 DEF OthersKeep, s
<1>9. BrowserBound' /\ RequestOutlivesCookie'
  BY <1>1 DEF SessionInv, BrowserBound, RequestOutlivesCookie
<1> QED
  BY <1>4, <1>5, <1>6, <1>7, <1>8, <1>9 DEF SessionInv

LEMMA StallInv ==
  ASSUME SessionInv, Stall \/ Unstall
  PROVE  SessionInv'
<1>1. UNCHANGED <<flowVars, tokenVars, workVars>> /\ stalled' \in BOOLEAN /\ faults' \in 0..MaxFaults
  BY Faulty DEF Stall, Unstall, SessionInv, TypeOK
<1> QED
  BY <1>1 DEF flowVars, tokenVars, workVars, SessionInv, TypeOK, Flowing, Mine, Stored,
              BrowserBound, RequestOutlivesCookie

\* Every other step of a worker moves no token.
LEMMA RunningInv ==
  ASSUME SessionInv, NEW w \in Workers,
         Running(w) \/ LockReconciler(w) \/ Publish(w) \/ LockSession(w)
  PROVE  SessionInv'
<1> USE DEF Labels
<1>1. /\ TypeOK /\ Mine(w) /\ job[w] \in Jobs /\ mu \in Workers \cup {None}
      /\ pc[w] # "idle" => job[w].did \in Dids
      /\ pc[w] \in Holding => job[w].sid \in Flows
  BY DEF SessionInv, TypeOK
<1>2. CASE LockReconciler(w) \/ Publish(w)
  <2>1. CASE Done(w)
    BY <1>2, <2>1, DoneKeeps, QuietStep, LocksStay DEF LockReconciler, Publish
  <2>2. CASE ~Done(w)
    <3>1. PICK label \in {"publish", "pass"} : Goto(w, label)
      BY <1>2, <2>2 DEF LockReconciler, Publish
    <3>2. /\ pc[w] \in {"mu", "publish"} /\ mu' \in Workers \cup {None}
          /\ UNCHANGED <<flowVars, tokenVars, lock, job, worldVars>>
      BY <1>1, <1>2, <2>2 DEF LockReconciler, Publish
    <3>3. /\ OthersKeep(w) /\ pc' \in [Workers -> Labels] /\ job' \in [Workers -> Jobs]
          /\ pc'[w] = label /\ job'[w] = job[w]
      BY <1>1, <3>1, <3>2, GotoKeeps, SameJob
    <3>4. Typed(w)' /\ Mine(w)'
      BY <1>1, <3>2, <3>3 DEF Typed, Mine, Holding, Locked
    <3> QED
      BY <3>2, <3>3, <3>4, QuietStep, LocksStay
  <2> QED
    BY <2>1, <2>2
<1>3. CASE NextWrite(w)
  <2> DEFINE work == [job[w] EXCEPT !.left = @ - 1]
  <2>1. work \in Jobs /\ work.did = job[w].did
    BY <1>1, <1>3, BoundsAssumption DEF NextWrite, Jobs
  <2>2. job' = [job EXCEPT ![w] = work] /\ Goto(w, "user")
    BY <1>3 DEF NextWrite
  <2> HIDE DEF work
  <2>3. /\ OthersKeep(w) /\ pc' \in [Workers -> Labels] /\ job' \in [Workers -> Jobs]
        /\ pc'[w] = "user" /\ job'[w] = work
    BY <1>1, <2>1, <2>2, GotoKeeps
  <2>4. Typed(w)' /\ Mine(w)'
    BY <1>1, <1>3, <2>1, <2>3 DEF NextWrite, Typed, Mine, Holding, Locked
  <2> QED
    BY <1>1, <1>3, <2>3, <2>4, QuietStep, LocksStay DEF NextWrite
<1>4. CASE EndPass(w)
  BY <1>4, DoneKeeps, QuietStep, LocksStay DEF EndPass
<1>5. CASE ReadUser(w)
  <2> DEFINE s == active[job[w].did]
  <2>1. pc[w] = "user" /\ lock' = lock /\ UNCHANGED <<flowVars, tokenVars, worldVars>>
    BY <1>5 DEF ReadUser
  <2>2. CASE Done(w)
    BY <2>1, <2>2, DoneKeeps, QuietStep, LocksStay
  <2>3. CASE s # None /\ Goto(w, "lock") /\ job' = [job EXCEPT ![w].sid = s] /\ UNCHANGED mu
    <3> DEFINE work == [job[w] EXCEPT !.sid = s]
    <3>1. /\ s \in Flows /\ job[w].did \in Dids
          /\ grant[s] = job[w].did /\ store[s] # 0
      BY <1>1, <2>1, <2>3 DEF SessionInv, TypeOK, Flowing
    <3>2. work \in Jobs /\ work.sid = s /\ work.did = job[w].did
      BY <1>1, <3>1 DEF Jobs
    <3>3. job' = [job EXCEPT ![w] = work]
      BY <2>3
    <3> HIDE DEF work, s
    <3>4. /\ OthersKeep(w) /\ pc' \in [Workers -> Labels] /\ job' \in [Workers -> Jobs]
          /\ pc'[w] = "lock" /\ job'[w] = work
      BY <1>1, <2>3, <3>2, <3>3, GotoKeeps
    <3>5. UNCHANGED <<grant, store>>
      BY <2>1 DEF flowVars, tokenVars
    <3>6. Typed(w)' /\ Mine(w)'
      BY <3>1, <3>2, <3>4, <3>5 DEF Typed, Mine, Locked, Holding
    <3> QED
      BY <1>1, <2>1, <2>3, <3>4, <3>6, QuietStep, LocksStay
  <2> QED
    BY <1>5, <2>2, <2>3 DEF ReadUser
<1>6. CASE LockSession(w)
  <2> DEFINE d == job[w].did
  <2>1. /\ pc[w] = "lock" /\ lock[d] = None /\ d \in Dids /\ job[w].sid \in Flows
        /\ lock' = [lock EXCEPT ![d] = w]
        /\ grant[job[w].sid] = d /\ store[job[w].sid] # 0
        /\ UNCHANGED <<flowVars, tokenVars, mu, job, worldVars>>
    BY <1>1, <1>6 DEF LockSession, Mine, Holding
  <2>2. /\ OthersKeep(w) /\ pc' \in [Workers -> Labels] /\ job' \in [Workers -> Jobs]
        /\ pc'[w] = "resume" /\ job'[w] = job[w]
    BY <1>1, <1>6, GotoKeeps, SameJob DEF LockSession
  <2> HIDE DEF d
  <2>3. lock' \in [Dids -> Workers \cup {None}] /\ lock'[d] = w
    BY <1>1, <2>1 DEF TypeOK
  <2>4. ASSUME NEW x \in Workers, x # w, pc[x] \in Locked PROVE lock'[job[x].did] = x
    <3>1. lock[job[x].did] = x /\ job[x].did \in Dids /\ x # None
      BY <2>4, NamesAssumption DEF SessionInv, TypeOK, Mine, Locked
    <3> QED
      BY <1>1, <2>1, <3>1 DEF TypeOK
  <2>5. UNCHANGED <<grant, store>>
    BY <2>1 DEF flowVars, tokenVars
  <2>6. Typed(w)' /\ Mine(w)'
    BY <1>1, <2>1, <2>2, <2>3, <2>5 DEF Typed, Mine, Holding, Locked, d
  <2> QED
    BY <1>1, <2>1, <2>2, <2>3, <2>4, <2>6, QuietStep
<1>7. CASE Resume(w)
  <2> DEFINE s == job[w].sid
             work == [job[w] EXCEPT !.token = store[s]]
  <2>1. /\ pc[w] = "resume" /\ s \in Flows /\ job[w].did \in Dids /\ store[s] \in Nat
        /\ job' = [job EXCEPT ![w] = work] /\ Goto(w, "use")
        /\ grant[s] = job[w].did /\ store[s] # 0 /\ lock[job[w].did] = w
        /\ UNCHANGED <<flowVars, tokenVars, lock, mu, worldVars>>
    BY <1>1, <1>7 DEF Resume, TypeOK, Mine, Holding, Locked
  <2>2. work \in Jobs /\ work.sid = s /\ work.did = job[w].did /\ work.token = store[s]
    BY <1>1, <2>1 DEF Jobs
  <2> HIDE DEF work, s
  <2>3. /\ OthersKeep(w) /\ pc' \in [Workers -> Labels] /\ job' \in [Workers -> Jobs]
        /\ pc'[w] = "use" /\ job'[w] = work
    BY <1>1, <2>1, <2>2, GotoKeeps
  <2>4. UNCHANGED <<grant, store, lock>>
    BY <2>1 DEF flowVars, tokenVars
  <2>5. Typed(w)' /\ Mine(w)'
    BY <2>1, <2>2, <2>3, <2>4 DEF Typed, Mine
  <2> QED
    BY <1>1, <2>1, <2>3, <2>5, QuietStep, LocksStay
<1>8. CASE NoteReconcile(w)
  <2> DEFINE work == [job[w] EXCEPT !.owes = TRUE]
  <2>1. /\ pc[w] = "use" /\ job' = [job EXCEPT ![w] = work] /\ pc' = pc
        /\ UNCHANGED <<flowVars, tokenVars, lock, mu, worldVars>>
    BY <1>8 DEF NoteReconcile
  <2>2. /\ work \in Jobs /\ work.sid = job[w].sid /\ work.did = job[w].did
        /\ work.token = job[w].token
    BY <1>1 DEF Jobs
  <2> HIDE DEF work
  <2>3. /\ OthersKeep(w) /\ pc' \in [Workers -> Labels] /\ job' \in [Workers -> Jobs]
        /\ pc'[w] = "use" /\ job'[w] = work
    BY <1>1, <2>1, <2>2 DEF OthersKeep, TypeOK
  <2>4. UNCHANGED <<grant, store, lost, lock>>
    BY <2>1 DEF flowVars, tokenVars
  <2>5. Typed(w)' /\ Mine(w)'
    BY <1>1, <2>1, <2>2, <2>3, <2>4 DEF Typed, Mine, Holding, Locked
  <2> QED
    BY <1>1, <2>1, <2>3, <2>5, QuietStep, LocksStay
<1>9. CASE Unlock(w)
  <2> DEFINE d == job[w].did
  <2>1. /\ pc[w] \in {"resume", "use"} /\ d \in Dids /\ lock[d] = w
        /\ lock' = [lock EXCEPT ![d] = None]
        /\ UNCHANGED <<flowVars, tokenVars, worldVars>>
    BY <1>1, <1>9 DEF Unlock, Mine, Locked
  <2> HIDE DEF d
  <2>2. lock' \in [Dids -> Workers \cup {None}]
    BY <1>1, <2>1 DEF TypeOK
  <2>3. ASSUME NEW x \in Workers, x # w, pc[x] \in Locked PROVE lock'[job[x].did] = x
    <3>1. lock[job[x].did] = x /\ job[x].did \in Dids
      BY <2>3 DEF SessionInv, TypeOK, Mine, Locked
    <3> QED
      BY <1>1, <2>1, <2>3, <3>1 DEF TypeOK
  <2>4. CASE Done(w)
    BY <2>1, <2>2, <2>3, <2>4, DoneKeeps, QuietStep
  <2>5. ASSUME NEW label \in {"pass", "mu"}, NEW n \in 0..MaxWrites,
               Goto(w, label), Forget(w, n), UNCHANGED mu
        PROVE  SessionInv'
    <3>1. /\ Work(d, n) \in Jobs /\ Work(d, n).did = d
          /\ job' = [job EXCEPT ![w] = Work(d, n)]
      BY <2>1, <2>5, WorkIsJob DEF Forget, d
    <3>2. /\ OthersKeep(w) /\ pc' \in [Workers -> Labels] /\ job' \in [Workers -> Jobs]
          /\ pc'[w] = label /\ job'[w] = Work(d, n)
      BY <1>1, <2>5, <3>1, GotoKeeps
    <3>3. Typed(w)' /\ Mine(w)'
      BY <2>1, <3>1, <3>2 DEF Typed, Mine, Holding, Locked
    <3> QED
      BY <1>1, <2>1, <2>2, <2>3, <2>5, <3>2, <3>3, QuietStep
  <2>6. job[w].left \in 0..MaxWrites /\ MaxWrites \in 0..MaxWrites
    BY <1>1, BoundsAssumption DEF Jobs
  <2> QED
    BY <1>9, <2>4, <2>5, <2>6 DEF Unlock
<1> QED
  BY <1>2, <1>3, <1>4, <1>5, <1>6, <1>7, <1>8, <1>9, RefreshInv, PersistInv, LoseInv
  DEF Running

LEMMA CrashInv ==
  ASSUME SessionInv, Crash
  PROVE  SessionInv'
<1>1. UNCHANGED <<request, begun, age, grant, state, login, store, active, server>>
  BY DEF Crash
<1>2. \A w \in Workers : pc[w] = "persist" => job[w].sid \in Flows /\ job[w].sid \in lost'
  BY DEF Crash, SessionInv, TypeOK, Holding
<1>3. lost \subseteq lost' /\ lost' \subseteq Flows
  BY <1>2 DEF Crash, SessionInv, TypeOK, Holding
<1>4. /\ callback' \in [Browsers -> Flows \cup {None}] /\ lock' \in [Dids -> Workers \cup {None}]
      /\ mu' \in Workers \cup {None} /\ stalled' \in BOOLEAN /\ faults' \in 0..MaxFaults
  BY Faulty DEF Crash, SessionInv, TypeOK
<1>5. /\ pc' \in [Workers -> Labels] /\ job' \in [Workers -> Jobs]
      /\ \A w \in Workers : pc'[w] = "idle"
  BY NoJobIsJob DEF Crash, Labels
<1>6. TypeOK'
  BY <1>1, <1>3, <1>4, <1>5 DEF SessionInv, TypeOK, Holding
<1>7. \A w \in Workers : Mine(w)'
  BY <1>5 DEF Mine, Holding, Locked
<1>8. Stored'
  BY <1>1, <1>2, <1>3 DEF SessionInv, Stored
<1>9. Flowing' /\ BrowserBound' /\ RequestOutlivesCookie'
  BY <1>1 DEF Crash, SessionInv, Flowing, BrowserBound, RequestOutlivesCookie
<1> QED
  BY <1>6, <1>7, <1>8, <1>9 DEF SessionInv

LEMMA NextInv ==
  ASSUME SessionInv, [Next]_vars
  PROVE  SessionInv'
<1>1. ASSUME NEW w \in Rechecks, Recheck(w) PROVE SessionInv'
  <2>1. PICK b \in Browsers : login[b] # None /\ Begin(w, login[b], "user")
    BY <1>1 DEF Recheck
  <2>2. login[b] \in Dids /\ w \in Workers
    BY <2>1 DEF SessionInv, TypeOK, Workers
  <2> QED
    BY <2>1, <2>2, BeginInv
<1>2. ASSUME NEW w \in Passes \cup Ticks, Reconcile(w) PROVE SessionInv'
  BY <1>2, BeginInv DEF Reconcile, Workers
<1>3. CASE UNCHANGED vars
  BY <1>3 DEF vars, flowVars, tokenVars, workVars, worldVars, SessionInv, TypeOK, Flowing, Mine, Stored,
              BrowserBound, RequestOutlivesCookie
<1> QED
  BY <1>1, <1>2, <1>3, SignInInv, RunningInv, CrashInv, StallInv DEF Next

LEMMA SessionInvAlways == Spec => []SessionInv
<1>1. SessionInv /\ [Next]_vars => SessionInv'
  BY NextInv
<1> QED
  BY <1>1, InitInv, PTL DEF Spec

-----------------------------------------------------------------------------
(***************************************************************************)
(* What follows.                                                           *)
(***************************************************************************)
\* Every variable keeps its shape; above all no worker waits for a lock, or acts,
\* without an account and a session id.
THEOREM TypeCorrect == Spec => []TypeOK
<1>1. SessionInv => TypeOK
  BY DEF SessionInv
<1> QED
  BY <1>1, SessionInvAlways, PTL

\* No worker presents a token that has been spent, however many there are and
\* whoever signs in meanwhile, of any session but those whose newest token was never
\* stored: the answer did not arrive, SaveSession failed or a restart came before it.
THEOREM NoSpentToken == Spec => []TokenFresh
<1>1. ASSUME SessionInv, NEW w \in Workers, pc[w] = "use", job[w].sid \notin lost
      PROVE  job[w].token = server[job[w].sid]
  <2>1. job[w].sid \in Flows /\ job[w].token = store[job[w].sid]
    BY <1>1 DEF SessionInv, TypeOK, Mine, Holding
  <2>2. \A x \in Workers : ~(pc[x] = "persist" /\ job[x].sid = job[w].sid)
    BY <1>1, OneAtATime DEF Locked
  <2> QED
    BY <1>1, <2>1, <2>2 DEF SessionInv, Stored
<1>2. SessionInv => TokenFresh
  BY <1>1 DEF TokenFresh
<1> QED
  BY <1>2, SessionInvAlways, PTL

\* Nobody acts on an account with another account's session, whatever signs in
\* while it waits for the account's lock.
THEOREM OnlyOwnSessions == Spec => []OwnSession
<1>1. SessionInv => OwnSession
  BY DEF SessionInv, Mine, OwnSession
<1> QED
  BY <1>1, SessionInvAlways, PTL

\* A browser is signed in only by a flow that it began itself.
THEOREM SignedInByOwnFlow == Spec => []BrowserBound
<1>1. SessionInv => BrowserBound
  BY DEF SessionInv
<1> QED
  BY <1>1, SessionInvAlways, PTL

\* A sign-in still under way never finds its request swept away.
THEOREM SweepSparesLiveFlows == Spec => []RequestOutlivesCookie
<1>1. SessionInv => RequestOutlivesCookie
  BY DEF SessionInv
<1> QED
  BY <1>1, SessionInvAlways, PTL

-----------------------------------------------------------------------------
(***************************************************************************)
(* Who waits for whom.  Mine says that a worker has the lock it acts under;*)
(* no deadlock needs the converse: a mutex that is held is held by someone *)
(* who is where its holder should be.                                      *)
(***************************************************************************)
LocksInUse ==
    \A d \in Dids : lock[d] # None => pc[lock[d]] \in Locked /\ job[lock[d]].did = d

MutexInUse == mu # None => pc[mu] \notin {"idle", "mu"}

InUse == LocksInUse /\ MutexInUse

\* A worker's step leaves to the others what they hold; what it holds itself
\* afterwards, it is using.
LEMMA OthersHold ==
  ASSUME SessionInv, InUse, NEW w \in Workers, OthersKeep(w),
         \A d \in Dids : \/ lock'[d] = None
                         \/ lock'[d] = lock[d] /\ lock[d] # w
                         \/ lock'[d] = w /\ pc'[w] \in Locked /\ job'[w].did = d,
         \/ mu' = None
         \/ mu' = mu /\ mu # w
         \/ mu' = w /\ pc'[w] \notin {"idle", "mu"}
  PROVE  InUse'
<1>1. ASSUME NEW d \in Dids, lock'[d] # None
      PROVE  pc'[lock'[d]] \in Locked /\ job'[lock'[d]].did = d
  <2>1. CASE lock'[d] = lock[d] /\ lock[d] # w
    <3>1. lock[d] \in Workers /\ pc[lock[d]] \in Locked /\ job[lock[d]].did = d
      BY <1>1, <2>1 DEF SessionInv, TypeOK, InUse, LocksInUse
    <3> QED
      BY <2>1, <3>1 DEF OthersKeep
  <2> QED
    BY <1>1, <2>1
<1>2. ASSUME mu' # None PROVE pc'[mu'] \notin {"idle", "mu"}
  <2>1. CASE mu' = mu /\ mu # w
    <3>1. mu \in Workers /\ pc[mu] \notin {"idle", "mu"}
      BY <1>2, <2>1 DEF SessionInv, TypeOK, InUse, MutexInUse
    <3> QED
      BY <2>1, <3>1 DEF OthersKeep
  <2> QED
    BY <1>2, <2>1
<1> QED
  BY <1>1, <1>2 DEF InUse, LocksInUse, MutexInUse

\* A worker outside a session holds no session lock.
LEMMA HoldsNone ==
  ASSUME InUse, NEW w \in Workers, pc[w] \notin Locked, NEW d \in Dids
  PROVE  lock[d] = None \/ lock[d] # w
  BY DEF InUse, LocksInUse

\* A worker inside a session holds its own account's lock and no other.
LEMMA HoldsOwn ==
  ASSUME InUse, NEW w \in Workers, NEW d \in Dids, lock[d] = w, w # None
  PROVE  job[w].did = d
  BY DEF InUse, LocksInUse

LEMMA WorkersInUse ==
  ASSUME SessionInv, InUse, NEW w \in Workers,
         Running(w) \/ LockReconciler(w) \/ Publish(w) \/ LockSession(w)
  PROVE  InUse'
<1>1. /\ TypeOK /\ Mine(w) /\ w # None
      /\ pc \in [Workers -> Labels] /\ job \in [Workers -> Jobs]
      /\ lock \in [Dids -> Workers \cup {None}] /\ job[w] \in Jobs
      /\ pc[w] # "idle" => job[w].did \in Dids
  BY NamesAssumption DEF SessionInv, TypeOK
<1>2. CASE LockReconciler(w) \/ Publish(w) \/ NextWrite(w) \/ EndPass(w) \/ ReadUser(w)
  <2>1. /\ OthersKeep(w) /\ lock' = lock /\ pc[w] \in {"mu", "publish", "pass", "user"}
        /\ \/ mu' = w /\ pc'[w] = "publish"
           \/ mu' = mu /\ pc'[w] \in {"pass", "user", "lock"} /\ pc[w] # "mu"
           \/ mu' = IF mu = w THEN None ELSE mu
    BY <1>1, <1>2 DEF LockReconciler, Publish, NextWrite, EndPass, ReadUser, Done, Goto, OthersKeep
  <2> QED
    BY <2>1, HoldsNone, OthersHold DEF Locked
<1>3. CASE \/ Resume(w) \/ Refresh(w) \/ RefreshLost(w) \/ Persist(w) \/ PersistFails(w)
           \/ NoteReconcile(w)
  <2>1. /\ OthersKeep(w) /\ lock' = lock /\ mu' = mu
        /\ pc[w] \in Locked /\ pc'[w] \in Locked /\ job'[w].did = job[w].did
    BY <1>1, <1>3 DEF Resume, Refresh, RefreshLost, Spend, Persist, PersistFails, NoteReconcile,
                      Goto, OthersKeep, Locked, Jobs, workVars
  <2>2. pc'[w] \notin {"idle", "mu"}
    BY <2>1 DEF Locked
  <2> QED
    BY <1>1, <2>1, <2>2, HoldsOwn, OthersHold
<1>4. CASE LockSession(w)
  <2>1. /\ OthersKeep(w) /\ mu' = mu /\ pc[w] = "lock" /\ pc'[w] = "resume" /\ job' = job
        /\ lock' = [lock EXCEPT ![job[w].did] = w] /\ job[w].did \in Dids
    BY <1>1, <1>4 DEF LockSession, Goto, OthersKeep
  <2>2. \A d \in Dids : lock'[d] = IF d = job[w].did THEN w ELSE lock[d]
    BY <1>1, <2>1
  <2> QED
    BY <2>1, <2>2, HoldsNone, OthersHold DEF Locked
<1>5. CASE Unlock(w)
  <2>1. /\ OthersKeep(w) /\ pc[w] \in Locked /\ job[w].did \in Dids
        /\ lock' = [lock EXCEPT ![job[w].did] = None]
        /\ \/ mu' = mu /\ pc'[w] = "pass"
           \/ mu' = mu /\ mu # w
           \/ mu' = IF mu = w THEN None ELSE mu
    BY <1>1, <1>5 DEF Unlock, Forget, Done, Goto, OthersKeep, Locked
  <2>2. \A d \in Dids : lock'[d] = None \/ (lock'[d] = lock[d] /\ lock[d] # w)
    BY <1>1, <2>1, HoldsOwn
  <2> QED
    BY <2>1, <2>2, OthersHold
<1> QED
  BY <1>2, <1>3, <1>4, <1>5 DEF Running

LEMMA InUseStep ==
  ASSUME SessionInv, InUse, [Next]_vars
  PROVE  InUse'
<1>1. ASSUME NEW w \in Workers, NEW d \in Dids, NEW label \in {"user", "pass", "mu"},
             Begin(w, d, label)
      PROVE  InUse'
  <2>1. /\ OthersKeep(w) /\ pc[w] = "idle" /\ lock' = lock /\ mu' = mu
    BY <1>1 DEF Begin, Goto, OthersKeep, SessionInv, TypeOK
  <2>2. mu = None \/ mu # w
    BY <2>1 DEF InUse, MutexInUse
  <2> QED
    BY <2>1, <2>2, HoldsNone, OthersHold DEF Locked
<1>2. ASSUME NEW w \in Rechecks, Recheck(w) PROVE InUse'
  BY <1>1, <1>2 DEF Recheck, SessionInv, TypeOK, Workers
<1>3. ASSUME NEW w \in Passes \cup Ticks, Reconcile(w) PROVE InUse'
  BY <1>1, <1>3 DEF Reconcile, Workers
<1>4. CASE Crash
  BY <1>4 DEF Crash, InUse, LocksInUse, MutexInUse
<1>5. CASE SignIn \/ Stall \/ Unstall \/ UNCHANGED vars
  <2>1. UNCHANGED workVars
    BY <1>5 DEF Stall, Unstall, SignIn, Login, Approve, StartCallback, Exchange, SignedIn, RefuseCallback, Logout,
                Grow, DeleteStaleAuthRequests, vars
  <2> QED
    BY <2>1 DEF workVars, InUse, LocksInUse, MutexInUse
<1> QED
  BY <1>2, <1>3, <1>4, <1>5, WorkersInUse DEF Next

\* No deadlock between the Reconciler's mutex and the session locks, for every
\* number of goroutines and accounts: whoever somebody waits for is not waiting
\* for that somebody, nor gone.
THEOREM NoDeadlock == Spec => []HoldersGetOn
<1>1. Init => InUse
  BY DEF Init, InUse, LocksInUse, MutexInUse
<1>2. SessionInv /\ InUse /\ [Next]_vars => InUse'
  BY InUseStep
<1>3. SessionInv /\ InUse => HoldersGetOn
  <2> SUFFICES ASSUME SessionInv, InUse, NEW w \in Workers
               PROVE  /\ pc[w] = "lock" /\ lock[job[w].did] # None =>
                          pc[lock[job[w].did]] \in Locked
                      /\ pc[w] = "mu" /\ mu # None => pc[mu] \notin {"idle", "mu"}
    BY DEF HoldersGetOn, Locked
  <2>1. pc[w] = "lock" => job[w].did \in Dids
    BY DEF SessionInv, TypeOK
  <2> QED
    BY <2>1 DEF InUse, LocksInUse, MutexInUse
<1> QED
  BY <1>1, <1>2, <1>3, SessionInvAlways, PTL DEF Spec

-----------------------------------------------------------------------------
(***************************************************************************)
(* The refinement of TokenChain.                                           *)
(***************************************************************************)
\* What the application holds of a session, without choosing who is saving it.
HeldNow == [s \in Flows |-> IF Saving(s) = {} THEN store[s] ELSE server[s]]

InStep == Held = HeldNow

LEMMA HeldIsHeldNow == SessionInv => InStep
<1> SUFFICES ASSUME SessionInv, NEW s \in Flows, Saving(s) # {}
             PROVE  job[CHOOSE w \in Saving(s) : TRUE].token = server[s]
  BY DEF InStep, Held, HeldNow
<1> DEFINE w == CHOOSE x \in Saving(s) : TRUE
<1>1. w \in Saving(s)
  OBVIOUS
<1> HIDE DEF w
<1>2. w \in Workers /\ pc[w] = "persist" /\ job[w].sid = s
  BY <1>1 DEF Saving
<1>3. job[w].token = server[s]
  BY <1>2 DEF SessionInv, Mine
<1> QED
  BY <1>3 DEF w

\* While a worker holds a session's lock and does not save it, nobody does.
LEMMA NobodySaves ==
  ASSUME SessionInv, NEW w \in Workers, pc[w] \in {"resume", "use"}
  PROVE  Saving(job[w].sid) = {}
  BY OneAtATime DEF Saving, Locked

\* A step in which nobody begins or ends saving and no token moves is no step of
\* the chain.
LEMMA QuietChain ==
  ASSUME \A w \in Workers : /\ pc'[w] = "persist" <=> pc[w] = "persist"
                            /\ pc[w] = "persist" => job'[w].sid = job[w].sid,
         UNCHANGED <<store, server, lost>>
  PROVE  HeldNow' = HeldNow
<1>1. \A s \in Flows : Saving(s)' = Saving(s)
  BY DEF Saving
<1> QED
  BY <1>1 DEF HeldNow

LEMMA ChainStep ==
  ASSUME SessionInv, SessionInv', InStep, InStep', [Next]_vars
  PROVE  [Chain!Next]_(Chain!vars)
<1> USE DEF Chain!vars, InStep
<1>1. ASSUME HeldNow' = HeldNow, UNCHANGED <<server, lost>> PROVE [Chain!Next]_(Chain!vars)
  BY <1>1
<1>2. ASSUME NEW b \in Browsers, Exchange(b) PROVE [Chain!Next]_(Chain!vars)
  <2> DEFINE f == callback[b]
  <2>1. f \in Flows /\ store[f] = 0 /\ server[f] = 0
    BY <1>2 DEF Exchange, SessionInv, TypeOK, Flowing
  <2>2. /\ store' = [store EXCEPT ![f] = 1] /\ server' = [server EXCEPT ![f] = 1]
        /\ lost' = lost /\ pc' = pc /\ job' = job
    BY <1>2 DEF Exchange, workVars
  <2> HIDE DEF f
  <2>3. \A s \in Flows : Saving(s)' = Saving(s)
    BY <2>2 DEF Saving
  <2>4. Saving(f) = {}
    BY <2>1 DEF Saving, SessionInv, Mine, Holding
  <2>5. HeldNow' = [HeldNow EXCEPT ![f] = 1]
    BY <2>1, <2>2, <2>3, <2>4 DEF HeldNow, SessionInv, TypeOK
  <2>6. Chain!Grant(f)
    BY <2>1, <2>2, <2>5 DEF Chain!Grant
  <2> QED
    BY <2>1, <2>6 DEF Chain!Next
<1>3. ASSUME NEW w \in Workers, NEW s \in Flows, job[w].sid = s, Refresh(w)
      PROVE  [Chain!Next]_(Chain!vars)
  <2>1. /\ pc[w] = "use" /\ job[w].token = server[s] /\ server[s] # 0 /\ server[s] \in Nat
        /\ s \notin lost => store[s] = server[s]
    BY <1>3 DEF Refresh, Spend, SessionInv, TypeOK, Flowing, Mine, Holding
  <2>2. /\ server' = [server EXCEPT ![s] = @ + 1] /\ store' = store /\ lost' = lost \ {s}
        /\ pc' = [pc EXCEPT ![w] = "persist"] /\ job' = [job EXCEPT ![w].token = @ + 1]
    BY <1>3 DEF Refresh, Spend, Goto
  <2>3. Saving(s) = {}
    BY <1>3, <2>1, NobodySaves
  <2>4. pc'[w] = "persist" /\ job'[w].sid = s
        /\ \A x \in Workers : x # w => pc'[x] = pc[x] /\ job'[x] = job[x]
    BY <1>3, <2>2 DEF SessionInv, TypeOK, Jobs
  <2>5. w \in Saving(s)' /\ \A r \in Flows : r # s => Saving(r)' = Saving(r)
    BY <1>3, <2>1, <2>4 DEF Saving
  <2>6. (s \notin lost => HeldNow[s] = server[s]) /\ HeldNow'[s] = server[s] + 1
    BY <2>1, <2>2, <2>3, <2>5 DEF HeldNow, SessionInv, TypeOK
  <2>7. \A r \in Flows : r # s => HeldNow'[r] = HeldNow[r]
    BY <2>1, <2>2, <2>5 DEF HeldNow, SessionInv, TypeOK
  <2>8. HeldNow' = [HeldNow EXCEPT ![s] = server[s] + 1]
    BY <2>1, <2>6, <2>7 DEF HeldNow
  <2>9. Chain!Refresh(s)
    BY <2>1, <2>2, <2>6, <2>8 DEF Chain!Refresh
  <2> QED
    BY <2>1, <2>9 DEF Chain!Next
<1>4. ASSUME NEW w \in Workers, NEW s \in Flows, job[w].sid = s, Persist(w)
      PROVE  [Chain!Next]_(Chain!vars)
  <2>1. /\ pc[w] = "persist" /\ job[w].token = server[s]
    BY <1>4 DEF Persist, SessionInv, TypeOK, Mine, Holding
  <2>2. /\ store' = [store EXCEPT ![s] = server[s]] /\ server' = server /\ lost' = lost
        /\ pc' = [pc EXCEPT ![w] = "use"] /\ job' = job
    BY <1>4, <2>1 DEF Persist, Goto
  <2>3. \A x \in Workers : x # w /\ pc[x] = "persist" => job[x].sid # s
    BY <1>4, <2>1, OneAtATime DEF Locked
  <2>4. pc'[w] = "use" /\ \A x \in Workers : x # w => pc'[x] = pc[x]
    BY <2>2 DEF SessionInv, TypeOK
  <2>5. w \in Saving(s) /\ Saving(s)' = {}
    BY <1>4, <2>1, <2>2, <2>3, <2>4 DEF Saving
  <2>6. \A r \in Flows : r # s => Saving(r)' = Saving(r)
    BY <1>4, <2>1, <2>2, <2>4 DEF Saving
  <2>7. HeldNow' = HeldNow
    BY <2>1, <2>2, <2>5, <2>6 DEF HeldNow, SessionInv, TypeOK
  <2> QED
    BY <1>1, <2>2, <2>7
<1>lose. ASSUME lost \subseteq lost', lost' \subseteq Flows,
                \A s \in Flows \ lost' : HeldNow'[s] = HeldNow[s] /\ server'[s] = server[s]
         PROVE  [Chain!Next]_(Chain!vars)
  <2>1. server' \in [Flows -> Nat] /\ HeldNow' \in [Flows -> Nat]
    BY DEF HeldNow, SessionInv, TypeOK
  <2>2. Chain!Lose
    BY <1>lose, <2>1 DEF Chain!Lose
  <2> QED
    BY <2>2 DEF Chain!Next
<1>5. ASSUME Crash PROVE [Chain!Next]_(Chain!vars)
  <2>1. server' = server /\ store' = store /\ lost \subseteq lost' /\ lost' \subseteq Flows
    BY <1>5 DEF Crash, SessionInv, TypeOK
  <2>2. \A s \in Flows \ lost' : Saving(s) = {}
    BY <1>5 DEF Crash, Saving
  <2>3. \A s \in Flows : Saving(s)' = {}
    BY <1>5 DEF Crash, Saving
  <2>4. \A s \in Flows \ lost' : HeldNow'[s] = HeldNow[s]
    BY <2>1, <2>2, <2>3 DEF HeldNow
  <2> QED
    BY <1>lose, <2>1, <2>4
<1>14. ASSUME NEW w \in Workers, RefreshLost(w) \/ PersistFails(w)
       PROVE  [Chain!Next]_(Chain!vars)
  <2> DEFINE s == job[w].sid
  <2>1. /\ lost' = lost \cup {s} /\ lost' \subseteq Flows /\ store' = store /\ job' = job
        /\ \A r \in Flows : r # s => server'[r] = server[r]
    BY <1>14, Spends DEF RefreshLost, PersistFails, SessionInv, TypeOK, workVars
  <2>2. \A x \in Workers : x # w => pc'[x] = pc[x]
    BY <1>14 DEF RefreshLost, PersistFails, Goto, SessionInv, TypeOK, workVars
  <2>3. \A r \in Flows : r # s => Saving(r)' = Saving(r)
    BY <2>1, <2>2 DEF Saving
  <2> HIDE DEF s
  <2>4. \A r \in Flows \ lost' : HeldNow'[r] = HeldNow[r] /\ server'[r] = server[r]
    BY <2>1, <2>3 DEF HeldNow
  <2> QED
    BY <1>lose, <2>1, <2>4
<1>6. ASSUME UNCHANGED <<store, server, lost, pc, job>> PROVE [Chain!Next]_(Chain!vars)
  BY <1>1, <1>6, QuietChain
<1>7. ASSUME NEW w \in Workers, OthersKeep(w), pc[w] # "persist", pc'[w] # "persist",
             UNCHANGED tokenVars
      PROVE  [Chain!Next]_(Chain!vars)
  BY <1>1, <1>7, QuietChain DEF OthersKeep, tokenVars
<1>8. ASSUME NEW w \in Workers,
             \/ \E d \in Dids, label \in {"user", "pass", "mu"} : Begin(w, d, label)
             \/ LockReconciler(w) \/ Publish(w) \/ NextWrite(w) \/ EndPass(w) \/ ReadUser(w)
             \/ LockSession(w) \/ Resume(w) \/ NoteReconcile(w) \/ Unlock(w)
      PROVE  [Chain!Next]_(Chain!vars)
  <2>1. pc \in [Workers -> Labels] /\ job \in [Workers -> Jobs]
    BY DEF SessionInv, TypeOK
  <2>2. OthersKeep(w) /\ pc[w] # "persist" /\ pc'[w] # "persist" /\ UNCHANGED tokenVars
    BY <1>8, <2>1 DEF Begin, LockReconciler, Publish, NextWrite, EndPass, ReadUser, LockSession, Resume,
                      NoteReconcile, Unlock, Forget, Done, Goto, OthersKeep
  <2> QED
    BY <1>7, <2>2
<1>9. ASSUME NEW w \in Rechecks, Recheck(w) PROVE [Chain!Next]_(Chain!vars)
  BY <1>8, <1>9 DEF Recheck, SessionInv, TypeOK, Workers
<1>10. ASSUME NEW w \in Passes \cup Ticks, Reconcile(w) PROVE [Chain!Next]_(Chain!vars)
  BY <1>8, <1>10 DEF Reconcile, Workers
<1>11. ASSUME SignIn, \A b \in Browsers : ~Exchange(b) PROVE [Chain!Next]_(Chain!vars)
  BY <1>6, <1>11 DEF SignIn, Login, Approve, StartCallback, SignedIn, RefuseCallback, Logout, Grow,
                     DeleteStaleAuthRequests, tokenVars, workVars
<1>12. ASSUME Stall \/ Unstall \/ UNCHANGED vars PROVE [Chain!Next]_(Chain!vars)
  BY <1>6, <1>12 DEF Stall, Unstall, vars, tokenVars, workVars
<1>13. ASSUME NEW w \in Workers, Refresh(w) \/ Persist(w) PROVE job[w].sid \in Flows
  BY <1>13 DEF Refresh, Spend, Persist, SessionInv, TypeOK, Holding
<1> QED
  BY <1>2, <1>3, <1>4, <1>5, <1>8, <1>9, <1>10, <1>11, <1>12, <1>13, <1>14 DEF Next, Running, SignIn

\* Every behaviour of the session layer is one of TokenChain: a refresh changes
\* what the server expects and what the application holds in one step, as far as
\* anyone can tell, for every number of workers; only a restart, a SaveSession that
\* fails or an answer that does not arrive takes them apart.
THEOREM SessionsImplementChain == Spec => TokensInStep
<1>1. Init => Chain!Init
  <2> SUFFICES ASSUME Init PROVE Chain!Init
    OBVIOUS
  <2>1. \A s \in Flows : Saving(s) = {}
    BY DEF Init, Saving
  <2>2. Held = store
    BY <2>1 DEF Held, Init
  <2>3. server \in [Flows -> Nat] /\ store = server /\ lost = {}
    BY DEF Init
  <2> QED
    BY <2>2, <2>3 DEF Chain!Init
<1>2. SessionInv' => InStep'
  BY HeldIsHeldNow, PTL
<1>3. SessionInv /\ SessionInv' /\ [Next]_vars => [Chain!Next]_(Chain!vars)
  BY <1>2, HeldIsHeldNow, ChainStep
<1> QED
  BY <1>1, <1>3, SessionInvAlways, PTL DEF Spec, TokensInStep, Chain!Spec

\* What TokenChain's own steps keep.
ChainInv ==
    /\ server \in [Flows -> Nat]
    /\ Held \in [Flows -> Nat]
    /\ Chain!InLine

LEMMA ChainInvStep ==
  ASSUME ChainInv, [Chain!Next]_(Chain!vars)
  PROVE  ChainInv'
<1> USE DEF ChainInv, Chain!InLine
<1>1. ASSUME NEW s \in Flows, Chain!Grant(s) PROVE ChainInv'
  BY <1>1 DEF Chain!Grant
<1>2. ASSUME NEW s \in Flows, Chain!Refresh(s) PROVE ChainInv'
  <2>1. server[s] + 1 \in Nat
    OBVIOUS
  <2> QED
    BY <1>2, <2>1 DEF Chain!Refresh
<1>3. CASE Chain!Lose
  BY <1>3 DEF Chain!Lose
<1>4. CASE UNCHANGED Chain!vars
  BY <1>4 DEF Chain!vars
<1> QED
  BY <1>1, <1>2, <1>3, <1>4 DEF Chain!Next

\* Whoever keeps TokenChain's promise holds, of every session that no fault has
\* cost its newest token, the one the authorization server expects.
THEOREM ChainKeepsInLine == Chain!Spec => []Chain!InLine
<1>1. Chain!Init => ChainInv
  BY DEF Chain!Init, ChainInv, Chain!InLine
<1>2. ChainInv /\ [Chain!Next]_(Chain!vars) => ChainInv'
  BY ChainInvStep
<1>3. ChainInv => Chain!InLine
  BY DEF ChainInv
<1> QED
  BY <1>1, <1>2, <1>3, PTL DEF Chain!Spec

\* So the session layer does, at every moment and not only when a token is about
\* to be presented: what is being saved, or else stored, is what is accepted.
THEOREM TokensInLine == Spec => []Chain!InLine
  BY SessionsImplementChain, ChainKeepsInLine, PTL DEF TokensInStep
=============================================================================
