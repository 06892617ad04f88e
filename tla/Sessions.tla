------------------------------ MODULE Sessions ------------------------------
(***************************************************************************)
(* Sign-in and the use of OAuth sessions (internal/api's OAuth handlers    *)
(* and recheck, internal/atsession, internal/authstore, internal/webauth): *)
(* how a browser becomes an account, and how every goroutine that acts on  *)
(* an account's PDS shares the one stored session without presenting a     *)
(* spent token and without waiting for itself.                             *)
(*                                                                         *)
(* A sign-in flow is known by its `state`; the session it ends in is given *)
(* the same name here.  A refresh token is its generation.                 *)
(***************************************************************************)
EXTENDS Naturals, FiniteSets

CONSTANTS
    Dids,       \* accounts
    Browsers,
    Flows,      \* sign-in flows, and the sessions they end in
    Rechecks,   \* HTTP requests that re-scan an account's claims
    Passes,     \* goroutines that call the shared Reconciler
    Ticks,      \* the Steam tick, with a Reconciler of its own, and the status sweep
    None,
    MaxWrites,  \* statuses that one pass writes or deletes
    MaxRefresh, \* bound on a session's refreshes
    MaxAge,     \* bound on a flow's age
    MaxFaults   \* bound on restarts, failed saves, lost answers and stalled clients

Workers == Rechecks \cup Passes \cup Ticks

\* oauthStateTTL and the age at which DeleteStaleAuthRequests drops a request,
\* in units of five minutes.
CookieTTL == 2
StaleAfter == 3

ASSUME NamesAssumption ==
    /\ None \notin Dids \cup Browsers \cup Flows \cup Workers
    /\ Rechecks \cap (Passes \cup Ticks) = {}
    /\ Passes \cap Ticks = {}

ASSUME BoundsAssumption ==
    /\ MaxWrites \in Nat
    /\ MaxRefresh \in Nat
    /\ MaxAge \in Nat
    /\ MaxFaults \in Nat

VARIABLES
    request,  \* flows with a row in oauth_auth_requests
    begun,    \* the browser each flow was started for
    age,      \* the time since
    grant,    \* the account that approved the flow at its PDS
    state,    \* gs_oauth_state: the flow each browser is bound to
    login,    \* gs_session: the account each browser is signed in as
    callback, \* the flow whose callback each browser has under way
    store,    \* oauth_sessions: the token generation stored, 0 for no row
    active,   \* users.active_session_id
    server,   \* the generation the authorization server accepts, 0 for none
    lost,     \* history: sessions whose newest token was not stored
    lock,     \* Resumer.locks: the holder of each account's session lock
    mu,       \* Reconciler.mu of the shared Reconciler
    pc,       \* what each worker does next
    job,      \* the account it works for, the session id it has read, its copy of
              \* the token, whether it owes a reconcile, and what its pass has left to write
    stalled,  \* Hub.mu: is it held over a write that a client does not take?
    faults

flowVars == <<request, begun, age, grant, state, login, callback>>
tokenVars == <<store, active, server, lost>>
workVars == <<lock, mu, pc, job>>
worldVars == <<stalled, faults>>
vars == <<flowVars, tokenVars, workVars, worldVars>>

\* Work for account d with n statuses to write, and no session yet.
Work(d, n) == [did |-> d, sid |-> None, token |-> 0, owes |-> FALSE, left |-> n]

NoJob == Work(None, 0)

Init ==
    /\ request = {}
    /\ begun = [f \in Flows |-> None]
    /\ age = [f \in Flows |-> 0]
    /\ grant = [f \in Flows |-> None]
    /\ state = [b \in Browsers |-> None]
    /\ login = [b \in Browsers |-> None]
    /\ callback = [b \in Browsers |-> None]
    /\ store = [f \in Flows |-> 0]
    /\ active = [d \in Dids |-> None]
    /\ server = [f \in Flows |-> 0]
    /\ lost = {}
    /\ lock = [d \in Dids |-> None]
    /\ mu = None
    /\ pc = [w \in Workers |-> "idle"]
    /\ job = [w \in Workers |-> NoJob]
    /\ stalled = FALSE
    /\ faults = 0

(***************************************************************************)
(* Sign-in.                                                                *)
(***************************************************************************)
\* Login: StartAuthFlow saves the request, whose `state` goes into the cookie.
Login(b, f) ==
    /\ begun[f] = None
    /\ request' = request \cup {f}
    /\ begun' = [begun EXCEPT ![f] = b]
    /\ state' = [state EXCEPT ![b] = f]
    /\ UNCHANGED <<age, grant, login, callback, tokenVars, workVars, worldVars>>

\* The user approves at the PDS, as whichever account they have there.
Approve(f, d) ==
    /\ begun[f] # None
    /\ grant[f] = None
    /\ grant' = [grant EXCEPT ![f] = d]
    /\ UNCHANGED <<request, begun, age, state, login, callback, tokenVars, workVars, worldVars>>

\* Mutant of Bound: any browser may follow the redirect.
BoundAnywhere(b, f) == age[f] <= CookieTTL

\* stateCookieMatches: the cookie names this flow, and has not expired.
Bound(b, f) == state[b] = f /\ age[f] <= CookieTTL

\* Callback, up to the token exchange; without the cookie it is a 400.
StartCallback(b, f) ==
    /\ grant[f] # None
    /\ callback[b] = None
    /\ Bound(b, f)
    /\ callback' = [callback EXCEPT ![b] = f]
    /\ UNCHANGED <<request, begun, age, grant, state, login, tokenVars, workVars, worldVars>>

\* ProcessCallback: the request's row, the token exchange, SaveSession, and the
\* row is deleted.
Exchange(b) ==
    LET f == callback[b]
    IN  /\ f \in request
        /\ request' = request \ {f}
        /\ store' = [store EXCEPT ![f] = 1]
        /\ server' = [server EXCEPT ![f] = 1]
        /\ UNCHANGED <<begun, age, grant, state, login, callback, active, lost, workVars, worldVars>>

\* Mutant of SignedIn: the session goes to whoever the browser was before.
SignedInAsBefore(b) ==
    LET f == callback[b]
        d == IF login[b] = None THEN grant[f] ELSE login[b]
    IN  /\ f \in Flows
        /\ store[f] # 0
        /\ active' = [active EXCEPT ![d] = f]
        /\ login' = [login EXCEPT ![b] = d]
        /\ state' = [state EXCEPT ![b] = None]
        /\ callback' = [callback EXCEPT ![b] = None]
        /\ age' = [age EXCEPT ![f] = 0]
        /\ UNCHANGED <<request, begun, grant, store, server, lost, workVars, worldVars>>

\* UpsertUser, SetActiveSession, and the response with both cookies.  Nothing looks
\* at the flow's age any more.
SignedIn(b) ==
    LET f == callback[b]
    IN  /\ f \in Flows
        /\ store[f] # 0
        /\ active' = [active EXCEPT ![grant[f]] = f]
        /\ login' = [login EXCEPT ![b] = grant[f]]
        /\ state' = [state EXCEPT ![b] = None]
        /\ callback' = [callback EXCEPT ![b] = None]
        /\ age' = [age EXCEPT ![f] = 0]
        /\ UNCHANGED <<request, begun, grant, store, server, lost, workVars, worldVars>>

\* The request is gone, the PDS refuses, or a write to the database fails.
RefuseCallback(b) ==
    LET f == callback[b]
    IN  /\ f \in Flows
        /\ state' = [state EXCEPT ![b] = None]
        /\ callback' = [callback EXCEPT ![b] = None]
        /\ UNCHANGED <<request, begun, age, grant, login, tokenVars, workVars, worldVars>>

\* Logout drops the cookie; the stored session stays, and is still synced with.
Logout(b) ==
    /\ login[b] # None
    /\ login' = [login EXCEPT ![b] = None]
    /\ UNCHANGED <<request, begun, age, grant, state, callback, tokenVars, workVars, worldVars>>

\* Only an open flow's age is ever looked at.
Grow(f) ==
    /\ f \in request \/ \E b \in Browsers : state[b] = f
    /\ age[f] < MaxAge
    /\ age' = [age EXCEPT ![f] = @ + 1]
    /\ UNCHANGED <<request, begun, grant, state, login, callback, tokenVars, workVars, worldVars>>

\* Mutant of Stale: requests go before their cookies do.
StaleEarly == {f \in request : age[f] >= CookieTTL}

Stale == {f \in request : age[f] > StaleAfter}

DeleteStaleAuthRequests ==
    /\ Stale # {}
    /\ request' = request \ Stale
    /\ UNCHANGED <<begun, age, grant, state, login, callback, tokenVars, workVars, worldVars>>

(***************************************************************************)
(* Workers.  `mu` and `lock` wait for a mutex; between them a worker that  *)
(* writes statuses reads the active session id anew for every write.       *)
(***************************************************************************)
Goto(w, label) == pc' = [pc EXCEPT ![w] = label]

Begin(w, d, label) ==
    /\ pc[w] = "idle"
    /\ Goto(w, label)
    /\ job' = [job EXCEPT ![w] = Work(d, IF label = "user" THEN 0 ELSE MaxWrites)]
    /\ UNCHANGED <<flowVars, tokenVars, lock, mu, worldVars>>

\* A signed-in browser asks for a recheck.
Recheck(w) == \E b \in Browsers : login[b] # None /\ Begin(w, login[b], "user")

\* An event, a request or a revocation makes a goroutine reconcile; the tick and
\* the sweep write with no mutex that another goroutine takes.
Reconcile(w) == \E d \in Dids : Begin(w, d, IF w \in Ticks THEN "pass" ELSE "mu")

Done(w) ==
    /\ Goto(w, "idle")
    /\ mu' = IF mu = w THEN None ELSE mu
    /\ job' = [job EXCEPT ![w] = NoJob]

\* mu.Lock, then ComputeDesired, whose failure ends the pass.
LockReconciler(w) ==
    /\ pc[w] = "mu"
    /\ mu = None
    /\ \/ mu' = w /\ Goto(w, "publish") /\ UNCHANGED job
       \/ Done(w)
    /\ UNCHANGED <<flowVars, tokenVars, lock, worldVars>>

\* Broadcaster.Publish waits for Hub.mu, and writes to the account's tabs under it:
\* reconcileTimeout is a deadline for neither.
Publish(w) ==
    /\ pc[w] = "publish"
    /\ ~stalled
    /\ Goto(w, "pass")
    /\ UNCHANGED <<flowVars, tokenVars, lock, mu, job, worldVars>>

\* A pass has one more status to write or delete.
NextWrite(w) ==
    /\ pc[w] = "pass"
    /\ job[w].left > 0
    /\ job' = [job EXCEPT ![w].left = @ - 1]
    /\ Goto(w, "user")
    /\ UNCHANGED <<flowVars, tokenVars, lock, mu, worldVars>>

\* A pass ends: nothing left to write, a failed write, or reconcileTimeout.
EndPass(w) ==
    /\ pc[w] = "pass"
    /\ Done(w)
    /\ UNCHANGED <<flowVars, tokenVars, lock, worldVars>>

\* Mutant of ReadUser: the missing session is not noticed.
ReadUserUnchecked(w) ==
    /\ pc[w] = "user"
    /\ Goto(w, "lock")
    /\ job' = [job EXCEPT ![w].sid = active[job[w].did]]
    /\ UNCHANGED <<flowVars, tokenVars, lock, mu, worldVars>>

\* withClient and discoverFor read users.active_session_id before they wait.
ReadUser(w) ==
    LET s == active[job[w].did]
    IN  /\ pc[w] = "user"
        /\ IF s = None
           THEN Done(w)
           ELSE Goto(w, "lock") /\ job' = [job EXCEPT ![w].sid = s] /\ UNCHANGED mu
        /\ UNCHANGED <<flowVars, tokenVars, lock, worldVars>>

\* Mutant of LockSession: nobody waits.
LockAtOnce(w) ==
    /\ pc[w] = "lock"
    /\ lock' = [lock EXCEPT ![job[w].did] = w]
    /\ Goto(w, "resume")
    /\ UNCHANGED <<flowVars, tokenVars, mu, job, worldVars>>

LockSession(w) ==
    /\ pc[w] = "lock"
    /\ lock[job[w].did] = None
    /\ lock' = [lock EXCEPT ![job[w].did] = w]
    /\ Goto(w, "resume")
    /\ UNCHANGED <<flowVars, tokenVars, mu, job, worldVars>>

\* ResumeSession builds a fresh ClientSession from the stored row.
Resume(w) ==
    /\ pc[w] = "resume"
    /\ job' = [job EXCEPT ![w].token = store[job[w].sid]]
    /\ Goto(w, "use")
    /\ UNCHANGED <<flowVars, tokenVars, lock, mu, worldVars>>

\* Mutant of Refresh: the new token is not kept.
RefreshUnsaved(w) ==
    LET s == job[w].sid
    IN  /\ pc[w] = "use"
        /\ job[w].token = server[s]
        /\ server[s] <= MaxRefresh
        /\ server' = [server EXCEPT ![s] = @ + 1]
        /\ UNCHANGED <<flowVars, store, active, lost, workVars, worldVars>>

\* The refresh token is spent at the authorization server.
Spend(w) ==
    LET s == job[w].sid
    IN  /\ pc[w] = "use"
        /\ job[w].token = server[s]
        /\ server[s] <= MaxRefresh
        /\ server' = [server EXCEPT ![s] = @ + 1]

Fault ==
    /\ faults < MaxFaults
    /\ faults' = faults + 1

\* The access token has expired: the refresh token is spent on a new pair.
Refresh(w) ==
    /\ Spend(w)
    /\ job' = [job EXCEPT ![w].token = @ + 1]
    /\ lost' = lost \ {job[w].sid}
    /\ Goto(w, "persist")
    /\ UNCHANGED <<flowVars, store, active, lock, mu, worldVars>>

\* The same, but the context ends before the answer is there.
RefreshLost(w) ==
    /\ Spend(w)
    /\ Fault
    /\ lost' = lost \cup {job[w].sid}
    /\ UNCHANGED <<flowVars, store, active, workVars, stalled>>

\* SaveSession.
Persist(w) ==
    /\ pc[w] = "persist"
    /\ store' = [store EXCEPT ![job[w].sid] = job[w].token]
    /\ Goto(w, "use")
    /\ UNCHANGED <<flowVars, active, server, lost, lock, mu, job, worldVars>>

\* SaveSession fails, on the database or an ended context: the worker goes on with
\* the new pair, which nobody saves again.
PersistFails(w) ==
    /\ pc[w] = "persist"
    /\ Fault
    /\ lost' = lost \cup {job[w].sid}
    /\ Goto(w, "use")
    /\ UNCHANGED <<flowVars, store, active, server, lock, mu, job, stalled>>

\* Discover invalidates a claim: deferredReconcile only notes it.
NoteReconcile(w) ==
    /\ w \in Rechecks
    /\ mu # w
    /\ pc[w] = "use"
    /\ job' = [job EXCEPT ![w].owes = TRUE]
    /\ UNCHANGED <<flowVars, tokenVars, lock, mu, pc, worldVars>>

Forget(w, left) == job' = [job EXCEPT ![w] = Work(job[w].did, left)]

\* Mutant of Unlock: Discover reconciles inside the session it was given.
UnlockAfterFlush(w) ==
    /\ pc[w] \in {"resume", "use"}
    /\ IF job[w].owes
       THEN /\ Goto(w, "mu")
            /\ job' = [job EXCEPT ![w].owes = FALSE, ![w].left = MaxWrites]
            /\ UNCHANGED <<lock, mu>>
       ELSE /\ lock' = [lock EXCEPT ![job[w].did] = None]
            /\ IF w \in Rechecks /\ mu # w
               THEN Done(w)
               ELSE Goto(w, "pass") /\ Forget(w, job[w].left) /\ UNCHANGED mu
    /\ UNCHANGED <<flowVars, tokenVars, worldVars>>

\* The session could not be resumed, or fn returns, with an error or not: the
\* lock is released; a recheck flushes its deferred reconcile, a pass goes on.
Unlock(w) ==
    /\ pc[w] \in {"resume", "use"}
    /\ lock' = [lock EXCEPT ![job[w].did] = None]
    /\ IF w \notin Rechecks \/ mu = w
       THEN Goto(w, "pass") /\ Forget(w, job[w].left) /\ UNCHANGED mu
       ELSE IF job[w].owes
       THEN Goto(w, "mu") /\ Forget(w, MaxWrites) /\ UNCHANGED mu
       ELSE Done(w)
    /\ UNCHANGED <<flowVars, tokenVars, worldVars>>

\* The process restarts: what was not stored is gone.
Crash ==
    /\ Fault
    /\ lost' = lost \cup {job[w].sid : w \in {v \in Workers : pc[v] = "persist"}}
    /\ callback' = [b \in Browsers |-> None]
    /\ lock' = [d \in Dids |-> None]
    /\ mu' = None
    /\ pc' = [w \in Workers |-> "idle"]
    /\ job' = [w \in Workers |-> NoJob]
    /\ stalled' = FALSE
    /\ UNCHANGED <<request, begun, age, grant, state, login, store, active, server>>

\* A client stops reading, or goes on; nothing makes it.
Stall ==
    /\ ~stalled
    /\ Fault
    /\ stalled' = TRUE
    /\ UNCHANGED <<flowVars, tokenVars, workVars>>

Unstall ==
    /\ stalled
    /\ stalled' = FALSE
    /\ UNCHANGED <<flowVars, tokenVars, workVars, faults>>

SignIn ==
    \/ \E b \in Browsers, f \in Flows : Login(b, f) \/ StartCallback(b, f)
    \/ \E b \in Browsers : Exchange(b) \/ SignedIn(b) \/ RefuseCallback(b) \/ Logout(b)
    \/ \E f \in Flows, d \in Dids : Approve(f, d)
    \/ \E f \in Flows : Grow(f)
    \/ DeleteStaleAuthRequests

\* What a worker does once begun, other than wait for a mutex.
Running(w) ==
    \/ NextWrite(w) \/ EndPass(w) \/ ReadUser(w) \/ Resume(w) \/ Refresh(w) \/ RefreshLost(w)
    \/ Persist(w) \/ PersistFails(w) \/ NoteReconcile(w) \/ Unlock(w)

Next ==
    \/ SignIn
    \/ \E w \in Rechecks : Recheck(w)
    \/ \E w \in Passes \cup Ticks : Reconcile(w)
    \/ \E w \in Workers : Running(w) \/ LockReconciler(w) \/ Publish(w) \/ LockSession(w)
    \/ Crash \/ Stall \/ Unstall

Spec == Init /\ [][Next]_vars

(***************************************************************************)
(* Properties.                                                             *)
(***************************************************************************)
Labels == {"idle", "mu", "publish", "pass", "user", "lock", "resume", "use", "persist"}

\* Where a worker has a session id: waiting for the session lock, or holding it.
Holding == {"lock", "resume", "use", "persist"}

Jobs == [did : Dids \cup {None}, sid : Flows \cup {None}, token : Nat, owes : BOOLEAN,
         left : 0..MaxWrites]

\* Every variable keeps its shape.
TypeOK ==
    /\ request \in SUBSET Flows
    /\ begun \in [Flows -> Browsers \cup {None}]
    /\ age \in [Flows -> 0..MaxAge]
    /\ grant \in [Flows -> Dids \cup {None}]
    /\ state \in [Browsers -> Flows \cup {None}]
    /\ login \in [Browsers -> Dids \cup {None}]
    /\ callback \in [Browsers -> Flows \cup {None}]
    /\ store \in [Flows -> Nat]
    /\ active \in [Dids -> Flows \cup {None}]
    /\ server \in [Flows -> Nat]
    /\ lost \in SUBSET Flows
    /\ lock \in [Dids -> Workers \cup {None}]
    /\ mu \in Workers \cup {None}
    /\ pc \in [Workers -> Labels]
    /\ job \in [Workers -> Jobs]
    /\ \A w \in Workers :
        /\ pc[w] # "idle" => job[w].did \in Dids
        /\ pc[w] \in Holding => job[w].sid \in Flows
    /\ stalled \in BOOLEAN
    /\ faults \in 0..MaxFaults

\* A token that is about to be presented is the one the server expects: two
\* workers never resume one account's session at once, not even through two
\* session ids (what Resumer's per-DID lock is for).  Only an answer that does not
\* arrive, a SaveSession that fails and a restart before it can lose it, and only
\* the worker that still has the new pair can make up for that.
TokenFresh ==
    \A w \in Workers :
        pc[w] = "use" /\ job[w].sid \notin lost => job[w].token = server[job[w].sid]

\* A worker writes to an account only with a session that account approved and
\* that is stored, whatever signs in while it waits for the lock.
OwnSession ==
    \A w \in Workers :
        pc[w] \in Holding =>
            /\ grant[job[w].sid] = job[w].did
            /\ store[job[w].sid] # 0

\* A browser is signed in as an account only by a flow it began itself and that
\* the account approved (the reason Login binds the flow to a cookie).
BrowserBound ==
    \A b \in Browsers : login[b] # None =>
        \E f \in Flows : begun[f] = b /\ grant[f] = login[b]

\* As long as a browser's cookie for an unfinished flow is valid, its request
\* has not been swept away: oauthStateTTL runs out before the sweep's cut-off.
RequestOutlivesCookie ==
    \A b \in Browsers, f \in Flows :
        state[b] = f /\ age[f] <= CookieTTL /\ store[f] = 0 => f \in request

\* Whoever is waited for gets on: the holder of a session lock waits for nothing,
\* and the holder of the Reconciler's mutex for nothing but Hub.mu or a session
\* lock.  A chain of waiting goroutines so ends in one that runs or in a client that
\* does not read, and a mutex is never still held by one that has returned (why
\* Discover's reconcile is deferred until WithSession has returned, and no callback
\* calls WithSession again).
HoldersGetOn ==
    \A w \in Workers :
        /\ pc[w] = "lock" /\ lock[job[w].did] # None =>
            pc[lock[job[w].did]] \in {"resume", "use", "persist"}
        /\ pc[w] = "mu" /\ mu # None => pc[mu] \notin {"idle", "mu"}

(***************************************************************************)
(* The per-DID lock implements TokenChain: what the application holds of a *)
(* session is the copy that is being saved, if there is one, and else what *)
(* is stored.                                                              *)
(***************************************************************************)
Saving(s) == {w \in Workers : pc[w] = "persist" /\ job[w].sid = s}

Held == [s \in Flows |-> IF Saving(s) = {} THEN store[s]
                         ELSE job[CHOOSE w \in Saving(s) : TRUE].token]

Chain == INSTANCE TokenChain WITH Sids <- Flows, held <- Held

\* Every step of the session layer is a step of TokenChain, or none.
TokensInStep == Chain!Spec

(***************************************************************************)
(* Fairness.  A worker that has begun runs on: a pass has finitely many    *)
(* statuses to write, requests to a PDS are answered or fail, and Go's     *)
(* mutexes hand themselves to the longest waiter.  Nothing makes anyone    *)
(* sign in or begin, and nothing makes a client read.                      *)
(***************************************************************************)
Fairness ==
    \A w \in Workers :
        /\ WF_vars(Running(w))
        /\ SF_vars(LockReconciler(w) \/ Publish(w) \/ LockSession(w))

FairSpec == Spec /\ Fairness

\* As long as every client that stops reading its socket reads on or is cut off in
\* the end, nobody waits for ever, above all not for itself: a recheck whose Discover
\* wants a reconcile has released the session lock before it takes the
\* Reconciler's mutex, which a pass holds while it waits for that lock.
EveryoneReturns ==
    []<>~stalled => \A w \in Workers : []<>(pc[w] = "idle")
=============================================================================
