----------------------------- MODULE ClaimWatch -----------------------------
(***************************************************************************)
(* How one account's Discord claim is kept in step with the claim records  *)
(* in its repository and with the members of the tracking guild: the       *)
(* Jetstream listener and its manager (internal/jetstream), a user's       *)
(* recheck and the daily sweep (internal/claims), the member cache and the *)
(* resolver (internal/discord).  Each of them reads, asks the network, and *)
(* then writes the one row of the claims table, beside the others.         *)
(*                                                                         *)
(* A record is what its content comes down to: the name it attests with a  *)
(* signature that verifies; "verified" with a signature that does not;     *)
(* nothing to be sure of, at any time (its signing key cannot be fetched   *)
(* or parsed, or it does not unmarshal); or gone, be it deleted or with    *)
(* another status.  Steam claims take the same path with nothing to        *)
(* resolve.                                                                *)
(***************************************************************************)
EXTENDS Naturals, Sequences

CONSTANTS
    Rkeys,      \* record keys of dev.keytrace.claim records
    Users,      \* Discord snowflakes
    Names,      \* Discord usernames
    Gone, Forged, Unsure, None,
    Listeners, Rechecks, Sweepers, Leavers, Enables,   \* goroutines, by what they run
    First,      \* the listener that main starts
    InitNames,  \* who is in the guild at first, under which name
    MaxCommits, \* bound on commits to the repository
    MaxMoves,   \* bound on what users do at Discord
    MaxAsked,   \* bound on requests that enable the source or restart the watch
    MaxFaults   \* bound on errors, lost connections and restarts

Workers == Listeners \cup Rechecks \cup Sweepers \cup Leavers \cup Enables

Contents == Names \cup {Gone, Forged, Unsure}

ASSUME NamesAssumption ==
    /\ None \notin Rkeys \cup Users \cup Contents \cup Workers
    /\ Names \cap {Gone, Forged, Unsure} = {}
    /\ InitNames \in [Users -> Names \cup {None}]
    /\ First \in Listeners

VARIABLES
    log,      \* the commits to the repository: what was put at which key
    conn,     \* each listener's connection: "off", "up" or "down"
    at,       \* the commit it will be sent next
    cursor,   \* Listener.cursorUS: the last commit it has finished with, 0 for none
    seen,     \* history: the commits its handler was given
    current,  \* Manager.current
    closing,  \* the listener Restart is waiting for
    row,      \* the claims row: the record it rests on, the snowflake, and the
              \* name (history: the table has the display name) it was verified for
    on,       \* sync_prefs.enabled
    name,     \* the guild's members and their names, as Discord has them
    cache,    \* MemberCache.username
    held,     \* history: the names each user has had
    pc, job,  \* what each goroutine does next, and what it works on
    asked,    \* how often a request has enabled the source or restarted the watch
    moves, faults

netVars == <<conn, at, cursor, seen, current, closing>>
guildVars == <<name, cache, held, moves>>
workVars == <<pc, job>>
vars == <<log, netVars, row, on, guildVars, workVars, asked, faults>>

NoClaim == [k |-> None, user |-> None, n |-> None]
NoJob == [k |-> None, n |-> None, user |-> None]

Init ==
    /\ log = <<>>
    /\ conn = [l \in Listeners |-> IF l = First THEN "up" ELSE "off"]
    /\ at = [l \in Listeners |-> 1]
    /\ cursor = [l \in Listeners |-> 0]
    /\ seen = [l \in Listeners |-> {}]
    /\ current = First
    /\ closing = None
    /\ row = NoClaim
    /\ on = FALSE
    /\ name = InitNames
    /\ cache = [u \in Users |-> None]
    /\ held = {m \in Users \X Names : name[m[1]] = m[2]}
    /\ pc = [w \in Workers |-> "idle"]
    /\ job = [w \in Workers |-> NoJob]
    /\ asked = 0
    /\ moves = 0
    /\ faults = 0

(***************************************************************************)
(* The user's repository and the guild.                                    *)
(***************************************************************************)
\* What is at key k: the last commit says.
Record(k) ==
    LET here == {i \in DOMAIN log : log[i].k = k}
    IN  IF here = {} THEN Gone ELSE log[CHOOSE i \in here : \A j \in here : j <= i].n

Commit(k, n) ==
    /\ Len(log) < MaxCommits
    /\ n # Record(k)
    /\ log' = Append(log, [k |-> k, n |-> n])
    /\ UNCHANGED <<netVars, row, on, guildVars, workVars, asked, faults>>

\* A user joins the guild, is renamed, or leaves; a name has one user at a time.
Move(u, n) ==
    /\ moves < MaxMoves
    /\ n # name[u]
    /\ n = None \/ \A v \in Users : name[v] # n
    /\ name' = [name EXCEPT ![u] = n]
    /\ held' = IF n = None THEN held ELSE held \cup {<<u, n>>}
    /\ moves' = moves + 1
    /\ UNCHANGED <<log, netVars, row, on, cache, workVars, asked, faults>>

\* A member of a GuildCreate's list, a GuildMemberAdd or a GuildMemberUpdate.
SetMember(u) ==
    /\ name[u] # None
    /\ cache[u] # name[u]
    /\ cache' = [cache EXCEPT ![u] = name[u]]
    /\ UNCHANGED <<log, netVars, row, on, name, held, moves, workVars, asked, faults>>

\* GuildMemberRemove: out of the cache, and HandleGuildMemberRemove.
RemoveMember(w, u) ==
    /\ pc[w] = "idle"
    /\ name[u] = None
    /\ cache[u] # None
    /\ cache' = [cache EXCEPT ![u] = None]
    /\ pc' = [pc EXCEPT ![w] = "match"]
    /\ job' = [job EXCEPT ![w].user = u]
    /\ UNCHANGED <<log, netVars, row, on, name, held, moves, asked, faults>>

(***************************************************************************)
(* Jetstream connections.                                                  *)
(***************************************************************************)
Goto(w, label) == pc' = [pc EXCEPT ![w] = label]

Finish(w) == Goto(w, "idle") /\ job' = [job EXCEPT ![w] = NoJob]

\* A listener's fresh connection starts with the next commit.
Connect(l) ==
    /\ conn' = [conn EXCEPT ![l] = "up"]
    /\ at' = [at EXCEPT ![l] = Len(log) + 1]
    /\ UNCHANGED <<cursor, seen>>

\* readLoop and HandleEvent's first steps.  The cursor moves past the commit when
\* the handler is done, failed or not; this goroutine does not look at it before.
ReadEvent(l) ==
    /\ conn[l] = "up"
    /\ pc[l] = "idle"
    /\ at[l] <= Len(log)
    /\ LET ev == log[at[l]]
       IN  /\ Goto(l, IF ev.n = Gone THEN "match" ELSE "verify")
           /\ job' = [job EXCEPT ![l] = [k |-> ev.k, n |-> ev.n, user |-> None]]
    /\ at' = [at EXCEPT ![l] = @ + 1]
    /\ cursor' = [cursor EXCEPT ![l] = at[l]]
    /\ seen' = [seen EXCEPT ![l] = @ \cup {at[l]}]
    /\ UNCHANGED <<log, conn, current, closing, row, on, guildVars, asked, faults>>

\* The connection dies, and with it what was sent and not yet read.
Lose(l) ==
    /\ faults < MaxFaults
    /\ conn[l] = "up"
    /\ pc[l] = "idle"
    /\ conn' = [conn EXCEPT ![l] = "down"]
    /\ faults' = faults + 1
    /\ UNCHANGED <<log, at, cursor, seen, current, closing, row, on, guildVars, workVars, asked>>

\* Mutant of Redial: the cursor is not sent.
RedialLive(l) ==
    /\ conn[l] = "down"
    /\ l # closing
    /\ conn' = [conn EXCEPT ![l] = "up"]
    /\ at' = [at EXCEPT ![l] = Len(log) + 1]
    /\ UNCHANGED <<log, cursor, seen, current, closing, row, on, guildVars, workVars, asked, faults>>

\* Jetstream replays from the cursor on; without one it sends what comes next.
Redial(l) ==
    /\ conn[l] = "down"
    /\ l # closing
    /\ conn' = [conn EXCEPT ![l] = "up"]
    /\ at' = [at EXCEPT ![l] = IF cursor[l] > 0 THEN cursor[l] ELSE Len(log) + 1]
    /\ UNCHANGED <<log, cursor, seen, current, closing, row, on, guildVars, workVars, asked, faults>>

\* Mutant of Restart: the old connection is closed first, and dialling may fail.
RestartClosed(l) ==
    /\ asked < MaxAsked
    /\ asked' = asked + 1
    /\ closing = None
    /\ l # current
    /\ conn[l] = "off"
    /\ closing' = current
    /\ \/ Connect(l) /\ current' = l
       \/ UNCHANGED <<conn, at, cursor, seen, current>>
    /\ UNCHANGED <<log, row, on, guildVars, workVars, faults>>

\* Mutant of Restart: the old listener is not cancelled.
RestartBeside(l) ==
    /\ asked < MaxAsked
    /\ asked' = asked + 1
    /\ closing = None
    /\ l # current
    /\ conn[l] = "off"
    /\ Connect(l)
    /\ current' = l
    /\ UNCHANGED <<log, closing, row, on, guildVars, workVars, faults>>

\* Manager.Restart under its mutex: the new connection, then the old listener is
\* cancelled.
Restart(l) ==
    /\ asked < MaxAsked
    /\ asked' = asked + 1
    /\ closing = None
    /\ l # current
    /\ conn[l] = "off"
    /\ Connect(l)
    /\ current' = l
    /\ closing' = current
    /\ UNCHANGED <<log, row, on, guildVars, workVars, faults>>

\* listDIDs or the dial fails: the old listener stays, and nobody asks again.
RestartFails ==
    /\ asked < MaxAsked
    /\ asked' = asked + 1
    /\ closing = None
    /\ UNCHANGED <<log, netVars, row, on, guildVars, workVars, faults>>

\* The cancelled listener returns, once its handler has, and so does Close.
Exit(l) ==
    /\ closing = l
    /\ pc[l] = "idle"
    /\ conn' = [conn EXCEPT ![l] = "off"]
    /\ at' = [at EXCEPT ![l] = 1]
    /\ cursor' = [cursor EXCEPT ![l] = 0]
    /\ seen' = [seen EXCEPT ![l] = {}]
    /\ closing' = None
    /\ UNCHANGED <<log, current, row, on, guildVars, workVars, asked, faults>>

(***************************************************************************)
(* Requests and the sweep.                                                 *)
(***************************************************************************)
\* Discover has listed the collection and verified the records: the first that
\* verifies, if there is one.  A record that does not unmarshal is passed over; a
\* signing key that cannot be had ends Discover before it has changed anything.
Discover(w) ==
    /\ pc[w] = "idle"
    /\ IF \A k \in Rkeys : Record(k) \notin Names
       THEN Goto(w, "drop") /\ UNCHANGED job
       ELSE \E k \in Rkeys :
            /\ Record(k) \in Names
            /\ Goto(w, "resolve")
            /\ job' = [job EXCEPT ![w] = [k |-> k, n |-> Record(k), user |-> None]]
    /\ UNCHANGED <<log, netVars, row, on, guildVars, asked, faults>>

\* RunSweep looks at enabled accounts that have a claim.
SweepClaim(w) ==
    /\ pc[w] = "idle"
    /\ on
    /\ row # NoClaim
    /\ Goto(w, "fetch")
    /\ job' = [job EXCEPT ![w] = [k |-> row.k, n |-> None, user |-> row.user]]
    /\ UNCHANGED <<log, netVars, row, on, guildVars, asked, faults>>

\* FetchClaimRecord: a record that is gone means the claim is invalidated.
Fetch(w) ==
    /\ pc[w] = "fetch"
    /\ job' = [job EXCEPT ![w].n = Record(job[w].k)]
    /\ Goto(w, IF Record(job[w].k) = Gone THEN "drop" ELSE "verify")
    /\ UNCHANGED <<log, netVars, row, on, guildVars, asked, faults>>

\* SetEnabled: turning a source on takes a claim, looked up beforehand.
EnableRequest(w) ==
    /\ asked < MaxAsked
    /\ pc[w] = "idle"
    /\ row # NoClaim
    /\ Goto(w, "enable")
    /\ asked' = asked + 1
    /\ UNCHANGED <<log, netVars, row, on, guildVars, job, faults>>

SetOn(w) ==
    /\ pc[w] = "enable"
    /\ on' = TRUE
    /\ Finish(w)
    /\ UNCHANGED <<log, netVars, row, guildVars, asked, faults>>

DisableRequest ==
    /\ on
    /\ on' = FALSE
    /\ UNCHANGED <<log, netVars, row, guildVars, workVars, asked, faults>>

(***************************************************************************)
(* The steps that listeners, rechecks and the sweep have in common.        *)
(***************************************************************************)
Verified(w) == IF w \in Sweepers THEN "confirm" ELSE "resolve"

\* Mutant of Verify: the sweep leaves alone what does not verify, as listeners do.
VerifyLeaves(w) ==
    /\ pc[w] = "verify"
    /\ IF job[w].n \in Names THEN Goto(w, Verified(w)) /\ UNCHANGED job ELSE Finish(w)
    /\ UNCHANGED <<log, netVars, row, on, guildVars, asked, faults>>

\* VerifyAttestation says yes, no, or that it cannot tell.  A listener leaves alone
\* what does not verify, the sweep invalidates it; neither acts on what is unsure.
Verify(w) ==
    /\ pc[w] = "verify"
    /\ \/ /\ job[w].n \in Names
          /\ Goto(w, Verified(w))
          /\ UNCHANGED job
       \/ /\ job[w].n = Forged
          /\ w \in Sweepers
          /\ Goto(w, "drop")
          /\ UNCHANGED job
       \/ /\ job[w].n \notin Names
          /\ job[w].n = Unsure \/ w \notin Sweepers
          /\ Finish(w)
    /\ UNCHANGED <<log, netVars, row, on, guildVars, asked, faults>>

\* The row that a listener or Discover goes by; the sweep has read it already.
LookUp(w) ==
    /\ pc[w] = "resolve"
    /\ Goto(w, "confirm")
    /\ job' = [job EXCEPT ![w].user = row.user]
    /\ UNCHANGED <<log, netVars, row, on, guildVars, asked, faults>>

\* Mutant of Confirmed: any member will do.
ConfirmedMember(u, n) == cache[u] # None

\* ConfirmDiscordSubject, of a snowflake already bound.
Confirmed(u, n) == cache[u] = n

\* Mutant of Resolvable: a name nobody has is bound all the same.
ResolvableOrNone(n) == {u \in Users \cup {None} : u = None \/ cache[u] = n}

\* ResolveDiscordSubject: the members whom a claim's signed name can mean.
Resolvable(n) == {u \in Users : cache[u] = n}

\* A snowflake for the claim: the one of the row read beforehand if it is
\* confirmed, a member of that name if there was no row.
Resolve(w) ==
    LET existing == job[w].user
    IN  /\ pc[w] = "confirm"
        /\ \/ /\ existing # None
              /\ Confirmed(existing, job[w].n)
              /\ Goto(w, "upsert")
              /\ UNCHANGED job
           \/ /\ existing # None
              /\ ~Confirmed(existing, job[w].n)
              /\ Goto(w, IF w \in Listeners THEN "match" ELSE "drop")
              /\ UNCHANGED job
           \/ /\ existing = None
              /\ \E u \in Resolvable(job[w].n) : job' = [job EXCEPT ![w].user = u]
              /\ Goto(w, "upsert")
           \/ /\ existing = None
              /\ Resolvable(job[w].n) = {}
              /\ Finish(w)
        /\ UNCHANGED <<log, netVars, row, on, guildVars, asked, faults>>

UpsertClaim(w) ==
    /\ pc[w] = "upsert"
    /\ row' = [k |-> job[w].k, user |-> job[w].user, n |-> job[w].n]
    /\ Finish(w)
    /\ UNCHANGED <<log, netVars, on, guildVars, asked, faults>>

\* invalidateIfTrackedType reads the claim and compares its record's URI,
\* findClaimByDiscordID looks for the one bound to the snowflake.
Match(w) ==
    LET ours == IF w \in Leavers THEN row.user = job[w].user ELSE row.k = job[w].k
    IN  /\ pc[w] = "match"
        /\ IF ours THEN Goto(w, "drop") /\ UNCHANGED job ELSE Finish(w)
        /\ UNCHANGED <<log, netVars, row, on, guildVars, asked, faults>>

\* InvalidateClaim: DeleteClaim, then SetEnabled; what it does to the session and
\* to the collection is in StatusSync.
DeleteClaim(w) ==
    /\ pc[w] = "drop"
    /\ row' = NoClaim
    /\ Goto(w, "unset")
    /\ UNCHANGED <<log, netVars, on, guildVars, job, asked, faults>>

UnsetEnabled(w) ==
    /\ pc[w] = "unset"
    /\ on' = FALSE
    /\ Finish(w)
    /\ UNCHANGED <<log, netVars, row, guildVars, asked, faults>>

\* A request, a statement, the signing key's fetch or handlerTimeout fails: the
\* goroutine returns with an error, or goes on to what comes next.
Fail(w) ==
    /\ faults < MaxFaults
    /\ pc[w] # "idle"
    /\ Finish(w)
    /\ faults' = faults + 1
    /\ UNCHANGED <<log, netVars, row, on, guildVars, asked>>

\* A restart: cursors are not persisted, the member cache starts empty.
Crash ==
    /\ faults < MaxFaults
    /\ faults' = faults + 1
    /\ conn' = [l \in Listeners |-> IF l = First THEN "up" ELSE "off"]
    /\ at' = [l \in Listeners |-> IF l = First THEN Len(log) + 1 ELSE 1]
    /\ cursor' = [l \in Listeners |-> 0]
    /\ seen' = [l \in Listeners |-> {}]
    /\ current' = First
    /\ closing' = None
    /\ cache' = [u \in Users |-> None]
    /\ pc' = [w \in Workers |-> "idle"]
    /\ job' = [w \in Workers |-> NoJob]
    /\ UNCHANGED <<log, row, on, name, held, moves, asked>>

World ==
    \/ \E k \in Rkeys, n \in Contents : Commit(k, n)
    \/ \E u \in Users, n \in Names \cup {None} : Move(u, n)
    \/ \E u \in Users : SetMember(u)
    \/ \E w \in Leavers, u \in Users : RemoveMember(w, u)
    \/ DisableRequest

Listening ==
    \/ \E l \in Listeners : ReadEvent(l) \/ Lose(l) \/ Redial(l) \/ Restart(l) \/ Exit(l)
    \/ RestartFails

Begins ==
    \/ \E w \in Rechecks : Discover(w)
    \/ \E w \in Sweepers : SweepClaim(w)
    \/ \E w \in Enables : EnableRequest(w)

\* What a goroutine that has begun does next.
Step(w) ==
    \/ Fetch(w) \/ SetOn(w) \/ Verify(w) \/ LookUp(w) \/ Resolve(w) \/ UpsertClaim(w)
    \/ Match(w) \/ DeleteClaim(w) \/ UnsetEnabled(w)

Next ==
    \/ World \/ Listening \/ Begins
    \/ \E w \in Workers : Step(w) \/ Fail(w)
    \/ Crash

Spec == Init /\ [][Next]_vars

(***************************************************************************)
(* Properties.                                                             *)
(***************************************************************************)
Labels ==
    {"idle", "fetch", "enable", "verify", "resolve", "confirm", "upsert", "match", "drop", "unset"}

Jobs == [k : Rkeys \cup {None}, n : Contents \cup {None}, user : Users \cup {None}]

\* Every variable keeps its shape.
TypeOK ==
    /\ log \in Seq([k : Rkeys, n : Contents])
    /\ conn \in [Listeners -> {"off", "up", "down"}]
    /\ at \in [Listeners -> Nat \ {0}]
    /\ cursor \in [Listeners -> Nat]
    /\ seen \in [Listeners -> SUBSET Nat]
    /\ current \in Listeners
    /\ closing \in Listeners \cup {None}
    /\ row \in [k : Rkeys, user : Users, n : Names] \cup {NoClaim}
    /\ on \in BOOLEAN
    /\ name \in [Users -> Names \cup {None}]
    /\ cache \in [Users -> Names \cup {None}]
    /\ held \in SUBSET (Users \X Names)
    /\ pc \in [Workers -> Labels]
    /\ job \in [Workers -> Jobs]
    /\ asked \in Nat
    /\ moves \in Nat
    /\ faults \in Nat

\* The claims row was last verified for a name that its record attested and
\* that its snowflake had: no order of listeners, rechecks and sweeps, none of
\* which reads and writes in one step, mixes two claims up or lends a snowflake
\* to another's record.
Attested ==
    row # NoClaim =>
        /\ \E i \in DOMAIN log : log[i] = [k |-> row.k, n |-> row.n]
        /\ <<row.user, row.n>> \in held

\* From the first commit its handler was given, a listener misses none, however
\* often its connection dies (what the cursor is for).
RedialLosesNothing ==
    \A l \in Listeners : \A i \in seen[l] : i..(at[l] - 1) \subseteq seen[l]

\* Once started, the watch never ceases: the manager always has a listener that
\* is connected or redials (what make-before-break is for).
AlwaysWatched == conn[current] # "off" /\ closing # current

\* A listener that holds a connection, or redials one, is the manager's or the one
\* that Restart waits for: no restart of the watch, whatever is in its handlers,
\* leaves a listener behind to handle every commit once more.
NoneLeftBehind == \A l \in Listeners : conn[l] # "off" => l \in {current, closing}

(***************************************************************************)
(* Fairness: the sweep comes back every day, gets to this account, and its *)
(* requests are answered or fail.  RunSweep also ends when an account      *)
(* before this one cannot be invalidated; InvalidateClaim deletes that     *)
(* account's claim first, so the next sweep passes it by.  Nothing is      *)
(* assumed of Jetstream, which may have missed it all, of Discord, of the  *)
(* user, nor of any other goroutine.                                       *)
(***************************************************************************)
Fairness == \A w \in Sweepers : WF_vars(SweepClaim(w) \/ Step(w))

FairSpec == Spec /\ Fairness

\* What is synced comes to rest on a record that verifies and attests the name
\* its user goes by, whatever Jetstream missed and however the watch was
\* restarted: the sweep finds it.  Only a record that no sweep can tell about
\* leaves its link as it is.
WrongLinkGoesDark ==
    <>[](on /\ row # NoClaim /\ Record(row.k) # Unsure =>
            Record(row.k) \in Names /\ cache[row.user] = Record(row.k))
=============================================================================
