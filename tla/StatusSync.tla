----------------------------- MODULE StatusSync -----------------------------
(***************************************************************************)
(* The sync engine for one account (internal/sync, internal/db and the     *)
(* handlers that call them): the local rows that say what each source      *)
(* (Steam, Discord) reports, the status records on the account's PDS, and  *)
(* every goroutine that writes either of them.                             *)
(*                                                                         *)
(* Each SQL statement and each PDS request is one step; between two steps  *)
(* of a goroutine any other may run.  One account is modelled: every row   *)
(* is keyed by did, and other accounts show only in how long the mutex is  *)
(* held and in whether a sweep gets as far as this one.                    *)
(***************************************************************************)
EXTENDS Integers, FiniteSets, Sequences

CONSTANTS
    Sources,     \* the platforms that report what is being played
    Steam,       \* the one that is polled; the others push presence events
    Games,       \* record keys of the games the catalogue knows
    Unmatched,   \* a reported game key that resolves to no catalogue game
    Tickers,     \* the Steam poll loop: each tick makes a Reconciler of its own
    Presences,   \* goroutines that run Discord presence events
    Handlers,    \* HTTP request goroutines: enable, disable, reorder
    Revokers,    \* whoever calls InvalidateClaim: Jetstream, recheck, claim sweep
    Sweepers,    \* the daily status sweep
    HandlerOps,  \* which of "enable", "disable", "order" the user asks for
    RivalGames,  \* rkeys another instance sharing the collection writes to
    Shared,      \* the Reconciler every goroutine but the ticker uses
    Rival,       \* `via` of another instance
    None,
    MaxFaults    \* bound on early error returns and crashes

Procs == Tickers \cup Presences \cup Handlers \cup Revokers \cup Sweepers
Keys == Games \cup {Unmatched}

ASSUME SourcesAssumption ==
    /\ Steam \in Sources
    /\ IsFiniteSet(Sources)
    /\ {None, Rival} \cap Sources = {}
    /\ None # Rival
    /\ None \notin Keys
    /\ Unmatched \notin Games
    /\ RivalGames \subseteq Games

ASSUME ProcsAssumption ==
    /\ None \notin Procs
    /\ Shared \notin Tickers
    /\ HandlerOps \subseteq {"enable", "disable", "order"}
    /\ Tickers \cap (Presences \cup Handlers \cup Revokers \cup Sweepers) = {}

ASSUME FaultsAssumption == MaxFaults \in Nat

VARIABLES
    claim,    \* claims: is there a verified link for this source?
    on,       \* sync_prefs.enabled
    prio,     \* sync_prefs.priority, lower is higher
    row,      \* session_starts, one row per source
    pds,      \* the status record under each rkey of the collection
    mu,       \* the mutex of each Reconciler: its holder, or None
    pc,       \* what each goroutine does next
    job,      \* the arguments and locals of its handler
    pass,     \* the locals of its Reconcile call
    faults,   \* failures so far
    late,     \* writes to the PDS whose goroutine no longer waits for the answer
    owed,     \* history: has something given up on a change no pass has since read?
    silent    \* history: sources whose stop has completed with nothing owed, with no
              \* enable since it began and no late record since it ended

dbVars == <<claim, on, prio, row>>
procVars == <<pc, job, pass>>
vars == <<claim, on, prio, row, pds, mu, pc, job, pass, faults, late, owed, silent>>

(***************************************************************************)
(* Data.  A session row keeps the reported key; `old` says that its        *)
(* started_at was taken before the source's last stop, `torn` that its     *)
(* extra and raw_name are not (yet) those of the report the key came from. *)
(* A record keeps the source it was built from; `stale` says that its      *)
(* staleAt has passed.                                                     *)
(***************************************************************************)
Rows == [key : Keys \cup {None}, old : BOOLEAN, torn : BOOLEAN]
NoRow == [key |-> None, old |-> FALSE, torn |-> FALSE]

Records == [by : Sources \cup {None, Rival}, torn : BOOLEAN, stale : BOOLEAN]
NoRecord == [by |-> None, torn |-> FALSE, stale |-> FALSE]
RivalRecord == [NoRecord EXCEPT !.by = Rival]
Ours(r) == r.by \in Sources

\* A put of a record, or with NoRecord a delete.
Writes == [game : Games, record : Records]

\* The reorders SetOrder accepts: known sources, no duplicates.
Orders == {q \in UNION {[1..n -> Sources] : n \in 0..Cardinality(Sources)} :
              \A i, j \in DOMAIN q : q[i] = q[j] => i = j}

On == {s \in Sources : on[s]}

\* A handler's arguments and locals, and those of its Reconcile call.
Jobs == [op : {"none", "tick", "presence", "enable", "disable", "order", "invalidate",
               "sweep"},
         src : Sources \cup {None}, key : Keys \cup {None}, prev : Rows,
         order : Orders, next : Nat \ {0}]
NoJob == [op |-> "none", src |-> None, key |-> None, prev |-> NoRow,
          order |-> <<>>, next |-> 1]

Passes == [rank : [Sources -> Nat], left : SUBSET Sources, muted : SUBSET Sources,
           desired : [Games -> Records], work : SUBSET Games]
NoPass == [rank |-> [s \in Sources |-> 0], left |-> {}, muted |-> {},
           desired |-> [g \in Games |-> NoRecord], work |-> {}]

Labels == {"idle", "tickClaim", "poll", "gate", "prev", "decide", "details", "lock",
           "walk", "write", "setOn", "flip", "order", "unset", "clear", "list", "sweep"}

MutexOf(p) == IF p \in Tickers THEN p ELSE Shared
Inside(p) == pc[p] \in {"walk", "write"}

\* sync_prefs' defaultPriority: Steam first.
DefaultPriority == [s \in Sources |-> IF s = Steam THEN 0 ELSE 1]

\* The process starts on whatever the database and the PDS hold.
Init ==
    /\ claim \in [Sources -> BOOLEAN]
    /\ on \in [Sources -> BOOLEAN]
    /\ prio = DefaultPriority
    /\ row \in [Sources -> {r \in Rows : ~r.old /\ ~r.torn}]
    /\ pds \in [Games -> {NoRecord, RivalRecord} \cup
                         {[NoRecord EXCEPT !.by = s] : s \in Sources}]
    /\ \A g \in Games \ RivalGames : pds[g].by # Rival
    /\ mu = [m \in Tickers \cup {Shared} |-> None]
    /\ pc = [p \in Procs |-> "idle"]
    /\ job = [p \in Procs |-> NoJob]
    /\ pass = [p \in Procs |-> NoPass]
    /\ faults = 0
    /\ late = {}
    /\ owed = TRUE
    /\ silent = {}

Goto(p, label) == pc' = [pc EXCEPT ![p] = label]

Finish(p) ==
    /\ Goto(p, "idle")
    /\ job' = [job EXCEPT ![p] = NoJob]

\* Reconcile(ctx, did, now) is each handler's last call, given nothing of the
\* handler's locals: only a disable has a step after it, and the history of an
\* invalidation names its source.
CallReconcile(p) ==
    /\ Goto(p, "lock")
    /\ job' = [job EXCEPT ![p] =
          IF @.op = "invalidate" THEN [@ EXCEPT !.prev = NoRow] ELSE NoJob]

Begin(p, label, fields) ==
    /\ pc[p] = "idle"
    /\ Goto(p, label)
    /\ job' = [job EXCEPT ![p] = fields]

(***************************************************************************)
(* The Steam tick and the Discord presence handler, up to UpdateSession.   *)
(***************************************************************************)
\* ListEnabledDIDs: enabled and claimed.
TickList(p) ==
    /\ claim[Steam] /\ on[Steam]
    /\ Begin(p, "tickClaim", [NoJob EXCEPT !.op = "tick", !.src = Steam])
    /\ UNCHANGED <<dbVars, pds, mu, pass, faults, late, owed, silent>>

\* GetClaim again: a claim that vanished since is skipped.
TickClaim(p) ==
    /\ pc[p] = "tickClaim"
    /\ IF claim[Steam]
       THEN Goto(p, "poll") /\ UNCHANGED job
       ELSE Finish(p)
    /\ UNCHANGED <<dbVars, pds, mu, pass, faults, late, owed, silent>>

\* GetPlayerSummaries answers for the account; no key means not playing.
TickPoll(p) ==
    /\ pc[p] = "poll"
    /\ \E k \in Keys \cup {None} : job' = [job EXCEPT ![p].key = k]
    /\ Goto(p, "prev")
    /\ UNCHANGED <<dbVars, pds, mu, pass, faults, late, owed, silent>>

\* Steam's answer leaves the account out: no update and no pass this tick.
TickOmitted(p) ==
    /\ pc[p] = "poll"
    /\ Finish(p)
    /\ UNCHANGED <<dbVars, pds, mu, pass, faults, late, owed, silent>>

\* findClaimByDiscordID.
PresenceEvent(p) ==
    /\ \E s \in Sources \ {Steam}, k \in Keys \cup {None} :
          /\ claim[s]
          /\ Begin(p, "gate", [NoJob EXCEPT !.op = "presence", !.src = s, !.key = k])
    /\ UNCHANGED <<dbVars, pds, mu, pass, faults, late, owed, silent>>

\* IsEnabled.
PresenceGate(p) ==
    /\ pc[p] = "gate"
    /\ IF on[job[p].src]
       THEN Goto(p, "prev") /\ UNCHANGED job
       ELSE Finish(p)
    /\ UNCHANGED <<dbVars, pds, mu, pass, faults, late, owed, silent>>

(***************************************************************************)
(* UpdateSession: read the row, Decide, write it in separate statements,   *)
(* then Reconcile.                                                         *)
(***************************************************************************)
ReadPrev(p) ==
    /\ pc[p] = "prev"
    /\ job' = [job EXCEPT ![p].prev = row[job[p].src]]
    /\ Goto(p, "decide")
    /\ UNCHANGED <<dbVars, pds, mu, pass, faults, late, owed, silent>>

\* Decide's Write: started_at is the previous row's when the game is the same.
\* SetSessionStart leaves the details of whatever row it lands on.
DecidedRow(s, k, prev) ==
    [key |-> k,
     old |-> prev.key = k /\ prev.old,
     torn |-> row[s].key # k \/ row[s].torn]

WriteSession(p) ==
    LET s == job[p].src
        k == job[p].key
    IN  /\ pc[p] = "decide"
        /\ IF k = None
           THEN row' = [row EXCEPT ![s] = NoRow] /\ CallReconcile(p)
           ELSE row' = [row EXCEPT ![s] = DecidedRow(s, k, job[p].prev)]
                /\ Goto(p, "details") /\ UNCHANGED job
        /\ UNCHANGED <<claim, on, prio, pds, mu, pass, faults, late, owed, silent>>

\* SetSessionRawName and SetSessionExtra: UPDATEs, which touch no missing row.
WriteDetails(p) ==
    LET s == job[p].src
    IN  /\ pc[p] = "details"
        /\ row' = IF row[s].key = None THEN row
                  ELSE [row EXCEPT ![s].torn = (row[s].key # job[p].key)]
        /\ CallReconcile(p)
        /\ UNCHANGED <<claim, on, prio, pds, mu, pass, faults, late, owed, silent>>

(***************************************************************************)
(* Reconcile.                                                              *)
(***************************************************************************)
\* Mutant of Lock: nobody waits for the mutex.
LockAtOnce(p) ==
    /\ pc[p] = "lock"
    /\ mu' = [mu EXCEPT ![MutexOf(p)] = p]
    /\ pass' = [pass EXCEPT ![p] = [NoPass EXCEPT !.rank = prio, !.left = On,
                                                  !.muted = Sources \ On]]
    /\ owed' = FALSE
    /\ Goto(p, "walk")
    /\ UNCHANGED <<dbVars, pds, job, faults, late, silent>>

\* Mutant of Lock: the query has lost its `enabled = 1`.
LockAllSources(p) ==
    /\ pc[p] = "lock"
    /\ mu[MutexOf(p)] = None
    /\ mu' = [mu EXCEPT ![MutexOf(p)] = p]
    /\ pass' = [pass EXCEPT ![p] = [NoPass EXCEPT !.rank = prio, !.left = Sources,
                                                  !.muted = Sources \ On]]
    /\ owed' = FALSE
    /\ Goto(p, "walk")
    /\ UNCHANGED <<dbVars, pds, job, faults, late, silent>>

\* mu.Lock, then ListEnabledSourcesByPriority.
Lock(p) ==
    /\ pc[p] = "lock"
    /\ mu[MutexOf(p)] = None
    /\ mu' = [mu EXCEPT ![MutexOf(p)] = p]
    /\ pass' = [pass EXCEPT ![p] = [NoPass EXCEPT !.rank = prio, !.left = On,
                                                  !.muted = Sources \ On]]
    /\ owed' = FALSE
    /\ Goto(p, "walk")
    /\ UNCHANGED <<dbVars, pds, job, faults, late, silent>>

\* One source of ComputeDesired's walk: the first to claim an rkey keeps it.
\* SQL leaves the order of equal priorities open.
Walk(p) ==
    /\ pc[p] = "walk"
    /\ \E s \in pass[p].left :
          LET k == row[s].key
              claims == k \in Games /\ pass[p].desired[k].by = None
          IN  /\ \A t \in pass[p].left : pass[p].rank[s] <= pass[p].rank[t]
              /\ pass' = [pass EXCEPT
                    ![p].left = @ \ {s},
                    ![p].desired = IF claims
                                   THEN [@ EXCEPT ![k] = [by |-> s, torn |-> row[s].torn,
                                                          stale |-> FALSE]]
                                   ELSE @]
    /\ UNCHANGED <<dbVars, pds, mu, pc, job, faults, late, owed, silent>>

\* Mutant of Diff: what is no longer desired is forgotten, not deleted.
PutsOnly(desired) == {g \in Games : desired[g].by # None}

\* Mutant of Diff: a record that exists is taken to be the right one.
MissingOnly(desired) ==
    {g \in Games : (desired[g].by = None) = Ours(pds[g])}

\* What is left to delete and to put once the collection has been listed:
\* another instance's records are not ours to delete.
Diff(desired) ==
    {g \in Games : desired[g].by # None \/ Ours(pds[g])}

ListStatuses(p) ==
    /\ pc[p] = "walk"
    /\ pass[p].left = {}
    /\ pass' = [pass EXCEPT ![p].work = Diff(pass[p].desired), ![p].rank = NoPass.rank]
    /\ Goto(p, "write")
    /\ UNCHANGED <<dbVars, pds, mu, job, faults, late, owed, silent>>

Deletes(p) == {g \in pass[p].work : pass[p].desired[g].by = None}

WriteStatus(p, g) ==
    /\ pds' = [pds EXCEPT ![g] = pass[p].desired[g]]
    /\ pass' = [pass EXCEPT ![p].work = @ \ {g}]
    /\ UNCHANGED <<dbVars, mu, pc, job, faults, late, owed, silent>>

\* Mutant of DeleteStatus: every record of ours goes first, the right ones to be
\* put again.
DeleteOurs(p) ==
    /\ pc[p] = "write"
    /\ \E g \in pass[p].work :
          /\ g \in Deletes(p) \/ Ours(pds[g])
          /\ pds' = [pds EXCEPT ![g] = NoRecord]
          /\ pass' = [pass EXCEPT ![p].work = @ \ (Deletes(p) \cap {g})]
    /\ UNCHANGED <<dbVars, mu, pc, job, faults, late, owed, silent>>

DeleteStatus(p) ==
    /\ pc[p] = "write"
    /\ \E g \in Deletes(p) : WriteStatus(p, g)

\* The puts follow the deletes, in map order.
PutStatus(p) ==
    /\ pc[p] = "write"
    /\ Deletes(p) = {}
    /\ \E g \in pass[p].work : WriteStatus(p, g)

\* Reconcile returns nil.  A disable goes on to flip the pref; an
\* invalidation is complete.
Unlock(p) ==
    /\ pc[p] = "write"
    /\ pass[p].work = {}
    /\ mu' = [mu EXCEPT ![MutexOf(p)] = None]
    /\ pass' = [pass EXCEPT ![p] = NoPass]
    /\ IF job[p].op = "disable"
       THEN Goto(p, "flip") /\ UNCHANGED job
       ELSE Finish(p)
    /\ silent' = IF job[p].op = "invalidate" /\ ~owed
                 THEN silent \cup ({job[p].src} \cap pass[p].muted) ELSE silent
    /\ UNCHANGED <<dbVars, pds, faults, late, owed>>

(***************************************************************************)
(* sync_prefs.enabled.  A session time read before a stop is `old` from    *)
(* then on, wherever it is kept.                                           *)
(***************************************************************************)
EnableSource(s) ==
    /\ on' = [on EXCEPT ![s] = TRUE]
    /\ silent' = silent \ {s}
    /\ pass' = [p \in Procs |-> [pass[p] EXCEPT !.muted = @ \ {s}]]

Outdate(r) == [r EXCEPT !.old = r.key # None]

StopSource(s) ==
    /\ on' = [on EXCEPT ![s] = FALSE]
    /\ row' = [row EXCEPT ![s] = Outdate(@)]

(***************************************************************************)
(* The HTTP handlers: SetEnabled (true and false) and SetOrder.            *)
(***************************************************************************)
\* GetClaim: no claim is a 409.
EnableRequest(p) ==
    /\ "enable" \in HandlerOps
    /\ \E s \in Sources :
          /\ claim[s]
          /\ Begin(p, "setOn", [NoJob EXCEPT !.op = "enable", !.src = s])
    /\ UNCHANGED <<dbVars, pds, mu, pass, faults, late, owed, silent>>

SetOn(p) ==
    /\ pc[p] = "setOn"
    /\ EnableSource(job[p].src)
    /\ CallReconcile(p)
    /\ UNCHANGED <<claim, prio, row, pds, mu, faults, late, owed>>

\* ClearSessionStart first; the pref is flipped after Reconcile.
DisableRequest(p) ==
    /\ "disable" \in HandlerOps
    /\ \E s \in Sources :
          /\ Begin(p, "lock", [NoJob EXCEPT !.op = "disable", !.src = s])
          /\ row' = [row EXCEPT ![s] = NoRow]
    /\ UNCHANGED <<claim, on, prio, pds, mu, pass, faults, late, owed, silent>>

FlipOff(p) ==
    LET s == job[p].src
    IN  /\ pc[p] = "flip"
        /\ StopSource(s)
        /\ silent' = silent \cup {s}
        /\ Goto(p, "idle")
        /\ job' = [q \in Procs |->
                     IF q = p THEN NoJob
                     ELSE IF job[q].src = s THEN [job[q] EXCEPT !.prev = Outdate(@)]
                     ELSE job[q]]
        /\ UNCHANGED <<claim, prio, pds, mu, pass, faults, late, owed>>

OrderRequest(p) ==
    /\ "order" \in HandlerOps
    /\ \E q \in Orders : Begin(p, "order", [NoJob EXCEPT !.op = "order", !.order = q])
    /\ UNCHANGED <<dbVars, pds, mu, pass, faults, late, owed, silent>>

\* Mutant of OrderStep: positions counted from -1.
OrderStepLow(p) ==
    /\ pc[p] = "order"
    /\ job[p].next \in DOMAIN job[p].order
    /\ prio' = [prio EXCEPT ![job[p].order[job[p].next]] = job[p].next - 2]
    /\ job' = [job EXCEPT ![p].next = @ + 1]
    /\ UNCHANGED <<claim, on, row, pds, mu, pc, pass, faults, late, owed, silent>>

\* SetSourceOrder: one statement per source, in no transaction.
OrderStep(p) ==
    /\ pc[p] = "order"
    /\ job[p].next \in DOMAIN job[p].order
    /\ prio' = [prio EXCEPT ![job[p].order[job[p].next]] = job[p].next - 1]
    /\ job' = [job EXCEPT ![p].next = @ + 1]
    /\ UNCHANGED <<claim, on, row, pds, mu, pc, pass, faults, late, owed, silent>>

\* Mutant of OrderDone: SetOrder returns without reconciling.
OrderSaved(p) ==
    /\ pc[p] = "order"
    /\ job[p].next \notin DOMAIN job[p].order
    /\ Finish(p)
    /\ UNCHANGED <<dbVars, pds, mu, pass, faults, late, owed, silent>>

OrderDone(p) ==
    /\ pc[p] = "order"
    /\ job[p].next \notin DOMAIN job[p].order
    /\ CallReconcile(p)
    /\ UNCHANGED <<dbVars, pds, mu, pass, faults, late, owed, silent>>

(***************************************************************************)
(* InvalidateClaim: DeleteClaim, SetEnabled(false), ClearSessionStart,     *)
(* Reconcile.                                                              *)
(***************************************************************************)
DropClaim(p) ==
    \E s \in Sources :
        /\ Begin(p, "unset", [NoJob EXCEPT !.op = "invalidate", !.src = s])
        /\ claim' = [claim EXCEPT ![s] = FALSE]
        /\ UNCHANGED <<on, prio, row, pds, mu, pass, faults, late, owed, silent>>

UnsetEnabled(p) ==
    LET s == job[p].src
    IN  /\ pc[p] = "unset"
        /\ StopSource(s)
        /\ Goto(p, "clear")
        /\ job' = [q \in Procs |->
                     IF job[q].src = s THEN [job[q] EXCEPT !.prev = Outdate(@)]
                     ELSE job[q]]
        /\ UNCHANGED <<claim, prio, pds, mu, pass, faults, late, owed, silent>>

ClearSession(p) ==
    /\ pc[p] = "clear"
    /\ row' = [row EXCEPT ![job[p].src] = NoRow]
    /\ CallReconcile(p)
    /\ UNCHANGED <<claim, on, prio, pds, mu, pass, faults, late, owed, silent>>

(***************************************************************************)
(* RunStatusSweep, for every account in turn: list, then delete what was   *)
(* ours and past its staleAt when listed.  It takes no mutex.              *)
(***************************************************************************)
\* Mutant of Expired: the comparison the wrong way round.
Fresh == {g \in Games : Ours(pds[g]) /\ ~pds[g].stale}

Expired == {g \in Games : Ours(pds[g]) /\ pds[g].stale}

SweepBegin(p) ==
    /\ Begin(p, "list", [NoJob EXCEPT !.op = "sweep"])
    /\ UNCHANGED <<dbVars, pds, mu, pass, faults, late, owed, silent>>

\* The sweep has got as far as this account, and lists its collection.
SweepList(p) ==
    /\ pc[p] = "list"
    /\ pass' = [pass EXCEPT ![p].work = Expired]
    /\ IF Expired = {} THEN Finish(p) ELSE Goto(p, "sweep") /\ UNCHANGED job
    /\ UNCHANGED <<dbVars, pds, mu, faults, late, owed, silent>>

\* A delete for an account listed earlier fails, which ends the sweep for all.
SweepCut(p) ==
    /\ pc[p] = "list"
    /\ Finish(p)
    /\ UNCHANGED <<dbVars, pds, mu, pass, faults, late, owed, silent>>

SweepDelete(p) ==
    /\ pc[p] = "sweep"
    /\ \E g \in pass[p].work :
          /\ pds' = [pds EXCEPT ![g] = NoRecord]
          /\ pass' = [pass EXCEPT ![p].work = @ \ {g}]
    /\ owed' = TRUE
    /\ UNCHANGED <<dbVars, mu, pc, job, faults, late, silent>>

SweepEnd(p) ==
    /\ pc[p] = "sweep"
    /\ pass[p].work = {}
    /\ Finish(p)
    /\ UNCHANGED <<dbVars, pds, mu, pass, faults, late, owed, silent>>

(***************************************************************************)
(* Failures.  Any statement or request may fail, or its context end, and   *)
(* every handler then returns at once; a deferred Unlock releases mu.  A   *)
(* crash loses everything but the database and the PDS.  A write that was  *)
(* under way may be applied all the same, at any time or never.            *)
(***************************************************************************)
\* The write p waits for: the deletes come before the puts.
NextWrites(p) ==
    IF pc[p] \notin {"write", "sweep"} THEN {}
    ELSE IF Deletes(p) # {} THEN Deletes(p) ELSE pass[p].work

\* What p may leave behind at the PDS when it stops waiting: nothing or that write.
Unanswered(p) ==
    {{}} \cup {{[game |-> g, record |-> pass[p].desired[g]]} : g \in NextWrites(p)}

\* Mutant of GiveUp: an early return that skips the Unlock.
GiveUpLocked(p) ==
    /\ pc[p] # "idle"
    /\ faults < MaxFaults
    /\ faults' = faults + 1
    /\ pass' = [pass EXCEPT ![p] = NoPass]
    /\ Finish(p)
    /\ owed' = TRUE
    /\ UNCHANGED <<dbVars, pds, mu, late, silent>>

GiveUp(p) ==
    /\ pc[p] # "idle"
    /\ faults < MaxFaults
    /\ faults' = faults + 1
    /\ mu' = IF Inside(p) THEN [mu EXCEPT ![MutexOf(p)] = None] ELSE mu
    /\ pass' = [pass EXCEPT ![p] = NoPass]
    /\ Finish(p)
    /\ owed' = TRUE
    /\ \E sent \in Unanswered(p) : late' = late \cup sent
    /\ UNCHANGED <<dbVars, pds, silent>>

Crash ==
    /\ faults < MaxFaults
    /\ \E p \in Procs : pc[p] # "idle"
    /\ faults' = faults + 1
    /\ mu' = [m \in DOMAIN mu |-> None]
    /\ pc' = [p \in Procs |-> "idle"]
    /\ job' = [p \in Procs |-> NoJob]
    /\ pass' = [p \in Procs |-> NoPass]
    /\ owed' = TRUE
    /\ \E sent \in [Procs -> UNION {Unanswered(p) : p \in Procs}] :
          /\ \A p \in Procs : sent[p] \in Unanswered(p)
          /\ late' = late \cup UNION {sent[p] : p \in Procs}
    /\ UNCHANGED <<dbVars, pds, silent>>

\* The PDS gets to a write whose goroutine has gone.  The history takes no
\* responsibility for a record that lands after a stop.
Land(w) ==
    /\ pds' = [pds EXCEPT ![w.game] = w.record]
    /\ late' = late \ {w}
    /\ owed' = TRUE
    /\ silent' = silent \ {w.record.by}
    /\ UNCHANGED <<dbVars, mu, procVars, faults>>

(***************************************************************************)
(* The world outside: a claim is verified, staleAt passes, another         *)
(* instance writes its own records into the same collection.               *)
(***************************************************************************)
Verify(s) ==
    /\ claim' = [claim EXCEPT ![s] = TRUE]
    /\ UNCHANGED <<on, prio, row, pds, mu, procVars, faults, late, owed, silent>>

\* Only a sweep reads staleAt.
Expire(g) ==
    /\ Sweepers # {}
    /\ Ours(pds[g])
    /\ pds' = [pds EXCEPT ![g].stale = TRUE]
    /\ UNCHANGED <<dbVars, mu, procVars, faults, late, owed, silent>>

RivalPut(g) ==
    /\ pds' = [pds EXCEPT ![g] = RivalRecord]
    /\ UNCHANGED <<dbVars, mu, procVars, faults, late, owed, silent>>

RivalDelete(g) ==
    /\ pds[g].by = Rival
    /\ pds' = [pds EXCEPT ![g] = NoRecord]
    /\ owed' = TRUE
    /\ UNCHANGED <<dbVars, mu, procVars, faults, late, silent>>

Environment ==
    \/ \E s \in Sources : Verify(s)
    \/ \E g \in Games : Expire(g)
    \/ \E g \in RivalGames : RivalPut(g) \/ RivalDelete(g)

UpdateSession(p) == ReadPrev(p) \/ WriteSession(p) \/ WriteDetails(p)

Reconcile(p) ==
    Lock(p) \/ Walk(p) \/ ListStatuses(p) \/ DeleteStatus(p) \/ PutStatus(p) \/ Unlock(p)

Tick(p) == TickList(p) \/ TickClaim(p) \/ TickPoll(p) \/ TickOmitted(p)
Presence(p) == PresenceEvent(p) \/ PresenceGate(p)
Request(p) ==
    \/ EnableRequest(p) \/ SetOn(p)
    \/ DisableRequest(p) \/ FlipOff(p)
    \/ OrderRequest(p) \/ OrderStep(p) \/ OrderDone(p)
InvalidateClaim(p) == DropClaim(p) \/ UnsetEnabled(p) \/ ClearSession(p)
RunStatusSweep(p) ==
    SweepBegin(p) \/ SweepList(p) \/ SweepCut(p) \/ SweepDelete(p) \/ SweepEnd(p)

Next ==
    \/ \E p \in Tickers : Tick(p)
    \/ \E p \in Presences : Presence(p)
    \/ \E p \in Handlers : Request(p)
    \/ \E p \in Revokers : InvalidateClaim(p)
    \/ \E p \in Sweepers : RunStatusSweep(p)
    \/ \E p \in Procs : UpdateSession(p) \/ Reconcile(p) \/ GiveUp(p)
    \/ Crash
    \/ \E w \in late : Land(w)
    \/ Environment

Spec == Init /\ [][Next]_vars

(***************************************************************************)
(* Properties.                                                             *)
(***************************************************************************)
\* Every variable keeps its shape, whatever the interleaving.
TypeOK ==
    /\ claim \in [Sources -> BOOLEAN]
    /\ on \in [Sources -> BOOLEAN]
    /\ prio \in [Sources -> Nat]
    /\ row \in [Sources -> Rows]
    /\ pds \in [Games -> Records]
    /\ mu \in [Tickers \cup {Shared} -> Procs \cup {None}]
    /\ pc \in [Procs -> Labels]
    /\ job \in [Procs -> Jobs]
    /\ pass \in [Procs -> Passes]
    /\ faults \in 0..MaxFaults
    /\ late \in SUBSET Writes
    /\ owed \in BOOLEAN
    /\ silent \in SUBSET Sources

\* A Reconciler's mutex is held by exactly the goroutine inside that
\* Reconciler's Reconcile: no two are inside at once, and no return, early or
\* not, leaves it locked (the deferred Unlock of Reconcile).
LockDiscipline ==
    \A m \in DOMAIN mu : \A p \in Procs :
        mu[m] = p <=> Inside(p) /\ MutexOf(p) = m

\* s has the highest priority of the sources in S whose session is game g.
Wins(s, g, S) ==
    /\ s \in S
    /\ row[s].key = g
    /\ \A t \in S : row[t].key = g => prio[s] <= prio[t]

\* The collection says what the rows say: under each rkey the record of the
\* highest-priority enabled source playing that game, with that row's details,
\* and nothing of ours under any other.
Published(g) ==
    \/ pds[g].by = Rival
    \/ pds[g].by = None /\ \A s \in On : row[s].key # g
    \/ \E s \in Sources :
          Wins(s, g, On) /\ pds[g].by = s /\ pds[g].torn = row[s].torn

Consistent == \A g \in Games : Published(g)

AtRest == \A p \in Procs : pc[p] = "idle"

\* When every goroutine has returned and none gave up half-way, what is
\* published is what the database says: whichever of them came last, its
\* snapshot was the freshest one (the reason Reconciler.mu exists, and the rule
\* that Reconcile follows every change of a row, a pref or a priority).
AtRestPublished == AtRest /\ ~owed => Consistent

\* Once the stop of a source has completed (InvalidateClaim or a disable has
\* returned without error) no record built from it exists until it is enabled
\* again: no goroutine that was already under way brings one back.  Only a put that
\* its goroutine had given up on can.
StopIsFinal == \A s \in silent : \A g \in Games : pds[g].by # s

\* A pass of Reconcile never publishes a source that has been disabled ever since
\* the pass took its mutex: the pref is the consent to publish.
OffStaysOff ==
    \A p \in Procs : Inside(p) =>
        \A g \in Games : pass[p].desired[g].by \notin pass[p].muted

\* A source that is enabled again starts a fresh session: its createdAt is not
\* from before the stop (the reason a disable clears session_starts first).
FreshSession == AtRest => \A s \in On : ~row[s].old

(***************************************************************************)
(* The callers of the shared Reconciler implement StatusBoard: a round is  *)
(* the time its mutex is held, and it is due while somebody has changed    *)
(* what should be published without having reached Reconcile, or has given *)
(* up.  A record of ours is known by its source and its details.           *)
(***************************************************************************)
\* p has changed, or may have changed, what should be published and has not
\* reached its own Reconcile yet.
Pending(p) == pc[p] \in {"details", "lock", "order", "clear"}

Status(r) == [by |-> r.by, torn |-> IF Ours(r) THEN r.torn ELSE FALSE]

\* The statuses that the rows allow under rkey g: several if priorities tie.
Wanted(g) ==
    {[by |-> s, torn |-> row[s].torn] : s \in {t \in Sources : Wins(t, g, On)}} \cup
    {n \in {Status(NoRecord)} : \A s \in On : row[s].key # g}

Due == owed \/ \E p \in Procs : Pending(p)

Barred == UNION {pass[p].muted : p \in {q \in Procs : Inside(q)}}

Board == INSTANCE StatusBoard WITH
    enabled <- On,
    wanted <- [g \in Games |-> Wanted(g)],
    board <- [g \in Games |-> Status(pds[g])],
    due <- Due,
    round <- \E p \in Procs : Inside(p),
    barred <- Barred,
    stopped <- silent

\* Every step of the sync engine is a step of StatusBoard, or none.
SyncsBoard == Board!Spec

(***************************************************************************)
(* Fairness.  A goroutine that has started runs on: every request of       *)
(* Reconcile is bounded by reconcileTimeout and Go's mutex hands itself to *)
(* the longest waiter.  The poll loop and the daily sweep start again for  *)
(* ever.  Nothing makes the user, Discord or a revocation act.             *)
(***************************************************************************)
Running(p) ==
    \/ TickClaim(p) \/ TickPoll(p) \/ TickOmitted(p) \/ PresenceGate(p) \/ UpdateSession(p)
    \/ SetOn(p) \/ FlipOff(p) \/ OrderStep(p) \/ OrderDone(p) \/ UnsetEnabled(p)
    \/ ClearSession(p) \/ SweepList(p) \/ SweepCut(p) \/ SweepDelete(p) \/ SweepEnd(p)
    \/ Walk(p) \/ ListStatuses(p) \/ DeleteStatus(p) \/ PutStatus(p) \/ Unlock(p)

Fairness ==
    /\ \A p \in Procs : WF_vars(Running(p)) /\ SF_vars(Lock(p))
    /\ \A p \in Tickers : WF_vars(TickList(p))
    /\ \A p \in Sweepers : WF_vars(SweepBegin(p))

FairSpec == Spec /\ Fairness

\* However the private Reconciler of a tick races with the shared one, whatever
\* failed or crashed: once only the poll loop runs, for an account it polls and
\* Steam keeps answering for, the collection keeps coming back to what the
\* database says.  An account that Steam leaves out gets no pass from a tick.
TickHeals ==
    /\ <>[](\A p \in Procs \ Tickers : pc[p] = "idle")
    /\ <>[](claim[Steam] /\ on[Steam])
    /\ []<><<\E p \in Tickers : TickPoll(p)>>_vars
    => []<>Consistent

\* As long as the daily sweep goes on to get as far as this account (a failing
\* delete of an earlier one's record does not always cut it short), a record of
\* ours whose staleAt has passed is refreshed or removed, whatever became of its
\* source: no status outlives the game for good.
StaleRemoved ==
    []<><<\E p \in Sweepers : SweepList(p)>>_vars =>
        \A g \in Games :
            (Ours(pds[g]) /\ pds[g].stale) ~> ~(Ours(pds[g]) /\ pds[g].stale)
=============================================================================
