------------------------------ MODULE LiveHub -------------------------------
(***************************************************************************)
(* The settings page's live channel for one account (internal/livestate,   *)
(* Serve in internal/api, web/src/synclive.ts): browser pages that dial    *)
(* and redial, the registry of their connections with the state last sent, *)
(* the heartbeat that sends it again, and the passes of Reconcile and the  *)
(* snapshots of Serve that publish into it.                                *)
(*                                                                         *)
(* A list of outcomes is one value, the empty list is Nothing, and None is *)
(* no list at all: Go's nil, which browsers would be sent as null.         *)
(***************************************************************************)
EXTENDS Naturals

CONSTANTS
    Pages,      \* open tabs
    Conns,      \* websockets
    Writers,    \* goroutines that call the shared Reconciler
    Outcomes,   \* what the rows can amount to
    Nothing, None,
    Gone,       \* a page's socket that is dead without its knowing
    InitOutcome,
    MaxChanges, \* bound on changes to the rows
    MaxFaults   \* bound on failed reads, cut connections and restarts

ASSUME NamesAssumption ==
    /\ Nothing \notin Outcomes
    /\ None \notin Conns \cup Writers \cup Outcomes \cup {Nothing}
    /\ Gone \notin Conns \cup {None}
    /\ InitOutcome \in Outcomes

ASSUME BoundsAssumption == MaxChanges \in Nat /\ MaxFaults \in Nat

VARIABLES
    truth,    \* what ComputeDesired would find in the rows
    mu, wpc, wsnap,   \* Reconciler.mu, what each writer does next, what it computed
    unread,   \* history: rows have changed or a pass has failed, and no pass since
    conns,    \* Hub.conns
    last,     \* Hub.last, None for no entry
    latest,   \* history: what was last published, None for nothing
    byPass,   \* history: whether by a pass, and not by Serve
    wire,     \* each connection: "none", "open", "half" or "closed" at our end
    serve,    \* what its Serve does next
    snap,     \* the snapshot it has computed
    sock,     \* each page's socket
    shows,    \* what the page shows
    heard,    \* whether its socket has brought a message
    changes, faults

rowVars == <<truth, mu, wpc, wsnap, unread, changes>>
hubVars == <<conns, last, latest, byPass>>
serveVars == <<serve, snap>>
pageVars == <<sock, shows, heard>>
vars == <<rowVars, hubVars, wire, serveVars, pageVars, faults>>

Init ==
    /\ truth = InitOutcome
    /\ mu = None
    /\ wpc = [w \in Writers |-> "idle"]
    /\ wsnap = [w \in Writers |-> Nothing]
    /\ unread = FALSE
    /\ conns = {}
    /\ last = None
    /\ latest = None
    /\ byPass = FALSE
    /\ wire = [c \in Conns |-> "none"]
    /\ serve = [c \in Conns |-> "none"]
    /\ snap = [c \in Conns |-> Nothing]
    /\ sock = [p \in Pages |-> None]
    /\ shows = [p \in Pages |-> Nothing]
    /\ heard = [p \in Pages |-> FALSE]
    /\ changes = 0
    /\ faults = 0

(***************************************************************************)
(* The hub.                                                                *)
(***************************************************************************)
\* Connections whose write fails: at once when closed at our end, at some time
\* when the peer is gone.
Failing == {F \in SUBSET conns :
                \A c \in conns : /\ wire[c] = "closed" => c \in F
                                 /\ c \in F => wire[c] \in {"half", "closed"}}

\* Mutant of Payload: nil is sent as it is.
PayloadOrNull(v) == v

\* What goes over the wire: nil goes as the empty list.
Payload(v) == IF v = None THEN Nothing ELSE v

\* Mutant of Remembered: one lost connection is enough to forget.
RememberedByAll(F, v) == IF F # {} \/ conns = {} THEN None ELSE v

\* What is left of v in Hub.last when the connections F have failed.
Remembered(F, v) == IF conns \ F = {} THEN None ELSE v

\* sendLocked: a connection whose write fails is closed and forgotten, and with
\* the last of them what was last sent.  (A write that blocks while Hub.mu is held
\* is in Sessions, as `stalled`.)
Send(v) ==
    \E F \in Failing :
        LET told == {p \in Pages : sock[p] \in conns /\ wire[sock[p]] = "open"}
        IN  /\ conns' = conns \ F
            /\ wire' = [c \in Conns |-> IF c \in F THEN "closed" ELSE wire[c]]
            /\ last' = Remembered(F, v)
            /\ shows' = [p \in Pages |-> IF p \in told THEN Payload(v) ELSE shows[p]]
            /\ heard' = [p \in Pages |-> IF p \in told THEN TRUE ELSE heard[p]]

\* Mutant of Publish: with nobody connected it returns at once.
PublishIfWatched(v) ==
    /\ latest' = v
    /\ IF conns = {} THEN UNCHANGED <<conns, wire, last, shows, heard>> ELSE Send(v)

Publish(v) ==
    /\ latest' = v
    /\ Send(v)

\* The heartbeat, while there is anyone to hear it.
Beat ==
    /\ conns # {}
    /\ Send(last)
    /\ UNCHANGED <<rowVars, latest, byPass, serveVars, sock, faults>>

(***************************************************************************)
(* Serve, one per connection.                                              *)
(***************************************************************************)
\* connect in synclive.ts, and the upgrade at our end.
Dial(p, c) ==
    /\ sock[p] = None
    /\ wire[c] = "none"
    /\ sock' = [sock EXCEPT ![p] = c]
    /\ heard' = [heard EXCEPT ![p] = FALSE]
    /\ wire' = [wire EXCEPT ![c] = "open"]
    /\ serve' = [serve EXCEPT ![c] = "register"]
    /\ UNCHANGED <<rowVars, hubVars, snap, shows, faults>>

Register(c) ==
    /\ serve[c] = "register"
    /\ conns' = conns \cup {c}
    /\ serve' = [serve EXCEPT ![c] = "compute"]
    /\ UNCHANGED <<rowVars, last, latest, byPass, wire, snap, pageVars, faults>>

ComputeSnapshot(c) ==
    /\ serve[c] = "compute"
    /\ snap' = [snap EXCEPT ![c] = truth]
    /\ serve' = [serve EXCEPT ![c] = "publish"]
    /\ UNCHANGED <<rowVars, hubVars, wire, pageVars, faults>>

\* The snapshot fails, and nothing is published.
NoSnapshot(c) ==
    /\ faults < MaxFaults
    /\ serve[c] = "compute"
    /\ serve' = [serve EXCEPT ![c] = "read"]
    /\ faults' = faults + 1
    /\ UNCHANGED <<rowVars, hubVars, wire, snap, pageVars>>

\* Mutant of PublishSnapshot: written to the new connection, the hub not told.
WriteSnapshot(c) ==
    /\ serve[c] = "publish"
    /\ shows' = [p \in Pages |-> IF sock[p] = c THEN snap[c] ELSE shows[p]]
    /\ heard' = [p \in Pages |-> IF sock[p] = c THEN TRUE ELSE heard[p]]
    /\ serve' = [serve EXCEPT ![c] = "read"]
    /\ UNCHANGED <<rowVars, hubVars, wire, snap, sock, faults>>

PublishSnapshot(c) ==
    /\ serve[c] = "publish"
    /\ Publish(snap[c])
    /\ byPass' = FALSE
    /\ serve' = [serve EXCEPT ![c] = "read"]
    /\ UNCHANGED <<rowVars, snap, sock, faults>>

\* ReadMessage returns only when our end is closed; then Deregister, which leaves
\* what was last sent.
Deregister(c) ==
    /\ serve[c] = "read"
    /\ wire[c] = "closed"
    /\ conns' = conns \ {c}
    /\ wire' = [wire EXCEPT ![c] = "none"]
    /\ serve' = [serve EXCEPT ![c] = "none"]
    /\ snap' = [snap EXCEPT ![c] = Nothing]
    /\ UNCHANGED <<rowVars, last, latest, byPass, pageVars, faults>>

(***************************************************************************)
(* The network and the pages.                                              *)
(***************************************************************************)
\* A connection is cut and both ends learn of it.
Drop(p) ==
    /\ faults < MaxFaults
    /\ sock[p] \in Conns
    /\ sock' = [sock EXCEPT ![p] = None]
    /\ wire' = [wire EXCEPT ![sock[p]] = "closed"]
    /\ faults' = faults + 1
    /\ UNCHANGED <<rowVars, hubVars, serveVars, shows, heard>>

\* A connection is cut and neither end learns of it.
HalfOpen(p) ==
    /\ faults < MaxFaults
    /\ sock[p] \in Conns
    /\ sock' = [sock EXCEPT ![p] = Gone]
    /\ wire' = [wire EXCEPT ![sock[p]] = "half"]
    /\ faults' = faults + 1
    /\ UNCHANGED <<rowVars, hubVars, serveVars, shows, heard>>

\* Mutant of Silence: the timer is armed by messages only.
SilenceAfterMessage(p) ==
    /\ heard[p]
    /\ sock[p] = Gone
    /\ sock' = [sock EXCEPT ![p] = None]
    /\ UNCHANGED <<rowVars, hubVars, wire, serveVars, shows, heard, faults>>

\* SILENCE_LIMIT_MS: the heartbeat outpaces it, so only a dead socket is silent.
Silence(p) ==
    /\ sock[p] = Gone
    /\ sock' = [sock EXCEPT ![p] = None]
    /\ UNCHANGED <<rowVars, hubVars, wire, serveVars, shows, heard, faults>>

(***************************************************************************)
(* The rows and their writers.                                             *)
(***************************************************************************)
ChangeRows(v) ==
    /\ changes < MaxChanges
    /\ v # truth
    /\ truth' = v
    /\ changes' = changes + 1

\* A writer changes a row and calls the shared Reconciler.
Change(w, v) ==
    /\ wpc[w] = "idle"
    /\ ChangeRows(v)
    /\ wpc' = [wpc EXCEPT ![w] = "lock"]
    /\ UNCHANGED <<mu, wsnap, unread, hubVars, wire, serveVars, pageVars, faults>>

\* The Steam tick changes a row; its Reconciler has no Broadcaster.
Tick(v) ==
    /\ ChangeRows(v)
    /\ unread' = TRUE
    /\ UNCHANGED <<mu, wpc, wsnap, hubVars, wire, serveVars, pageVars, faults>>

\* Mutant of Lock: the rows are read before the mutex is waited for.
LockLate(w) ==
    /\ wpc[w] = "lock"
    /\ wsnap' = [wsnap EXCEPT ![w] = truth]
    /\ wpc' = [wpc EXCEPT ![w] = "publish"]
    /\ unread' = FALSE
    /\ UNCHANGED <<truth, mu, changes, hubVars, wire, serveVars, pageVars, faults>>

Lock(w) ==
    /\ wpc[w] = "lock"
    /\ mu = None
    /\ mu' = w
    /\ wpc' = [wpc EXCEPT ![w] = "compute"]
    /\ UNCHANGED <<truth, wsnap, unread, changes, hubVars, wire, serveVars, pageVars, faults>>

Compute(w) ==
    /\ wpc[w] = "compute"
    /\ wsnap' = [wsnap EXCEPT ![w] = truth]
    /\ wpc' = [wpc EXCEPT ![w] = "publish"]
    /\ unread' = FALSE
    /\ UNCHANGED <<truth, mu, changes, hubVars, wire, serveVars, pageVars, faults>>

Return(w) ==
    /\ mu' = None
    /\ wpc' = [wpc EXCEPT ![w] = "idle"]
    /\ wsnap' = [wsnap EXCEPT ![w] = Nothing]

\* Broadcaster.Publish; the pass then goes on to the collection, and returns.
PublishPass(w) ==
    /\ wpc[w] = "publish"
    /\ Publish(wsnap[w])
    /\ byPass' = TRUE
    /\ Return(w)
    /\ UNCHANGED <<truth, unread, changes, serveVars, sock, faults>>

\* ComputeDesired fails, and Reconcile returns before it publishes.
FailPass(w) ==
    /\ faults < MaxFaults
    /\ wpc[w] = "compute"
    /\ Return(w)
    /\ unread' = TRUE
    /\ faults' = faults + 1
    /\ UNCHANGED <<truth, changes, hubVars, wire, serveVars, pageVars>>

\* The process restarts: the hub is in memory, and the connections are gone.
Crash ==
    /\ faults < MaxFaults
    /\ faults' = faults + 1
    /\ mu' = None
    /\ wpc' = [w \in Writers |-> "idle"]
    /\ wsnap' = [w \in Writers |-> Nothing]
    /\ unread' = TRUE
    /\ conns' = {}
    /\ last' = None
    /\ latest' = None
    /\ wire' = [c \in Conns |-> "none"]
    /\ serve' = [c \in Conns |-> "none"]
    /\ snap' = [c \in Conns |-> Nothing]
    /\ sock' = [p \in Pages |-> IF sock[p] \in Conns THEN None ELSE sock[p]]
    /\ UNCHANGED <<truth, changes, byPass, shows, heard>>

\* What a Serve does by itself.
Serving(c) == Register(c) \/ ComputeSnapshot(c) \/ PublishSnapshot(c) \/ Deregister(c)

Next ==
    \/ Beat
    \/ \E c \in Conns : Serving(c) \/ NoSnapshot(c)
    \/ \E p \in Pages : Drop(p) \/ HalfOpen(p) \/ Silence(p) \/ \E c \in Conns : Dial(p, c)
    \/ \E v \in Outcomes : Tick(v) \/ \E w \in Writers : Change(w, v)
    \/ \E w \in Writers : Lock(w) \/ Compute(w) \/ PublishPass(w) \/ FailPass(w)
    \/ Crash

Spec == Init /\ [][Next]_vars

(***************************************************************************)
(* Properties.                                                             *)
(***************************************************************************)
Shown == Outcomes \cup {Nothing}

\* Every variable keeps its shape.
TypeOK ==
    /\ truth \in Outcomes
    /\ mu \in Writers \cup {None}
    /\ wpc \in [Writers -> {"idle", "lock", "compute", "publish"}]
    /\ wsnap \in [Writers -> Shown]
    /\ unread \in BOOLEAN
    /\ conns \in SUBSET Conns
    /\ last \in Shown \cup {None}
    /\ latest \in Shown \cup {None}
    /\ byPass \in BOOLEAN
    /\ wire \in [Conns -> {"none", "open", "half", "closed"}]
    /\ serve \in [Conns -> {"none", "register", "compute", "publish", "read"}]
    /\ snap \in [Conns -> Shown]
    /\ sock \in [Pages -> Conns \cup {None, Gone}]
    /\ shows \in [Pages -> Shown]
    /\ heard \in [Pages -> BOOLEAN]
    /\ changes \in 0..MaxChanges
    /\ faults \in 0..MaxFaults

\* Tabs agree: every connected page that has been sent anything shows what the
\* hub would send again, whoever published it, so a beat never changes a page
\* that missed nothing.
LiveShowsLast ==
    \A p \in Pages :
        sock[p] \in conns /\ wire[sock[p]] = "open" /\ heard[p] => shows[p] = Payload(last)

\* What the hub keeps is never older than what was last published, though it
\* outlives the connections it was sent to and a heartbeat may find it before a
\* new page's own snapshot does.
LastIsLatest == last \in {None, latest}

\* Once every change to the rows has been through its pass, and no page's
\* snapshot has come after it, the hub says what the rows say: the pass whose
\* snapshot is newest publishes last, which Reconciler.mu is for.
SettledCurrent ==
    (\A w \in Writers : wpc[w] = "idle") /\ ~unread /\ byPass
        => last \in {None, truth}

\* A tab that has been sent anything over its connection is only ever moved on to
\* what was last published, by whoever sends: no beat takes it back to an older
\* list, nor to the empty one that it gets if it has registered where nothing is
\* remembered and its snapshot is still to come.
TabsMoveOn ==
    [][\A p \in Pages :
        heard[p] /\ shows'[p] # shows[p] => shows'[p] = Payload(latest')]_vars

(***************************************************************************)
(* The hub implements LiveFeed: a page is in tune once a registered, open  *)
(* connection of its own has brought it a message.                         *)
(***************************************************************************)
Tuned == {p \in Pages : sock[p] \in conns /\ wire[sock[p]] = "open" /\ heard[p]}

Feed == INSTANCE LiveFeed WITH Tabs <- Pages, Values <- Shown, said <- latest,
                               kept <- (last # None), tuned <- Tuned

\* Every step of the hub, of a Serve, of a pass, of the network or of a page is a
\* step of LiveFeed, or none.
HubFeeds == Feed!Spec

(***************************************************************************)
(* Fairness: the heartbeat ticks, a Serve and a pass run on, a page that   *)
(* hears nothing closes its socket and a page without one dials.           *)
(***************************************************************************)
Fairness ==
    /\ WF_vars(Beat)
    /\ \A c \in Conns : WF_vars(Serving(c))
    /\ \A p \in Pages : WF_vars(Silence(p) \/ \E c \in Conns : Dial(p, c))
    /\ \A w \in Writers : WF_vars(Lock(w) \/ Compute(w) \/ PublishPass(w))

FairSpec == Spec /\ Fairness

\* Whatever is cut or half-open, every page comes to show what the hub last sent
\* and is kept at it (what the heartbeat and the silence timer are for).
PagesCatchUp == <>[](\A p \in Pages : shows[p] = Payload(last))

\* A page whose connection has had its snapshot.
Served(p) == sock[p] \in Conns /\ serve[sock[p]] = "read"

\* A connected page that shows what the rows say comes back to it after every
\* change: "it updates the moment a Steam tick or Discord presence event changes
\* what's playing" (hub.go).
PagesCurrent ==
    \A p \in Pages :
        [](Served(p) /\ shows[p] = truth => []<>(~Served(p) \/ shows[p] = truth))
=============================================================================
