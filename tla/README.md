# Formal model of game-status (atplay-sync)

game-status watches what a signed-in user plays on Steam (polled) and Discord
(pushed) and keeps `games.atmosphere.status` records on the user's own PDS in
step with it. This directory holds TLA+ modules of that program, the TLC
configurations that check them on small instances, and proofs that TLAPS checks
for every instance. Line references are to the repository this project sits
beside (`src/` in `PROJECT.json`).

## The system

| component | state | operations | talks to |
|---|---|---|---|
| Reconciler, `internal/sync/reconcile.go`, `writer.go` | one mutex per `Reconciler` value; the PDS collection | `Reconcile`, `ComputeDesired`, `UpdateSession` | database, PDS, game cache, live hub |
| Steam tick, `sync/tick.go`, loop in `cmd/server/main.go` | `callsPerPoll` | `RunTick` | Steam API, budget, a `Reconciler` of its own |
| Discord presence, `discord/presence.go`, `gateway.go` | member cache | `HandlePresenceUpdate`, `HandleGuildMemberRemove` | database, the shared Reconciler |
| Preferences, sessions, claims, `internal/db` | `sync_prefs`, `session_starts`, `claims` | one SQL statement each; `InvalidateClaim` | shared Reconciler |
| HTTP handlers, `internal/api` | none | enable, disable, reorder, recheck, live socket, login | all of the above |
| Status sweep, `sync/sweep.go` | none | `RunStatusSweep`, daily | PDS |
| Claim discovery and sweep, `internal/claims`, `api/recheck.go` | none | `Discover`, `RunSweep`, the recheck around `Discover` | PDS, verifier, `InvalidateClaim` |
| Jetstream, `internal/jetstream` | current listener, its cursor | `Restart`, `HandleEvent` | database, verifier, `InvalidateClaim` |
| Live hub, `internal/livestate` | connections, last outcomes per account | `Register`, `Publish`, `Heartbeat` | browsers |
| Session resumption, `internal/atsession` | one mutex per account | `WithSession` | OAuth library, PDS |
| Budget and cadence, `steam/budget.go`, `sync/schedule.go` | window, used | `Reserve`, `Remaining`, `Exhaust`, `NextPollInterval` | poll loop |
| Attestation, `internal/keytrace` | key cache | `VerifyAttestation` | PDS of the signers |
| OAuth login, `api/oauth_handlers.go`, `authstore` | users, sessions, auth requests | `Login`, `Callback`, `Logout` | OAuth library |
| Game cache, `internal/cartridge` | cached games | `GetGameBySteamID` | catalogue |

What is hard: every goroutine (the poll loop, one per presence event, one per
HTTP request, the Jetstream listener, two daily sweeps) changes the same rows in
several statements with nothing around them but a mutex in `Reconcile`; any
statement or request may fail half-way; the process may stop between a row and
the record that follows from it; and two platforms, two instances of the
program and two tabs of the user act on one account. `PROJECT.json` lists each
such hazard at its line with the properties that would catch it.

What makes the components correct:

- Reconciler: the collection says what the rows say once everybody has returned;
  nothing is published for a source that is off; the mutex is always released.
- Invalidation and disable: a stop is final until the next enable, and a later
  session does not inherit the old one's start.
- Sweep: no stale record stays in a collection that it keeps reaching, none of
  another instance's is touched.
- Claims: the row rests on something the user did attest and a member did have;
  a lost connection loses no event, and what is lost all the same (a restart, a
  late first connection, an older event that lands last) the daily sweep finds.
- Live hub: tabs agree, and the browser ends up with the newest outcomes.
- Budget: never above the daily ceiling, yet polls keep coming.
- Sessions: no spent refresh token is presented unless a fault took the new one, a
  goroutine acts on an account only with a session of that account, and none waits for itself.
- Sign-in: a browser becomes only an account that it was approved for itself.

## Modules

`StatusSync` is the core: the sync engine for one account. Every table is keyed
by `did` and so is the collection. Two accounts meet at the mutex, which serialises
them; in the hub, which a pass of either waits for (in `Sessions`); in a tick, which
loses no account by another's failure; and in the status sweep, which an
earlier account's failing delete ends for all later ones (`SweepCut`).

- State. `claim`, `on`, `prio`, `row` are the tables (`claims`,
  `sync_prefs.enabled`, `sync_prefs.priority`, `session_starts`); `pds` is the
  collection; `mu` the mutex of each `Reconciler`, of which there are two kinds:
  `Shared`, wired in `main.go`, and the one `RunTick` makes. `pc`, `job` and
  `pass` are a goroutine's place, its handler's arguments and locals, and the
  locals of its `Reconcile` call. `faults` counts failures and
  `late` holds the writes they left behind. Two history
  variables say what the properties need and no action reads: `owed` (somebody
  gave up, so the collection may lag behind) and `silent` (sources whose stop
  completed and which nobody has enabled since).
- Steps. Each SQL statement and each PDS request is one action, because between
  two of them any other goroutine may run. Handlers are: `TickList`,
  `TickClaim`, `TickPoll`, `TickOmitted` (the answer leaves the account out, which
  ends its tick) for the tick; `PresenceEvent`, `PresenceGate` for
  Discord; `ReadPrev`, `WriteSession`, `WriteDetails` for `UpdateSession`;
  `Lock`, `Walk`, `ListStatuses`, `DeleteStatus`, `PutStatus`, `Unlock` for
  `Reconcile`; `EnableRequest`, `SetOn`, `DisableRequest`, `FlipOff`,
  `OrderRequest`, `OrderStep`, `OrderDone` for the HTTP handlers; `DropClaim`,
  `UnsetEnabled`, `ClearSession` for `InvalidateClaim`; `SweepBegin`,
  `SweepList`, `SweepCut`, `SweepDelete`, `SweepEnd` for the sweep. `ComputeDesired` reads the rows one
  source at a time (`Walk`), so its snapshot is not atomic.
- Failures. `GiveUp` is any statement or request failing, a context that ends,
  or a client that goes away: every handler returns at the first error and only
  the deferred `Unlock` still runs. `Crash` loses everything but the database
  and the PDS. Either may leave behind the write that its goroutine was waiting for
  (`late`): `reconcileTimeout` ends the wait and releases the mutex, not the
  request, and the PDS may apply it at any later time (`Land`), over what the next
  pass wrote, or never. `MaxFaults` bounds them together.
- Environment. `Verify` (a claim is verified), `Expire` (a `staleAt` passes),
  `RivalPut` and `RivalDelete` (another instance shares the collection, which is
  what `via` is for).

Abstractions, each of which loses detail no property is about:

- A game key is a catalogue game, identified with the rkey it resolves to, or
  `Unmatched` (an unknown key, a malformed URI). The resolver is a cache that
  never changes its answer; its failure is a `GiveUp`.
- `started_at` is one bit, `old`: was it taken before the source's last stop?
  `raw_name` and `extra` are one bit, `torn`: are they those of the report that
  set the key? The two statements that write them are one step.
- `staleAt` is one bit, set by `Expire`. It is only there when a sweep runs;
  nothing else reads it.
- Taking the mutex and the first query of `ComputeDesired` are one step: the
  query reads, and nobody can see that the mutex was taken an instant earlier.
- Equal priorities are walked in either order (SQL promises none).
- `SetSourceOnline` and `Broadcaster.Publish` do not touch what `StatusSync`
  keeps; the second is in `LiveHub`.

`StatusBoard` is the abstract specification of the core: what the user wants
published changes at any time (`Change`), rounds of publication come one at a
time (`Open`, `Write`, `Close`), anything may fail or be late, and a round that no
change has overtaken leaves the collection saying what is wanted
(`RestsFaithful`); a source withdrawn for good has no record until it is enabled
again (`StopsHold`). It has no goroutine, statement or mutex. `StatusSync` implements it
(`SyncsBoard`) when all who reconcile share one `Reconciler` and nobody disables: a round is the
time the mutex is held; it is due (`Due`) while somebody has changed what should be published and
has not reached his own `Reconcile`, or gave up; what is wanted under a key (`Wanted`) are the statuses
the rows allow, several if priorities tie; `barred` are the sources the pass has muted,
`stopped` is `silent`. With ticks beside other callers, or with disables, it is false, for
the reasons of `sync_tick_race` and `sync_disable_race`.

`PollBudget` is the poll loop as `Budget` and `NextPollInterval` see it, over a
clock. `tod` is the time of day, `age` the time since `windowStart`; `Pace` is the
one expression that reads the budget and the clock and goes to sleep, `List` to
`Answered` the listing, `RunTick`'s second listing, the reservation and the
batches, `TooManyRequests` the 429. `Tick` may happen between any two steps, so
every step may be late. `Restart` forgets the budget, which is in memory. `sent`,
`limits` and `skips` are history. An account that is enabled without a claim is not
counted (it would only make the estimate too high), and what a tick does with
the answers is in `StatusSync`, which in turn leaves out when ticks come.

`ClaimWatch` is everything that decides whether one account's Discord claim
stands: the Jetstream listeners and their manager, `HandleEvent`, `Discover`,
`RunSweep`, the member cache, the resolver and `HandleGuildMemberRemove`.

- State. `log` is the account's repository as the stream of its commits; `conn`,
  `at`, `cursor`, `current` and `closing` are the listeners' connections, what
  each will be sent next, `Listener.cursorUS`, and `Manager.current` with the
  listener that `Restart` waits for; `row` and `on` are the claims row and
  `sync_prefs.enabled`; `name` is Discord's list of members, `cache` the
  `MemberCache`. `seen` and `held` are history, and so is `row.n`, the name the
  row was last verified for: the table keeps a display name that nothing reads.
- Steps. `ReadEvent` is `readLoop` and what `HandleEvent` decides from the event
  itself; `Lose`, `Redial`, `Restart`, `RestartFails`, `Exit` are the connection's life;
  `Discover`, `SweepClaim` and `Fetch` begin the other two ways to look at a
  record. From there all of them go through `Verify`, `LookUp`, `Resolve` and `UpsertClaim`,
  or through `Match`, `DeleteClaim` and `UnsetEnabled`, with the differences the
  code has (a listener leaves alone what does not verify, the sweep drops it; the
  sweep has read the row before it fetched; a listener compares the record's key before it drops). One goroutine may play
  several of the parts, one after the other.
- Failures. `Fail` is any request or statement of a goroutine in its course,
  a signing key that cannot be fetched this once included; `Crash` forgets cursors and
  the member cache. A record that gives an error at every look is a content, not a failure.
- Abstractions. A record's content is the name it attests with a signature that
  verifies, `Forged`, `Unsure` (it does not unmarshal, or its signing key cannot be
  had: nobody acts on it) or `Gone`. A Steam claim is a Discord one with nothing to
  resolve. `Discover` lists and verifies in one step, and picks any of the
  records that verify (a repository lists them in rkey order). A listener is
  known by one of a fixed number of names and may be used again after `Exit`.

`Sessions` is sign-in and what the sessions are used for.

- State. `request` and `state` are the two halves of a flow (the row in
  `oauth_auth_requests`, the cookie), `age` its age in units of five minutes, so that
  the cookie lives for two and the sweep's cut-off is three; `grant` is the account
  that approved it at its PDS. `store`, `active` and `server` are `oauth_sessions`,
  `users.active_session_id` and the authorization server's own idea of the
  refresh token, all as generations. `lock` and `mu` are the mutexes of
  `Resumer` and of the shared `Reconciler`. A worker's `job` has what it has
  read: the session id (before it waits for the lock), the token (after).
- Steps. `Login`, `Approve`, `StartCallback`, `Exchange`, `SignedIn`, `RefuseCallback`,
  `Logout`, `Grow`, `DeleteStaleAuthRequests` for sign-in; `ReadUser`, `LockSession`,
  `Resume`, `Refresh`, `Persist`, `Unlock` for `WithSession` and the client in
  it; `LockReconciler`, `Publish`, `NextWrite`, `EndPass` for a pass around it, and
  `NoteReconcile` for `deferredReconcile`.
- Failures. `Crash` may fall between a refresh and its `SaveSession`; `PersistFails` is a
  `SaveSession` that returns an error with the process running on, `RefreshLost` a refresh
  whose answer the ended context loses. Each leaves the session in `lost`, out of line with the
  server, until somebody who still has the newest token refreshes again. `stalled`
  says that `Hub.mu` is held over a write which a client does not take (`Stall`,
  `Unstall`): no pass of any account gets through `Publish` meanwhile. `MaxFaults` bounds them together.
- Abstractions. A sign-in flow and the session it ends in share a name. What a
  worker does with the session besides refreshing it is in the other modules.
  The status sweep and the tick take no mutex that others wait for and are one
  set of workers, `Ticks`.

`TokenChain` is the abstract specification of the middle part: a refresh changes the
token at the server and the one the application will present next in a single
step, and only a fault (`Lose`) may put them out of line. `Sessions` implements it under
the mapping `Held`: the copy somebody is about to save, else what is stored.
Its users rely on `InLine`: but for what a fault took, the next token presented is the
one the server accepts.

`LiveHub` is the settings page's live channel: `conns` and `last` are the hub's
fields, `serve` and `snap` a `Serve` goroutine's place and snapshot, `wire` a
connection as our end sees it, `sock`, `shows` and `heard` a page's socket, what it
displays and whether the socket has spoken. `Send` is `sendLocked`: any set of
half-open connections may fail in it, the closed ones do. `Beat` is the heartbeat;
`Register`, `ComputeSnapshot`, `PublishSnapshot`, `Deregister` are `Serve`; `Dial`
and `Silence` are `synclive.ts`; `Lock`, `Compute`, `PublishPass` the part of `Reconcile`
up to `Broadcaster.Publish`; `Tick` a change by the Steam tick, which publishes
to nobody. `latest`, `byPass` and `unread` are history. A list of outcomes is one value;
the rows are one value too, `truth`, so a `ComputeDesired` that mixes two states of the rows
is left to `StatusSync`. A page goes back to the start of `Dial` at once: the back-off only
delays it.

`LiveFeed` is the abstract specification of that channel: a page in tune (one that was
sent anything over the connection it has) is brought every state in the step that
publishes it, and nothing else changes what it shows; a page that joins is brought
what is remembered or what is published next, whichever comes first. `LiveHub` implements it
(`HubFeeds`), the pages in tune being `Tuned`. One thing it leaves open because the code
does: a beat that comes between a page's registration and its own snapshot, with nothing
remembered, sends the empty list, which the page shows until the snapshot arrives (`Repeat`, `InTune`).

`MCStatusSync` restricts the initial states to a user who has just linked both
sources, `MCClaimWatch` fixes who is in the guild and may also
start from a claim that is linked and synced, `MCSessions` starts from a
state of `Sessions` in which the first account has signed in. `StatusSync_proofs`,
`AtRest_proofs` and `Board_proofs`, each over the one before, hold the theorems of the
core; the other `_proofs` modules go with the module they are named after.

How they fit: `StatusSync` takes claims as they come and go (`Verify`,
`DropClaim`), `ClaimWatch` says when they do and leaves out what `InvalidateClaim`
does to sessions and collection; `StatusSync` takes a PDS request as one step,
`Sessions` opens it up; `StatusSync` ignores the hub, `LiveHub` ignores the
collection. The mutex of the shared `Reconciler` is in all three, since it is what
each of them leans on.

## Runs

The `sync_*` runs have two sources, one catalogue game and `Unmatched`. One game is enough for the two
sources to compete for one rkey, and a switch of games is a delete of one and a
put of another, which the same actions do under one rkey at two times.

| run | instance | what it shows |
|---|---|---|
| `sync_shared` | two goroutines, each of which may run a presence event, an enable, a reorder or an invalidation; interchangeable, so symmetry applies; no failures | `AtRestPublished`: when both have returned the collection says what the rows say. `StopIsFinal`: an invalidated source does not come back. `LockDiscipline`, `TypeOK`. `SyncsBoard`: every step is a step of `StatusBoard` or none. |
| `sync_heal` | the poll loop, one goroutine for presence events, one failure or crash that may leave a write behind, answers that leave the account out | `TickHeals`: whatever went wrong or lands late, once only the loop runs and Steam goes on answering for the account, the collection keeps coming back to what the rows say. |
| `sync_sweep` | the sweep, which may be cut short before it gets here, one goroutine for presence events, disables and invalidations, another instance writing to the game's rkey, one failure or crash that may leave a write behind | `StaleRemoved`: what is stale goes, if the sweep keeps reaching the account. `OffStaysOff`, and `LockDiscipline` with early returns. |
| `sync_tick_race` | the poll loop and one goroutine for presence events | `AtRestPublished` fails: see below. |
| `sync_disable_race` | one disable, one presence event | `AtRestPublished` fails. |
| `sync_resume_race` | one invalidation, one presence event, one enable | `FreshSession` fails. |
| `poll_budget` | a day of six units, three calls, up to two batches, one failure or restart, any number of 429s | `CeilingKept`, `LimitHeeded`, `NeverThreeSkips`, `PollsGoOn`. |
| `poll_past_reset` | a budget of three calls, one call a poll, no failures | `WakesForReset` fails. |
| `claims_watch` | one record key, two users (one in the guild at first), two names, two listeners, one goroutine that is in turn a recheck, a member's removal and an enable, the sweep; two commits, one move at Discord, one request to enable or restart, one failure or crash; from nothing, or from a claim linked and synced in a guild that no longer changes | `Attested`: no mix of listeners, rechecks and sweeps lends a snowflake to another's record. `RedialLosesNothing`, `AlwaysWatched`, `NoneLeftBehind`: the cursor; make-before-break leaves neither no listener nor two. `WrongLinkGoesDark`: what the stream missed, the sweep finds, but for a record it cannot tell about. |
| `sessions` | two accounts, two browsers, two flows (the first has already ended in a session), a recheck and a pass with one write, two refreshes, one fault (a restart, a failed save, a lost answer or a stalled client), flows of up to 20 minutes | `TokenFresh`, `OwnSession`: the token and the session that a worker uses are the right ones. `TokensInStep`: the layer implements `TokenChain`. `BrowserBound`, `RequestOutlivesCookie` for sign-in. `HoldersGetOn`: a mutex that is wanted is held by somebody who can go on; `EveryoneReturns`: so everybody does, if no client stalls for ever. |
| `live_push` | two pages, two connections, two writers, two lists of outcomes, two changes, one failed read, cut connection or restart | `LiveShowsLast`, `LastIsLatest`, `SettledCurrent`, `PagesCatchUp`. `TabsMoveOn`: no message takes a tab back to an older state. `HubFeeds`: the hub implements `LiveFeed`. |
| `live_tick` | one page, one connection, one writer, one change, no failures | `PagesCurrent` fails. |

Two commits are a put and its revocation, or a put replaced by another, and
with two names the second may be the first user's new one or another's; two
listeners are as many as ever coexist. One move is a rename, a join or a leave; the
cache may still be empty, or behind. The linked start leaves the one request for a restart
while the source is synced: the new listener has no cursor, loses its connection and
misses the second commit, which the sweep then finds. Two refreshes are one that is not
stored and one that makes up for it, or another worker's with the spent token. `Ticks` is empty in `sessions`: a recheck
already contends for the session lock without holding `mu`, which is all
that a tick would add. `MaxAge` is one above the cut-off, so every comparison of an age is seen both
ways. Two pages on two connections are enough for one to be served from
the other's snapshot, and a page that dials again finds the second
connection while the first is still registered.

The day of `poll_budget` is long enough for several polls between two midnights,
and three calls for a budget that one poll of everybody leaves partly spent: the
reserved, refused, paced and floored intervals all occur.

Two goroutines are the smallest number that race and every guard of the model
looks at one other goroutine at most (the holder of the mutex); a source that
was stopped, restarted and stopped again is reached because goroutines start
over without bound. One failure is enough for a half-done handler to meet a
whole one. A late write multiplies the states by what it may
say, so `sync_heal` leaves disables to `sync_sweep`. The proofs below do not
depend on either bound.

### Where the code and its comments disagree

- `sync_tick_race`. `Reconciler.mu` is documented to serialise "every caller —
  Steam's tick and Discord's presence handler" (`reconcile.go:26`). `RunTick`
  makes its own `Reconciler` (`tick.go:91`). A tick walks the rows, a presence
  event changes its row and publishes, the tick writes its older view.
  `sync_heal` shows how long that lasts: to the next undisturbed tick.
- `sync_disable_race`. A disable clears the session, reconciles and then flips
  the pref (`steam_handlers.go:84`). An event that passed `IsEnabled` writes its
  row and publishes it in between; nothing reconciles after the flip, and the
  record stays under a source that is off.
- `sync_resume_race`. `InvalidateClaim` clears `session_starts` so that no later
  session resumes the old `createdAt` (`invalidate.go:19`). An event that had
  read the row before writes it back after, and the next enable publishes it.
- `live_tick`. The page "updates the moment a Steam tick or Discord presence event
  changes what's playing" (`livestate/hub.go:3`). The tick's own `Reconciler`
  (`tick.go:91`) has no `Broadcaster`: after a tick the page shows the old state until
  somebody else publishes or it connects anew, and the heartbeat repeats the old state.
- No run of its own: `RunStatusSweep` deletes stale records "for every signed-in user"
  (`sweep.go:12`), but returns at the first delete that fails (`sweep.go:35`), where a
  failed listing moves on to the next user. `SweepCut` is that return; without the premise of `StaleRemoved`
  it could cut every sweep short.
- Nor this: `reconcileTimeout` is there lest an unanswered connection "hold that lock
  forever and wedge every other account's sync" (`reconcile.go:46`). It bounds the PDS
  calls it speaks of, and not `Publish` in the same critical section, which waits for
  `Hub.mu` and writes to browsers; `hub.go:105` knows of the stall.
- `poll_past_reset`. The cadence is "never slower than waiting for tomorrow's
  budget reset" (`schedule.go:15`). The reset is 24 hours after `windowStart`,
  the sleep ends at UTC midnight: if the window still runs then, with the budget
  spent, the loop sleeps another whole day. `NeverThreeSkips` shows that this
  happens once in a row at most.

## Fairness

`FairSpec` assumes that a goroutine that has started keeps running (weak
fairness of its next step): Go schedules every runnable goroutine, and each
request inside `Reconcile` ends by `reconcileTimeout` at the latest. (Its wait for the
hub does not: see `Sessions` below.) Taking the
mutex is strongly fair: it is released and taken by others in between, and
`sync.Mutex` hands itself to a waiter starved for a millisecond. A tick's request to Steam has no deadline
(`http.DefaultClient`, `context.Background()`): that it ends is an assumption
of `TickHeals`; `PollBudget` does not make it. The poll loop
and the daily sweep start again for ever (`main.go`: `for` and `time.Ticker`). Two things
the code does not see to are premises of the properties instead: that Steam's answers
go on having the account (`TickHeals`), and that the sweep goes on reaching it (`StaleRemoved`).
Nothing is assumed of users, Discord, revocations, failures or other instances.

- `ClaimWatch` assumes only the sweep: `main.go` runs it on a daily ticker, its
  requests are answered or fail, and it gets to the account. `RunSweep` also
  returns when an account before this one cannot be invalidated, but the first thing `InvalidateClaim`
  does is to delete that account's claim, so the next sweep passes it by: only a
  database that refuses that statement every day keeps it from here. That
  Jetstream delivers, that Discord sends events or that anyone returns is not
  needed for `WrongLinkGoesDark`.
- `Sessions` assumes that a worker which has begun runs on (a pass has finitely
  many statuses to write; PDS requests are answered or fail, by `reconcileTimeout` in a pass, while
  those of a recheck and of the sweeps have no deadline and it is an assumption)
  and that mutexes are handed out fairly, `Hub.mu` among them. It does not assume that a client reads:
  `Hub.Publish` waits with `Reconciler.mu` held and writes without a deadline, so that
  a client is never stalled for ever is the premise of `EveryoneReturns`. `Refresh` is bounded by
  `MaxRefresh`, so a worker cannot refresh for ever instead of returning. Nobody has to sign in.
- `LiveHub` assumes the heartbeat's ticker, that `Serve` and `Reconcile` run on, that a
  page without a socket dials and that one which hears nothing gives up. `Lock` gets weak
  fairness only: each writer has finitely many changes to publish.

## Proofs

`StatusSync_proofs` proves, for all `Sources`, `Games`, sets of goroutines and
`MaxFaults` allowed by the assumptions of `StatusSync`:

- `TypeCorrect`: `Spec => []TypeOK`. `TypeOK` is not inductive: a handler that
  reads `row[job[p].src]` needs its source to be one. `JobKnown` says which
  handlers have one and until when, and the two are proved together
  (`TypesAndJobs`).
- `MutexesHeld`: `Spec => []LockDiscipline`. Inductive given `TypeOK`. The lemma
  `AsideSteps` sorts every step into the ten that touch mutexes, passes or
  preferences, or land late, and the rest, which satisfy `Aside`; the later proofs use it too.
- `ConsentRespected`: `Spec => []OffStaysOff`, by `MutedUnseen`: a pass has no
  muted source among those it has still to walk, nor in what it desires.
- `StopsAreFinal`: if all who reconcile share one mutex (`OneMutex`) and nobody disables,
  `Spec => []StopIsFinal`. The two hypotheses are exactly the two races above that break it.
  `OneMutex` holds of the callers of the shared `Reconciler`, however many, and of a poll
  loop that is alone with the sweep (an account that plays on Steam only, while nobody
  touches its settings); that it keeps two out of `Reconcile` at once needs
  `SweepsOnly`, the sweep never being one of them. The
  invariant, `SilentInv`, adds that a stopped source is off and muted in any
  pass under way, and that a pass which is writing has already settled every
  rkey it has no work left on, unless something has gone wrong since it began; it
  needs that only one goroutine is inside `Reconcile` (`OneInside`, from `LockDiscipline`).
- `PublishedAtRest` (`AtRest_proofs`): under the same hypotheses,
  `Spec => []AtRestPublished`. The
  property speaks of quiet states only, so the invariant, `PublishedInv`, must say
  what holds on the way there: once the state is `Settled` (nothing owed, nobody
  between a change and its own `Reconcile`), a pass under way `Tracks` the rows
  as they are now, whoever wrote them, and with no pass under way the
  collection is consistent. The lemma `QuietSteps` shows that a step to a
  settled state either belongs to `Reconcile` or started from a settled state
  and changed nothing that matters; the steps of `Reconcile` have a lemma each.
- `EngineKeepsBoard` (`Board_proofs`): under these hypotheses too,
  `Spec => SyncsBoard`, the refinement. It needs all the invariants above at once: from
  `SilentInv` that a round writes nothing barred or stopped, from `PublishedInv` that
  with nothing due it writes only what is wanted and ends only when the collection is
  faithful. The lemmas take one abstract action each (`LockOpens`, `WriteWrites`, `UnlockCloses`,
  `GiveUpFails`, `LandIsLate`, ...); a step that is aside of the mutex is a `Change`, or, by
  `QuietSteps`, none at all when it leaves nothing due.
- `ReadersMayRely` (`StatusBoard_proofs`) proves `RestsFaithful` and `StopsHold` of
  `StatusBoard` itself, by `BoardInv`; `ReadersOfStatusesRely` carries both over the refinement, so
  that they hold of the engine in the words of the abstract specification.

`PollBudget_proofs` proves, for every length of the day, budget, batch size and
number of accounts:

- `TypeCorrect`, `CeilingHolds` and `LimitsHeeded`, together from `BudgetInv`:
  what was sent and what the tick has yet to send are within what was reserved,
  and after a 429 everything counts as used.
- `TwoSkipsAtMost`: `Spec => []NeverThreeSkips`. `SkipInv` follows the window's age:
  after one refusal the loop sleeps to midnight, when the window is at least as
  old as the day (`age >= tod`); after a second it sleeps on to the next, when the
  window is over. That `tod` and `age` both only move with the clock makes it
  insensitive to delays. The quotients are bounded by lemmas on `\div`.

`ClaimWatch_proofs`, for any sets of keys, users, names and goroutines, whose
parts may overlap in any way:

- `TypeCorrect` and `LinksAttested` (`Attested`) from `WatchInv`: what a goroutine
  carries has a source in the log for the name (`Sourced`), and members have held the names
  the cache has for them (`MembersHeld`). The types are not inductive by
  themselves: `UpsertClaim` writes what `Resolve` left. The lemma `Maximum`, by
  well-foundedness, makes `Record`'s `CHOOSE` a commit of the log.
- `WatchNeverCeases` (`AlwaysWatched`) and `NoListenerLeaks` (`NoneLeftBehind`), each inductive
  with the types: `Restart` waits for the listener it closed before the next one may.
- `ReplayIsComplete` (`RedialLosesNothing`), with `CursorInv`: a cursor is behind
  `at`, and as long as it is zero nothing has been seen.

`Sessions_proofs`, from `Init` and for any number of workers, accounts and flows:

- `TypeCorrect`, `NoSpentToken` (`TokenFresh`), `OnlyOwnSessions` (`OwnSession`),
  `SignedInByOwnFlow` (`BrowserBound`), `SweepSparesLiveFlows`
  (`RequestOutlivesCookie`), all from `SessionInv`. Its core is `Mine`: what each worker
  holds between `LockSession` and `Unlock`, given that it alone holds the lock.
  With `lost` out of the way, a copy in use equals the stored one. The lemma `OneAtATime` says why the lock is enough although it is per account and the token per session:
  a session has one account, so two workers with one session want one lock.
- `SessionsImplementChain`: `Spec => TokensInStep`, the refinement. `HeldNow`
  removes the `CHOOSE` of `Held`; then each action is `Grant`, `Refresh`,
  `Lose` or a stutter: a restart, a failed save and a lost answer are each a `Lose` of
  the sessions in `lost'`, and of no other. `ChainKeepsInLine` proves `InLine` of `TokenChain`, and `TokensInLine` carries it
  over the refinement.
- `NoDeadlock` (`HoldersGetOn`). `Mine` says that a worker has the lock it acts under; this needs
  the converse, `InUse`: a mutex that is held is held by somebody who is where a holder
  should be (`LocksInUse`, `MutexInUse`). It ties the deferred reconcile of
  `recheck.go` to its purpose: `Unlock` leaves the session's lock before the pass begins.

`LiveHub_proofs`, for any pages, connections, writers and outcomes:

- `TypeCorrect`; `BeatsBringTheLatest` (`LastIsLatest`), inductive as it stands.
- `PassesSettle` (`SettledCurrent`) from `PassInv`: whoever computes or publishes holds `mu`
  (`Held`); what it is about to publish equals the rows, or another pass is still to
  come (`Fresh`); with all of them over, what was last published is the truth (`Told`).
- `TabsAgree` (`LiveShowsLast`) from `TabInv`: a registered connection is being
  served (`Registered`), sockets are distinct and silent until registered
  (`Socketed`).
- `NoTabGoesBack` (`TabsMoveOn`), an action property, from the same invariant: what `Send` sends to
  a tab in tune is either new or what it shows (`SendShows`).
- `RowsReachTheTabs` joins `PassesSettle` and `TabsAgree`: once every change has been through its
  pass and no snapshot came after it, the tabs in tune show what the rows say.
- `HubKeepsFeed`: `Spec => HubFeeds`, the refinement. `Publish` and a snapshot are a `Say`,
  a beat a `Repeat`, a lost or closed connection a `Leave`, a crash a `Restart`. `FeedKeepsInTune` proves
  `InTune` of `LiveFeed`, and `PagesInTune` carries it over.

Only model-checked: the liveness properties `TickHeals`, `StaleRemoved`,
`PollsGoOn`, `EveryoneReturns`, `WrongLinkGoesDark` and `PagesCatchUp`, since the
prover has no fairness. Every invariant, action property and refinement that a passing
run checks has a theorem; those of `StopsAreFinal`, `PublishedAtRest`, `EngineKeepsBoard` and
`ReadersOfStatusesRely` assume one mutex and no disable (`sync_shared` is the instance with the shared one).

## What does not hold

Met while modelling and left out of the properties, because no comment, doc or
test of the repository promises it:

- Consent outlives a half-done invalidation. `InvalidateClaim` deletes the claim
  before it turns the source off (`invalidate.go:24`); if the second statement
  fails, or an enable that had already looked the claim up lands after it, `on`
  stays with no claim, and the next link resumes syncing without being asked.
- A put that lands after its timeout may bring back a source that was stopped in between.
  `StopIsFinal` is about goroutines only (`Land` takes the source out of `silent`, and a stop
  counts from a pass around which nothing else went wrong), and `owed` keeps
  `AtRestPublished` out of it. A tick repairs it (`TickHeals`), for an account that is polled;
  for another it stands until the next event or the sweep (`StaleRemoved`).
- A claim that nobody has bound yet may be bound by two goroutines at once, to
  different members of one name at two times. The later write wins; `Attested` still holds.
- A restart of the process loses the commits in between for good
  (cursors are in memory), as does the time before a listener's first event.
  The sweep catches revocations; a new link waits for a recheck.
- A sweep or a recheck that runs before the guild's members are cached drops good Discord claims.
- Ticks do not heal an account that Steam leaves out of its answers (`tick.go:93`; a profile
  that is gone): it gets no pass, as `TestRunTick_SteamOmitsAccount_SkipsWithoutDeleteOrSessionReset`
  asserts, and what is published stays until the sweep or another caller.
- An account whose deletes fail every day keeps the sweep from all accounts listed after it (`SweepCut`).
- A stale record is deleted by the listing the sweep has read: one refreshed in between goes too, and
  the next pass puts it back.
- Nothing saves a refreshed token twice. If `SaveSession` fails, the worker at hand goes on with the new
  token, and unless it refreshes once more the next one presents a spent one: the
  account has to sign in again (`PersistFails`, `RefreshLost`).
- A client that stops reading its socket holds `Hub.mu` for as long as the kernel keeps the connection, and with it
  the next pass, and with that every pass of the shared `Reconciler` (`Stall`).
- A link whose record was replaced by one that cannot be unmarshalled, or whose signing
  key cannot be had, stays synced: the sweep passes over it every day, as an
  uncertain outcome (`claims/sweep.go:104`, `:115`).
- `Serve` computes its snapshot outside `mu`: one that is overtaken by a
  pass overwrites it in every tab until the next publication. `SettledCurrent` leaves this case out.

## Not modelled

- Signatures, canonical JSON, HTML and Discord's formats, the OAuth library's
  inside, rendering: conversions without state.
- Migrations, configuration and wiring in `main.go`, except for its loops: they
  run once, before any goroutine.
- The game cache and the detectable index: read-through, never invalidated, so
  that an answer does not change; a failure to resolve is a `GiveUp`. The key
  cache of `keytrace` is the same.
- The Steam `online` flag, party members of a presence, the welcome message:
  only displayed.
- Member events in another order than Discord sent them: `cache` takes the current
  name or none. Presence events of one user in the wrong order: the
  rows say what the later write says, and the collection follows the rows.
- Two accounts that claim one subject (`tick.go:73`).
- `RunStatusSweep` does not compare the record's type (`sweep.go:113`); every record of
  the model's collection has it.

## Plan

1. `StatusSync`, `PollBudget`: the sync engine and the budget (done, with theorems).
2. `ClaimWatch`, `Sessions` over `TokenChain`, `LiveHub` (done, with theorems).
3. Abstract specifications of the sync engine (`StatusBoard`) and the live channel
   (`LiveFeed`), and the proofs that the code implements them (done).
4. The safe halves of the liveness properties as theorems: what an undisturbed pass
   leaves behind whoever shares the collection with it (`TickHeals`), and what a
   sweep that nobody overtakes leaves of a wrong link (`WrongLinkGoesDark`).
5. Two accounts with one claim subject in `StatusSync`'s tick; the order of presence events.
6. The game cache, if its answers ever come to be invalidated.
