----------------------------- MODULE PollBudget -----------------------------
(***************************************************************************)
(* The Steam poll loop of cmd/server/main.go as its daily call budget and  *)
(* its cadence see it (internal/steam/budget.go, internal/sync/schedule.go *)
(* and the first half of RunTick).  What a tick does with the answers is   *)
(* in StatusSync.                                                          *)
(*                                                                         *)
(* Two clocks meet here: the cadence aims at UTC midnight, while the       *)
(* budget's window lasts a day from the first call after the previous one. *)
(* Only the loop calls the budget, so its mutex is left out.               *)
(***************************************************************************)
EXTENDS Integers

CONSTANTS
    Day,          \* units of time in a day
    MinPollGap,   \* the cadence's floor, in the same unit
    Max,          \* STEAM_DAILY_CALL_BUDGET
    BatchSize,    \* accounts one Steam request asks for
    MaxAccounts,  \* bound on the accounts enabled at once
    MaxFaults     \* bound on failed queries and requests (429s aside) and restarts

ASSUME TimeAssumption ==
    /\ Day \in Nat \ {0}
    /\ MinPollGap \in 1..Day

ASSUME LoadAssumption ==
    /\ Max \in Nat
    /\ BatchSize \in Nat \ {0}
    /\ MaxAccounts \in Nat
    /\ MaxFaults \in Nat

VARIABLES
    tod,           \* time of day, UTC
    age,           \* time since windowStart; Day stands for a day or longer
    used,          \* Budget.used
    callsPerPoll,  \* the loop's local: what its last listing comes to in calls
    accounts,      \* accounts enabled for Steam whose claim is there
    pc,            \* what the loop does next
    left,          \* what is left of its sleep
    todo,          \* requests GetPlayerSummaries has yet to send
    faults,        \* how many failures and restarts so far
    sent,          \* history: requests sent in this window of the budget
    limits,        \* history: 429s in this window of the budget
    skips          \* history: ticks refused in a row, foreseen by the cadence

budgetVars == <<age, used, sent, limits>>
loopVars == <<callsPerPoll, pc, left, todo, skips>>
vars == <<tod, accounts, faults, budgetVars, loopVars>>

Labels == {"pace", "sleep", "tick", "reserve", "send", "answer"}

Init ==
    /\ tod \in 0..(Day - 1)
    /\ accounts \in 0..MaxAccounts
    /\ age = 0 /\ used = 0 /\ sent = 0 /\ limits = 0
    /\ callsPerPoll = 0 /\ pc = "pace" /\ left = 0 /\ todo = 0 /\ skips = 0
    /\ faults = 0

Calls(n) == (n + BatchSize - 1) \div BatchSize

-----------------------------------------------------------------------------
(***************************************************************************)
(* The budget.  Each of its methods starts with resetIfExpired.            *)
(***************************************************************************)
Expired == age >= Day

\* Mutant of Used: the window is renewed, its count is not.
NeverReset == used

\* b.used once resetIfExpired has run.
Used == IF Expired THEN 0 ELSE used

Remaining == Max - Used

Limits == IF Expired THEN 0 ELSE limits

\* A method that leaves b.used at u, after n 429s.
Window(u, n) ==
    /\ used' = u
    /\ age' = IF Expired THEN 0 ELSE age
    /\ sent' = IF Expired THEN 0 ELSE sent
    /\ limits' = n

\* Mutant of Fits: is there anything left?
FitsAnything(n) == Used < Max

Fits(n) == Used + n <= Max

Reserve(n) ==
    /\ Fits(n)
    /\ Window(Used + n, Limits)

Refuse(n) ==
    /\ ~Fits(n)
    /\ Window(Used, Limits)

\* Mutant of Exhaust: a 429 counts for the calls already reserved.
ExhaustReserved == Window(Used, 1)

Exhaust == Window(Max, 1)

-----------------------------------------------------------------------------
(***************************************************************************)
(* The loop.                                                               *)
(***************************************************************************)
\* Mutant of UntilMidnight: the midnight after the next one.
UntilDayAfter == 2 * Day - tod

UntilMidnight == Day - tod

\* Mutant of NextPollInterval: a spent budget is no different from a large one.
PollEveryGap(calls, remaining) ==
    LET polls == IF calls = 0 THEN 0 ELSE remaining \div calls
        gap == IF polls = 0 THEN 0 ELSE UntilMidnight \div polls
    IN  IF gap < MinPollGap THEN MinPollGap ELSE gap

NextPollInterval(calls, remaining) ==
    CASE calls = 0 -> MinPollGap
      [] calls > 0 /\ remaining < calls -> UntilMidnight
      [] OTHER -> LET gap == UntilMidnight \div (remaining \div calls)
                  IN  IF gap < MinPollGap THEN MinPollGap ELSE gap

Goto(label) == pc' = label

\* Remaining, the clock and the interval are the arguments of one call to Sleep.
Pace ==
    /\ pc = "pace"
    /\ left' = NextPollInterval(callsPerPoll, Remaining)
    /\ Window(Used, Limits)
    /\ Goto("sleep")
    /\ UNCHANGED <<tod, accounts, faults, callsPerPoll, todo, skips>>

List ==
    /\ pc = "sleep"
    /\ left = 0
    /\ callsPerPoll' = Calls(accounts)
    /\ Goto("tick")
    /\ UNCHANGED <<tod, accounts, faults, budgetVars, left, todo, skips>>

\* RunTick lists the accounts again, and returns early when there are none.
TickList ==
    /\ pc = "tick"
    /\ todo' = Calls(accounts)
    /\ Goto(IF accounts = 0 THEN "pace" ELSE "reserve")
    /\ UNCHANGED <<tod, accounts, faults, budgetVars, callsPerPoll, left, skips>>

ReserveCalls ==
    /\ pc = "reserve"
    /\ Reserve(todo)
    /\ Goto("send")
    /\ skips' = 0
    /\ UNCHANGED <<tod, accounts, faults, callsPerPoll, left, todo>>

\* The budget is exhausted: the tick is skipped.  A refusal counts if it is one
\* the cadence will know of, its estimate being what was asked for; past the
\* third nobody counts.
SkipTick ==
    /\ pc = "reserve"
    /\ Refuse(todo)
    /\ Goto("pace")
    /\ skips' = CASE callsPerPoll # todo -> 0 [] skips = 3 -> 3 [] OTHER -> skips + 1
    /\ todo' = 0
    /\ UNCHANGED <<tod, accounts, faults, callsPerPoll, left>>

SendBatch ==
    /\ pc = "send"
    /\ todo' = todo - 1
    /\ sent' = sent + 1
    /\ Goto("answer")
    /\ UNCHANGED <<tod, accounts, faults, age, used, limits, callsPerPoll, left, skips>>

\* Once every batch is answered the tick goes on in StatusSync, then returns.
Answered ==
    /\ pc = "answer"
    /\ Goto(IF todo = 0 THEN "pace" ELSE "send")
    /\ UNCHANGED <<tod, accounts, faults, budgetVars, callsPerPoll, left, todo, skips>>

\* Steam answers 429: the batches left are not sent.
TooManyRequests ==
    /\ pc = "answer"
    /\ Exhaust
    /\ todo' = 0
    /\ Goto("pace")
    /\ UNCHANGED <<tod, accounts, faults, callsPerPoll, left, skips>>

\* A query or a request fails; the loop logs it and goes on.
GiveUp ==
    /\ faults < MaxFaults
    /\ pc \in {"tick", "answer"} \/ (pc = "sleep" /\ left = 0)
    /\ faults' = faults + 1
    /\ todo' = 0
    /\ Goto("pace")
    /\ UNCHANGED <<tod, accounts, budgetVars, callsPerPoll, left, skips>>

\* The budget and the estimate are in memory only.
Restart ==
    /\ faults < MaxFaults
    /\ faults' = faults + 1
    /\ age' = 0 /\ used' = 0 /\ sent' = 0 /\ limits' = 0
    /\ callsPerPoll' = 0 /\ pc' = "pace" /\ left' = 0 /\ todo' = 0 /\ skips' = 0
    /\ UNCHANGED <<tod, accounts>>

-----------------------------------------------------------------------------
(***************************************************************************)
(* Time, which passes between any two steps, and users who come and go.    *)
(***************************************************************************)
Tick ==
    /\ tod' = (tod + 1) % Day
    /\ age' = IF Expired THEN age ELSE age + 1
    /\ left' = IF left = 0 THEN 0 ELSE left - 1
    /\ UNCHANGED <<accounts, faults, used, sent, limits, callsPerPoll, pc, todo, skips>>

\* The refusals counted are those of an unchanged load.
AccountsChange ==
    /\ \E n \in (0..MaxAccounts) \ {accounts} : accounts' = n
    /\ skips' = 0
    /\ UNCHANGED <<tod, faults, budgetVars, callsPerPoll, pc, left, todo>>

Loop == Pace \/ List \/ TickList \/ ReserveCalls \/ SkipTick \/ SendBatch

Next == Loop \/ Answered \/ TooManyRequests \/ GiveUp \/ Restart \/ Tick \/ AccountsChange

Spec == Init /\ [][Next]_vars

\* Sleep returns, queries end and time goes on.  Nothing makes a request to
\* Steam end: its client has no timeout and RunTick gets no deadline.
FairSpec == Spec /\ WF_vars(Loop) /\ WF_vars(Tick)

-----------------------------------------------------------------------------
\* Every variable keeps its shape; the budget is never overdrawn.
TypeOK ==
    /\ tod \in 0..(Day - 1)
    /\ age \in 0..Day
    /\ used \in 0..Max
    /\ callsPerPoll \in 0..Calls(MaxAccounts)
    /\ accounts \in 0..MaxAccounts
    /\ pc \in Labels
    /\ left \in 0..Day
    /\ todo \in 0..Calls(MaxAccounts)
    /\ faults \in 0..MaxFaults
    /\ sent \in 0..Max
    /\ limits \in 0..1
    /\ skips \in 0..3

\* "A self-imposed daily ceiling on Steam Web API calls" (budget.go:8): in one
\* window no more requests go out than were reserved, whatever fails and
\* however many batches a tick breaks off after, and never more than the ceiling.
CeilingKept == sent <= used /\ used <= Max

\* A 429 ends the day's calls (Exhaust, budget.go:51): until the window is reset
\* no request is sent, though the self-imposed ceiling was far away.
LimitHeeded == limits > 0 => pc \notin {"send", "answer"}

\* With a load that fits the budget and does not change, at most two ticks in a
\* row are refused: the loop sleeps to midnight after each, and a window that is
\* still open at one midnight is over by the next (schedule.go:27).
NeverThreeSkips == Calls(MaxAccounts) <= Max => skips <= 2

\* With anybody to poll for, Steam is polled again and again, whatever failed,
\* was refused or limited before, unless it leaves a request without an answer
\* for good (main.go:165).
PollsGoOn ==
    Calls(MaxAccounts) <= Max =>
        (<>[](accounts > 0) => []<>(pc = "send") \/ <>[](pc = "answer"))

\* "Never slower than waiting for tomorrow's budget reset" (schedule.go:14): with
\* the budget spent, the loop does not sleep longer than the window lasts.
WakesForReset ==
    pc = "sleep" /\ callsPerPoll > 0 /\ used + callsPerPoll > Max => left <= Day - age
=============================================================================
