-------------------------- MODULE PollBudget_proofs --------------------------
(***************************************************************************)
(* Theorems about the Steam poll loop and its budget, for every length of  *)
(* the day, ceiling, batch size and number of accounts.                    *)
(***************************************************************************)
EXTENDS PollBudget, TLAPS

-----------------------------------------------------------------------------
(***************************************************************************)
(* Arithmetic.                                                             *)
(***************************************************************************)
LEMMA DivNat ==
  ASSUME NEW a \in Nat, NEW b \in Nat \ {0}
  PROVE  a \div b \in Nat /\ a \div b <= a
  BY SMT

LEMMA DivPositive ==
  ASSUME NEW a \in Nat, NEW b \in Nat \ {0}, b <= a
  PROVE  a \div b >= 1
  BY SMT

LEMMA DivMonotone ==
  ASSUME NEW a \in Nat, NEW c \in Nat, NEW b \in Nat \ {0}, a <= c
  PROVE  a \div b <= c \div b
  BY SMT

LEMMA NextTimeOfDay ==
  ASSUME NEW a \in Nat, NEW b \in Nat \ {0}, a < b
  PROVE  (a + 1) % b = IF a + 1 = b THEN 0 ELSE a + 1
  BY SMT

\* A poll of somebody takes at least one call, and never more than a poll of
\* everybody.
LEMMA CallsBounds ==
  ASSUME NEW n \in 0..MaxAccounts
  PROVE  /\ Calls(n) \in 0..Calls(MaxAccounts)
         /\ Calls(MaxAccounts) \in Nat
         /\ n > 0 => Calls(n) >= 1
<1> DEFINE a == n + BatchSize - 1
           c == MaxAccounts + BatchSize - 1
<1>1. BatchSize \in Nat \ {0} /\ a \in Nat /\ c \in Nat /\ a <= c
      /\ (n > 0 => BatchSize <= a)
  BY LoadAssumption
<1> HIDE DEF a, c
<1>2. a \div BatchSize \in Nat /\ c \div BatchSize \in Nat
  BY <1>1, DivNat
<1>3. a \div BatchSize <= c \div BatchSize
  BY <1>1, DivMonotone
<1>4. n > 0 => a \div BatchSize >= 1
  BY <1>1, DivPositive
<1> QED
  BY <1>2, <1>3, <1>4 DEF Calls, a, c

LEMMA DivSmall ==
  ASSUME NEW a \in Nat, NEW b \in Nat \ {0}, a < b
  PROVE  a \div b = 0
  BY SMT

LEMMA CallsOfNobody == Calls(0) = 0
<1>1. BatchSize - 1 \in Nat /\ BatchSize \in Nat \ {0} /\ BatchSize - 1 < BatchSize
      /\ 0 + BatchSize - 1 = BatchSize - 1
  BY LoadAssumption
<1>2. (BatchSize - 1) \div BatchSize = 0
  BY <1>1, DivSmall
<1> QED
  BY <1>1, <1>2 DEF Calls

\* The cadence never sleeps for longer than a day.
LEMMA IntervalBounds ==
  ASSUME NEW calls \in Nat, NEW remaining \in Nat, tod \in 0..(Day - 1)
  PROVE  NextPollInterval(calls, remaining) \in 0..Day
<1>1. UntilMidnight \in 1..Day /\ MinPollGap \in 1..Day
  BY TimeAssumption DEF UntilMidnight
<1>2. CASE calls = 0 \/ remaining < calls
  BY <1>1, <1>2 DEF NextPollInterval
<1>3. CASE calls > 0 /\ remaining >= calls
  <2> DEFINE polls == remaining \div calls
             gap == UntilMidnight \div polls
  <2>1. polls \in Nat \ {0}
    BY <1>3, DivNat, DivPositive
  <2> HIDE DEF polls
  <2>2. gap \in Nat /\ gap <= UntilMidnight
    BY <1>1, <2>1, DivNat
  <2>3. NextPollInterval(calls, remaining) = IF gap < MinPollGap THEN MinPollGap ELSE gap
    BY <1>3 DEF NextPollInterval, polls
  <2> HIDE DEF gap
  <2> QED
    BY <1>1, <2>2, <2>3, TimeAssumption
<1> QED
  BY <1>2, <1>3

-----------------------------------------------------------------------------
(***************************************************************************)
(* The ceiling.  What has been sent and what the tick has yet to send are  *)
(* within what was reserved; the rest of the invariant says when there is  *)
(* anything to send.                                                       *)
(***************************************************************************)
Reserved ==
    /\ pc \notin {"reserve", "send", "answer"} => todo = 0
    /\ pc \in {"reserve", "send"} => todo >= 1
    /\ pc \in {"send", "answer"} => sent + todo <= used
    /\ sent <= used
    /\ limits > 0 => used = Max /\ pc \notin {"send", "answer"}

BudgetInv == TypeOK /\ Reserved

LEMMA BudgetInit == Init => BudgetInv
<1> SUFFICES ASSUME Init PROVE BudgetInv
  OBVIOUS
<1>1. 0 \in 0..Calls(MaxAccounts)
  BY CallsBounds, LoadAssumption
<1>2. TypeOK
  BY <1>1, TimeAssumption, LoadAssumption DEF Init, TypeOK, Labels
<1>3. Reserved
  BY DEF Init, Reserved
<1> QED
  BY <1>2, <1>3 DEF BudgetInv

LEMMA BudgetStep == BudgetInv /\ [Next]_vars => BudgetInv'
<1> SUFFICES ASSUME BudgetInv, [Next]_vars PROVE BudgetInv'
  OBVIOUS
<1> USE TimeAssumption, LoadAssumption DEF BudgetInv, Goto, Labels, budgetVars, loopVars
<1>calls. Calls(accounts) \in 0..Calls(MaxAccounts) /\ Calls(MaxAccounts) \in Nat
          /\ (accounts > 0 => Calls(accounts) >= 1)
  BY CallsBounds DEF TypeOK
<1>used. Used \in 0..Max /\ (~Expired => Used = used) /\ (Expired => Used = 0)
         /\ Limits \in 0..1 /\ (~Expired => Limits = limits) /\ (Expired => Limits = 0)
  BY DEF Used, Limits, TypeOK
<1>1. CASE Pace
  <2>1. NextPollInterval(callsPerPoll, Remaining) \in 0..Day
    <3>1. callsPerPoll \in Nat /\ Remaining \in Nat
      BY <1>used, <1>calls DEF TypeOK, Remaining
    <3> QED
      BY <3>1, IntervalBounds DEF TypeOK
  <2>2. TypeOK'
    BY <1>1, <1>used, <1>calls, <2>1 DEF Pace, Window, Expired, TypeOK, Reserved
  <2>3. Reserved'
    BY <1>1, <1>used, <1>calls DEF Pace, Window, Expired, TypeOK, Reserved
  <2> QED
    BY <2>2, <2>3
<1>2. CASE List
  <2>1. TypeOK'
    BY <1>2, <1>used, <1>calls DEF List, TypeOK, Reserved
  <2>2. Reserved'
    BY <1>2, <1>used, <1>calls DEF List, TypeOK, Reserved
  <2> QED
    BY <2>1, <2>2
<1>3. CASE TickList
  <2>1. TypeOK'
    BY <1>3, <1>used, <1>calls DEF TickList, TypeOK, Reserved
  <2>2. CASE accounts = 0
    BY <1>3, <2>1, <2>2, CallsOfNobody DEF TickList, TypeOK, Reserved
  <2>3. CASE accounts > 0
    BY <1>3, <2>1, <2>3, <1>calls DEF TickList, TypeOK, Reserved
  <2> QED
    BY <2>2, <2>3 DEF TypeOK
<1>4. CASE ReserveCalls
  <2>1. TypeOK'
    BY <1>4, <1>used, <1>calls DEF ReserveCalls, Reserve, Fits, Window, Expired, TypeOK, Reserved
  <2>2. Reserved'
    BY <1>4, <1>used, <1>calls DEF ReserveCalls, Reserve, Fits, Window, Expired, TypeOK, Reserved
  <2> QED
    BY <2>1, <2>2
<1>5. CASE SkipTick
  <2>1. TypeOK'
    BY <1>5, <1>used, <1>calls DEF SkipTick, Refuse, Window, Expired, TypeOK, Reserved
  <2>2. Reserved'
    BY <1>5, <1>used, <1>calls DEF SkipTick, Refuse, Window, Expired, TypeOK, Reserved
  <2> QED
    BY <2>1, <2>2
<1>6. CASE SendBatch
  <2>1. TypeOK'
    BY <1>6, <1>used, <1>calls DEF SendBatch, TypeOK, Reserved
  <2>2. Reserved'
    BY <1>6, <1>used, <1>calls DEF SendBatch, TypeOK, Reserved
  <2> QED
    BY <2>1, <2>2
<1>7. CASE Answered
  <2>1. TypeOK'
    BY <1>7, <1>used, <1>calls DEF Answered, TypeOK, Reserved
  <2>2. Reserved'
    BY <1>7, <1>used, <1>calls DEF Answered, TypeOK, Reserved
  <2> QED
    BY <2>1, <2>2
<1>8. CASE TooManyRequests
  <2>1. TypeOK'
    BY <1>8, <1>used, <1>calls DEF TooManyRequests, Exhaust, Window, Expired, TypeOK, Reserved
  <2>2. Reserved'
    BY <1>8, <1>used, <1>calls DEF TooManyRequests, Exhaust, Window, Expired, TypeOK, Reserved
  <2> QED
    BY <2>1, <2>2
<1>9. CASE GiveUp
  <2>1. TypeOK'
    BY <1>9, <1>used, <1>calls DEF GiveUp, TypeOK, Reserved
  <2>2. Reserved'
    BY <1>9, <1>used, <1>calls DEF GiveUp, TypeOK, Reserved
  <2> QED
    BY <2>1, <2>2
<1>10. CASE Restart
  <2>1. TypeOK'
    BY <1>10, <1>used, <1>calls DEF Restart, TypeOK, Reserved
  <2>2. Reserved'
    BY <1>10, <1>used, <1>calls DEF Restart, TypeOK, Reserved
  <2> QED
    BY <2>1, <2>2
<1>11. CASE Tick
  <2>1. tod' \in 0..(Day - 1)
    BY <1>11, NextTimeOfDay DEF Tick, TypeOK
  <2>2. TypeOK'
    BY <1>11, <1>used, <1>calls, <2>1 DEF Tick, Expired, TypeOK, Reserved
  <2>3. Reserved'
    BY <1>11, <1>used, <1>calls DEF Tick, Expired, TypeOK, Reserved
  <2> QED
    BY <2>2, <2>3
<1>12. CASE AccountsChange
  <2>1. TypeOK'
    BY <1>12, <1>used, <1>calls DEF AccountsChange, TypeOK, Reserved
  <2>2. Reserved'
    BY <1>12, <1>used, <1>calls DEF AccountsChange, TypeOK, Reserved
  <2> QED
    BY <2>1, <2>2
<1>13. CASE UNCHANGED vars
  <2>1. TypeOK'
    BY <1>13, <1>used, <1>calls DEF vars, TypeOK, Reserved
  <2>2. Reserved'
    BY <1>13, <1>used, <1>calls DEF vars, TypeOK, Reserved
  <2> QED
    BY <2>1, <2>2
<1> QED
  BY <1>1, <1>2, <1>3, <1>4, <1>5, <1>6, <1>7, <1>8, <1>9, <1>10, <1>11, <1>12, <1>13 DEF Next, Loop

LEMMA BudgetKept == Spec => []BudgetInv
  BY BudgetInit, BudgetStep, PTL DEF Spec

\* Every variable keeps its shape, for any day, budget, batch size and load.
THEOREM TypeCorrect == Spec => []TypeOK
<1>1. BudgetInv => TypeOK
  BY DEF BudgetInv
<1> QED
  BY <1>1, BudgetKept, PTL

\* No more requests in a window than were reserved, nor than the ceiling: from
\* Reserved, which accounts for the requests a tick has yet to send.
THEOREM CeilingHolds == Spec => []CeilingKept
<1>1. BudgetInv => CeilingKept
  BY LoadAssumption DEF BudgetInv, Reserved, TypeOK, CeilingKept
<1> QED
  BY <1>1, BudgetKept, PTL

\* After a 429 nothing is sent until the window is reset.
THEOREM LimitsHeeded == Spec => []LimitHeeded
<1>1. BudgetInv => LimitHeeded
  BY DEF BudgetInv, Reserved, LimitHeeded
<1> QED
  BY <1>1, BudgetKept, PTL

-----------------------------------------------------------------------------
(***************************************************************************)
(* Refusals.  After one refusal the loop sleeps to midnight, and the       *)
(* window is then at least as old as the day (age >= tod); after a second  *)
(* it sleeps to the next midnight, by when the window is over.  Jitter     *)
(* only makes the window older.                                            *)
(***************************************************************************)
Fit == used + Calls(accounts) <= Max

Waits ==
    \/ pc = "pace" /\ (skips = 2 => age >= tod)
    \/ /\ pc # "pace" /\ skips = 1
       /\ IF left = 0 THEN age >= tod ELSE left = Day - tod
    \/ pc # "pace" /\ skips = 2 /\ age + left >= Day

SkipInv ==
    /\ pc # "sleep" => left = 0
    /\ skips > 0 =>
          /\ skips <= 2
          /\ pc \notin {"send", "answer"}
          /\ Fit \/ used + callsPerPoll > Max
          /\ pc \in {"tick", "reserve"} => callsPerPoll = Calls(accounts)
          /\ pc = "reserve" => todo = Calls(accounts)
          /\ Fit \/ Waits

LEMMA SkipStep ==
  Calls(MaxAccounts) <= Max /\ BudgetInv /\ SkipInv /\ [Next]_vars => SkipInv'
<1> SUFFICES ASSUME Calls(MaxAccounts) <= Max, BudgetInv, SkipInv, [Next]_vars
             PROVE  SkipInv'
  OBVIOUS
<1> USE TimeAssumption, LoadAssumption DEF SkipInv, Fit, Waits, Goto, Labels, budgetVars, loopVars
<1>type. TypeOK
  BY DEF BudgetInv
<1>calls. Calls(accounts) \in 0..Calls(MaxAccounts) /\ Calls(MaxAccounts) \in Nat
          /\ Calls(accounts) <= Max
  BY CallsBounds, <1>type DEF TypeOK
<1>1. CASE Pace
  <2>1. pc = "pace" /\ pc' = "sleep" /\ UNCHANGED <<tod, accounts, callsPerPoll, skips>>
    BY <1>1 DEF Pace
  <2>2. CASE Expired
    <3>1. used' = 0
      BY <1>1, <2>2 DEF Pace, Window, Used
    <3> QED
      BY <2>1, <3>1, <1>calls, <1>type DEF TypeOK
  <2>3. CASE ~Expired
    <3>1. used' = used /\ age' = age /\ age < Day /\ Remaining = Max - used
      BY <1>1, <2>3, <1>type DEF Pace, Window, Used, Remaining, Expired, TypeOK
    <3>2. CASE Fit
      BY <2>1, <3>1, <3>2, <1>calls, <1>type DEF TypeOK
    <3>3. CASE skips > 0 /\ ~Fit
      <4>1. callsPerPoll > 0 /\ Remaining < callsPerPoll
        BY <2>1, <3>1, <3>3, <1>calls, <1>type DEF TypeOK
      <4>2. left' = Day - tod
        BY <1>1, <4>1 DEF Pace, NextPollInterval, UntilMidnight
      <4> QED
        BY <2>1, <3>1, <3>3, <4>2, <1>calls, <1>type DEF TypeOK
    <3> QED
      BY <2>1, <3>2, <3>3, <1>type DEF TypeOK
  <2> QED
    BY <2>2, <2>3
<1>2. CASE List
  BY <1>2, <1>calls, <1>type DEF List, TypeOK
<1>3. CASE TickList
  <2>1. CASE accounts = 0
    BY <1>3, <2>1, <1>calls, <1>type DEF TickList, TypeOK
  <2>2. CASE accounts # 0
    BY <1>3, <2>2, <1>calls, <1>type DEF TickList, TypeOK
  <2> QED
    BY <2>1, <2>2
<1>4. CASE ReserveCalls
  BY <1>4, <1>type DEF ReserveCalls, TypeOK
<1>5. CASE SkipTick
  <2>1. CASE skips' = 0
    BY <1>5, <2>1 DEF SkipTick
  <2>2. CASE skips' > 0 /\ Expired
    BY <1>5, <2>2, <1>calls, <1>type DEF SkipTick, Refuse, Fits, Used, TypeOK
  <2>3. CASE skips' > 0 /\ ~Expired
    BY <1>5, <2>3, <1>calls, <1>type DEF SkipTick, Refuse, Fits, Used, Window, Expired, TypeOK
  <2> QED
    BY <1>5, <2>1, <2>2, <2>3, <1>type DEF SkipTick, TypeOK
<1>6. CASE SendBatch
  BY <1>6, <1>type DEF SendBatch, TypeOK
<1>7. CASE Answered
  BY <1>7, <1>type DEF Answered, TypeOK
<1>8. CASE TooManyRequests
  BY <1>8, <1>type DEF TooManyRequests, TypeOK
<1>9. CASE GiveUp
  BY <1>9, <1>calls, <1>type DEF GiveUp, TypeOK
<1>10. CASE Restart
  BY <1>10 DEF Restart
<1>11. CASE Tick
  <2>1. tod' = IF tod + 1 = Day THEN 0 ELSE tod + 1
    BY <1>11, <1>type, NextTimeOfDay DEF Tick, TypeOK
  <2> QED
    BY <1>11, <2>1, <1>calls, <1>type DEF Tick, Expired, TypeOK
<1>12. CASE AccountsChange
  BY <1>12 DEF AccountsChange
<1>13. CASE UNCHANGED vars
  BY <1>13 DEF vars
<1> QED
  BY <1>1, <1>2, <1>3, <1>4, <1>5, <1>6, <1>7, <1>8, <1>9, <1>10, <1>11, <1>12, <1>13
     DEF Next, Loop

\* With a load that fits the budget, no more than two ticks in a row are refused.
THEOREM TwoSkipsAtMost == Spec => []NeverThreeSkips
<1>1. CASE Calls(MaxAccounts) <= Max
  <2>1. Init => SkipInv
    BY DEF Init, SkipInv
  <2>2. BudgetInv /\ SkipInv /\ [Next]_vars => SkipInv'
    BY <1>1, SkipStep
  <2>3. BudgetInv /\ SkipInv => NeverThreeSkips
    BY DEF BudgetInv, TypeOK, SkipInv, NeverThreeSkips
  <2> QED
    BY <2>1, <2>2, <2>3, BudgetKept, PTL DEF Spec
<1>2. CASE ~(Calls(MaxAccounts) <= Max)
  <2>1. NeverThreeSkips
    BY <1>2 DEF NeverThreeSkips
  <2> QED
    BY <2>1, PTL
<1> QED
  BY <1>1, <1>2
=============================================================================
