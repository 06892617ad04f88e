----------------------------- MODULE StatusBoard -----------------------------
(***************************************************************************)
(* What the sync engine promises of one account's status records, with no  *)
(* goroutine, statement, mutex or failing request in sight: changes come   *)
(* at any time, rounds of publication come one at a time, and a round that *)
(* no change has overtaken leaves the collection saying what is wanted.    *)
(***************************************************************************)
CONSTANTS
    Sources,
    Games,      \* record keys
    Rival,      \* `via` of another instance sharing the collection
    None

VARIABLES
    enabled,    \* sources the user wants published
    wanted,     \* for each game, the statuses that would be right, one or several
    board,      \* the status of each game in the collection
    due,        \* has something changed, or gone wrong, that no round has taken up?
    round,      \* is a round under way?
    barred,     \* sources that have not been enabled since it began
    stopped     \* sources withdrawn for good, until they are enabled again

vars == <<enabled, wanted, board, due, round, barred, stopped>>

\* A status names the source it comes from; a torn one mixes two reports.
Statuses == [by : Sources \cup {None, Rival}, torn : BOOLEAN]
Nothing == [by |-> None, torn |-> FALSE]

\* The collection says what is wanted; what another instance put is its own affair.
Faithful == \A g \in Games : board[g].by = Rival \/ board[g] \in wanted[g]

Shows(s) == \E g \in Games : board[g].by = s

\* The program starts on whatever it finds, and owes a first round.
Init ==
    /\ enabled \in SUBSET Sources
    /\ wanted \in [Games -> SUBSET Statuses]
    /\ board \in [Games -> Statuses]
    /\ due = TRUE
    /\ round = FALSE
    /\ barred = {}
    /\ stopped = {}

\* A report, a preference, a priority or a revocation.
Change ==
    /\ enabled' \in SUBSET Sources
    /\ wanted' \in [Games -> SUBSET Statuses]
    /\ due' = TRUE
    /\ barred' = barred \ enabled'
    /\ stopped' = stopped \ enabled'
    /\ UNCHANGED <<board, round>>

\* A round takes up what was due; more may be.
Open ==
    /\ due
    /\ ~round
    /\ round' = TRUE
    /\ due' \in BOOLEAN
    /\ barred' = Sources \ enabled
    /\ UNCHANGED <<enabled, wanted, board, stopped>>

\* One record is put, or deleted with Nothing.
Write(g, r) ==
    /\ round
    /\ r.by \notin barred \cup stopped \cup {Rival}
    /\ due \/ r \in wanted[g]
    /\ board' = [board EXCEPT ![g] = r]
    /\ UNCHANGED <<enabled, wanted, due, round, barred, stopped>>

\* A round that ends well; with it the withdrawal of sources may be complete.
Close ==
    /\ round
    /\ due \/ Faithful
    /\ round' = FALSE
    /\ barred' = {}
    /\ stopped \subseteq stopped'
    /\ stopped' \subseteq stopped \cup {s \in barred : ~Shows(s)}
    /\ UNCHANGED <<enabled, wanted, board, due>>

\* Something is given up, the round possibly.
Fail ==
    /\ due' = TRUE
    /\ \/ UNCHANGED <<round, barred>>
       \/ round' = FALSE /\ barred' = {}
    /\ UNCHANGED <<enabled, wanted, board, stopped>>

\* A record disappears from outside any round.
Lose(g) ==
    /\ board' = [board EXCEPT ![g] = Nothing]
    /\ due' = TRUE
    /\ UNCHANGED <<enabled, wanted, round, barred, stopped>>

\* A write that was given up is applied after all.
Late(g, r) ==
    /\ board' = [board EXCEPT ![g] = r]
    /\ due' = TRUE
    /\ stopped' = stopped \ {r.by}
    /\ UNCHANGED <<enabled, wanted, round, barred>>

RivalPut(g) ==
    /\ board' = [board EXCEPT ![g] = [by |-> Rival, torn |-> FALSE]]
    /\ UNCHANGED <<enabled, wanted, due, round, barred, stopped>>

Next ==
    \/ Change \/ Open \/ Close \/ Fail
    \/ \E g \in Games : Lose(g) \/ RivalPut(g)
    \/ \E g \in Games, r \in Statuses : Write(g, r) \/ Late(g, r)

Spec == Init /\ [][Next]_vars

(***************************************************************************)
(* What follows for whoever reads the collection.                          *)
(***************************************************************************)
\* With no round under way and none due the collection says what is wanted.
RestsFaithful == ~round /\ ~due => Faithful

\* A source withdrawn for good has no record in the collection.
StopsHold == \A s \in stopped : ~Shows(s)
=============================================================================
