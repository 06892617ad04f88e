------------------------------ MODULE LiveFeed ------------------------------
(***************************************************************************)
(* What the live channel promises an account's open settings pages: a page *)
(* that has been sent anything over the connection it has is in tune.  It  *)
(* is brought every state in the step that publishes it, and nothing else  *)
(* changes what it shows.  A page that joins is brought what is remembered *)
(* or what is published next, whichever comes first.                       *)
(***************************************************************************)
CONSTANTS
    Tabs,     \* open pages
    Values,   \* the states that can be published
    Nothing,  \* an empty list
    None

VARIABLES
    said,     \* what was published last, None for nothing yet
    kept,     \* whether it is still remembered
    tuned,    \* the pages in tune
    shows     \* what each page shows

vars == <<said, kept, tuned, shows>>

Init ==
    /\ said = None
    /\ kept = FALSE
    /\ tuned = {}
    /\ shows \in [Tabs -> Values]

\* Every page in tune shows v from now on, and those that just come into tune.
\* With nobody to hear it, it need not be remembered.
Say(v) ==
    \E S \in SUBSET Tabs :
        /\ tuned \subseteq S
        /\ said' = v
        /\ kept' \in BOOLEAN
        /\ S # {} => kept'
        /\ tuned' = S
        /\ shows' = [t \in Tabs |-> IF t \in S THEN v ELSE shows[t]]

\* What is remembered, or the empty list, is repeated: that changes nothing for
\* the pages in tune, and may bring others into tune.
Repeat ==
    \E S \in SUBSET Tabs :
        /\ tuned \subseteq S
        /\ kept' \in BOOLEAN
        /\ kept' => kept
        /\ S # {} => kept' = kept
        /\ tuned' = S
        /\ shows' = [t \in Tabs |-> IF t \in S \ tuned
                                    THEN IF kept THEN said ELSE Nothing
                                    ELSE shows[t]]
        /\ UNCHANGED said

\* Connections are lost; the pages still show what they showed.
Leave ==
    /\ tuned' \subseteq tuned
    /\ UNCHANGED <<said, kept, shows>>

\* The server restarts, and remembers nothing.
Restart ==
    /\ said' = None
    /\ kept' = FALSE
    /\ tuned' = {}
    /\ UNCHANGED shows

Next == (\E v \in Values : Say(v)) \/ Repeat \/ Leave \/ Restart

Spec == Init /\ [][Next]_vars

\* A page in tune shows what was published last; or, if nothing was remembered
\* when it joined and nothing has been published since, the empty list.
InTune == \A t \in tuned : shows[t] = IF kept THEN said ELSE Nothing
=============================================================================
