---------------------------- MODULE MCClaimWatch ----------------------------
(***************************************************************************)
(* An instance of ClaimWatch for TLC.                                      *)
(***************************************************************************)
EXTENDS ClaimWatch, TLC

CONSTANTS k, u1, u2, n, m

\* One user has a name at first, the other is not in the guild.
MCInitNames == u1 :> n @@ u2 :> None

\* A state to start from besides Init, so that one request more is left for what
\* follows: the claim is linked and synced, the only commit so far is handled, and
\* the guild no longer changes.
MCLinked ==
    /\ log = <<[k |-> k, n |-> n]>>
    /\ row = [k |-> k, user |-> u1, n |-> n]
    /\ on = TRUE
    /\ cache = MCInitNames
    /\ at = [l \in Listeners |-> IF l = First THEN 2 ELSE 1]
    /\ cursor = [l \in Listeners |-> IF l = First THEN 1 ELSE 0]
    /\ seen = [l \in Listeners |-> IF l = First THEN {1} ELSE {}]
    /\ conn = [l \in Listeners |-> IF l = First THEN "up" ELSE "off"]
    /\ current = First
    /\ closing = None
    /\ name = InitNames
    /\ held = {<<u1, n>>}
    /\ pc = [w \in Workers |-> "idle"]
    /\ job = [w \in Workers |-> NoJob]
    /\ asked = 0
    /\ moves = MaxMoves
    /\ faults = 0

MCSpec == (Init \/ MCLinked) /\ [][Next]_vars /\ Fairness
=============================================================================
