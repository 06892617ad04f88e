----------------------------- MODULE TokenChain -----------------------------
(***************************************************************************)
(* What the session layer promises about an account's OAuth sessions: each *)
(* refresh replaces the token at the authorization server and the one the  *)
(* application will present next in a single step, so that the two are     *)
(* never out of line unless a fault takes the newest token half-way; the   *)
(* next refresh that is made at all puts them in line again.               *)
(***************************************************************************)
EXTENDS Naturals

CONSTANT Sids      \* session ids

VARIABLES
    server,  \* the token generation the authorization server accepts, 0 for none
    held,    \* the generation the application will present next
    lost     \* sessions whose newest token went with a fault

vars == <<server, held, lost>>

\* Some sessions may have been granted already, and are in line.
Init ==
    /\ server \in [Sids -> Nat]
    /\ held = server
    /\ lost = {}

Grant(s) ==
    /\ server[s] = 0
    /\ server' = [server EXCEPT ![s] = 1]
    /\ held' = [held EXCEPT ![s] = 1]
    /\ UNCHANGED lost

\* By whoever has the newest token: for a lost session that is at most the worker
\* that could not save it.
Refresh(s) ==
    /\ server[s] # 0
    /\ held[s] = server[s] \/ s \in lost
    /\ server' = [server EXCEPT ![s] = @ + 1]
    /\ held' = [held EXCEPT ![s] = server[s] + 1]
    /\ lost' = lost \ {s}

\* A restart, a failed save or an answer that does not arrive may lose the newest
\* token of some sessions, and of no other.
Lose ==
    /\ lost \subseteq lost'
    /\ lost' \subseteq Sids
    /\ held' \in [Sids -> Nat]
    /\ server' \in [Sids -> Nat]
    /\ \A s \in Sids \ lost' : held'[s] = held[s] /\ server'[s] = server[s]

Next == (\E s \in Sids : Grant(s) \/ Refresh(s)) \/ Lose

Spec == Init /\ [][Next]_vars

\* What the application presents is what the authorization server accepts, but for
\* the sessions whose newest token a fault has taken.
InLine == \A s \in Sids \ lost : held[s] = server[s]
=============================================================================
