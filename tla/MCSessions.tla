----------------------------- MODULE MCSessions -----------------------------
(***************************************************************************)
(* Instances of Sessions for TLC.                                          *)
(***************************************************************************)
EXTENDS Sessions

CONSTANTS First,  \* a flow that has already ended in a session
          Home,   \* the browser it was for
          Owner   \* the account that approved it

\* The state that a first sign-in, done with, has left.
MCSignedIn ==
    /\ request = {}
    /\ begun = [f \in Flows |-> IF f = First THEN Home ELSE None]
    /\ age = [f \in Flows |-> 0]
    /\ grant = [f \in Flows |-> IF f = First THEN Owner ELSE None]
    /\ state = [b \in Browsers |-> None]
    /\ login = [b \in Browsers |-> IF b = Home THEN Owner ELSE None]
    /\ callback = [b \in Browsers |-> None]
    /\ store = [f \in Flows |-> IF f = First THEN 1 ELSE 0]
    /\ active = [d \in Dids |-> IF d = Owner THEN First ELSE None]
    /\ server = store
    /\ lost = {}
    /\ lock = [d \in Dids |-> None]
    /\ mu = None
    /\ pc = [w \in Workers |-> "idle"]
    /\ job = [w \in Workers |-> NoJob]
    /\ stalled = FALSE
    /\ faults = 0

MCFairSpec == MCSignedIn /\ [][Next]_vars /\ Fairness
=============================================================================
