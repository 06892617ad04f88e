-------------------------- MODULE StatusBoard_proofs --------------------------
(***************************************************************************)
(* What StatusBoard's readers may rely on, proved of StatusBoard alone.    *)
(***************************************************************************)
EXTENDS StatusBoard, TLAPS

BoardInv ==
    /\ board \in [Games -> Statuses]
    /\ barred \subseteq Sources /\ stopped \subseteq Sources
    /\ RestsFaithful
    /\ StopsHold

LEMMA BoardStep ==
  ASSUME {None, Rival} \cap Sources = {}, BoardInv, [Next]_vars
  PROVE  BoardInv'
<1> USE DEF BoardInv, RestsFaithful, StopsHold, Faithful, Shows
<1>statuses. /\ Nothing \in Statuses /\ Nothing.by = None
             /\ [by |-> Rival, torn |-> FALSE] \in Statuses
  BY DEF Nothing, Statuses
<1>1. CASE Change
  BY <1>1 DEF Change
<1>2. CASE Open
  BY <1>2 DEF Open
<1>3. CASE Close
  BY <1>3 DEF Close
<1>4. CASE Fail
  BY <1>4 DEF Fail
<1>5. ASSUME NEW g \in Games, Lose(g) PROVE BoardInv'
  BY <1>5, <1>statuses DEF Lose
<1>6. ASSUME NEW g \in Games, RivalPut(g) PROVE BoardInv'
  BY <1>6, <1>statuses DEF RivalPut
<1>7. ASSUME NEW g \in Games, NEW r \in Statuses, Write(g, r) PROVE BoardInv'
  BY <1>7 DEF Write
<1>8. ASSUME NEW g \in Games, NEW r \in Statuses, Late(g, r) PROVE BoardInv'
  BY <1>8 DEF Late
<1>9. CASE UNCHANGED vars
  BY <1>9 DEF vars
<1> QED
  BY <1>1, <1>2, <1>3, <1>4, <1>5, <1>6, <1>7, <1>8, <1>9 DEF Next

\* Whoever keeps StatusBoard's promise has the collection say what is wanted when
\* no round is under way or due, and shows nothing of a source withdrawn for good.
THEOREM ReadersMayRely ==
  ASSUME {None, Rival} \cap Sources = {}
  PROVE  Spec => [](RestsFaithful /\ StopsHold)
<1>1. Init => BoardInv
  BY DEF Init, BoardInv, RestsFaithful, StopsHold
<1>2. BoardInv /\ [Next]_vars => BoardInv'
  BY BoardStep
<1>3. BoardInv => RestsFaithful /\ StopsHold
  BY DEF BoardInv
<1> QED
  BY <1>1, <1>2, <1>3, PTL DEF Spec
=============================================================================
