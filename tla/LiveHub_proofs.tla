-------------------------- MODULE LiveHub_proofs ---------------------------
(***************************************************************************)
(* Theorems about the live channel, for every number of tabs, connections, *)
(* writers, changes and faults.                                            *)
(***************************************************************************)
EXTENDS LiveHub, TLAPS

LEMMA PayloadShown ==
  ASSUME NEW v \in Shown \cup {None}
  PROVE  Payload(v) \in Shown
  BY NamesAssumption DEF Payload, Shown

-----------------------------------------------------------------------------
(***************************************************************************)
(* What a send does, whatever it sends.                                    *)
(***************************************************************************)
LEMMA SendTypes ==
  ASSUME TypeOK, NEW v \in Shown \cup {None}, Send(v)
  PROVE  /\ conns' \in SUBSET Conns
         /\ wire' \in [Conns -> {"none", "open", "half", "closed"}]
         /\ last' \in Shown \cup {None}
         /\ shows' \in [Pages -> Shown]
         /\ heard' \in [Pages -> BOOLEAN]
<1>1. PICK F \in Failing :
        LET told == {p \in Pages : sock[p] \in conns /\ wire[sock[p]] = "open"}
        IN  /\ conns' = conns \ F
            /\ wire' = [c \in Conns |-> IF c \in F THEN "closed" ELSE wire[c]]
            /\ last' = IF conns \ F = {} THEN None ELSE v
            /\ shows' = [p \in Pages |-> IF p \in told THEN Payload(v) ELSE shows[p]]
            /\ heard' = [p \in Pages |-> IF p \in told THEN TRUE ELSE heard[p]]
  BY DEF Send, Remembered
<1>2. shows' \in [Pages -> Shown]
  BY <1>1, PayloadShown DEF TypeOK
<1>3. heard' \in [Pages -> BOOLEAN]
  BY <1>1 DEF TypeOK
<1> QED
  BY <1>1, <1>2, <1>3 DEF TypeOK

\* A send that reaches nobody forgets, and any other is what is remembered.
LEMMA SendLast ==
  ASSUME NEW v, Send(v)
  PROVE  last' \in {None, v}
  BY DEF Send, Remembered

\* A send drops no open connection, opens none, and leaves the closed ones closed.
LEMMA SendWires ==
  ASSUME TypeOK, NEW v, Send(v)
  PROVE  /\ conns' \subseteq conns
         /\ \A c \in Conns : /\ wire[c] = "open" <=> wire'[c] = "open"
                             /\ wire[c] = "none" <=> wire'[c] = "none"
                             /\ wire[c] = "open" /\ c \in conns => c \in conns'
<1>1. PICK F \in Failing :
        /\ conns' = conns \ F
        /\ wire' = [c \in Conns |-> IF c \in F THEN "closed" ELSE wire[c]]
  BY DEF Send
<1>2. \A c \in F : c \in conns /\ wire[c] \in {"half", "closed"}
  BY <1>1 DEF Failing
<1> QED
  BY <1>1, <1>2 DEF TypeOK

-----------------------------------------------------------------------------
(***************************************************************************)
(* Type correctness, one step per action.                                  *)
(***************************************************************************)
\* The pass's own variables are the only ones an action of the hub leaves alone.
LEMMA TypeOKStep ==
  ASSUME TypeOK, [Next]_vars
  PROVE  TypeOK'
<1> USE NamesAssumption, BoundsAssumption
<1>1. ASSUME Beat PROVE TypeOK'
  <2>1. last \in Shown \cup {None} /\ Send(last)
    BY <1>1 DEF Beat, TypeOK
  <2> QED
    BY <1>1, <2>1, SendTypes DEF Beat, TypeOK, rowVars, serveVars
<1>2. ASSUME NEW c \in Conns, Register(c) PROVE TypeOK'
  BY <1>2 DEF Register, TypeOK, rowVars, pageVars
<1>3. ASSUME NEW c \in Conns, ComputeSnapshot(c) PROVE TypeOK'
  BY <1>3 DEF ComputeSnapshot, TypeOK, Shown, rowVars, hubVars, pageVars
<1>4. ASSUME NEW c \in Conns, NoSnapshot(c) PROVE TypeOK'
  BY <1>4 DEF NoSnapshot, TypeOK, rowVars, hubVars, pageVars
<1>5. ASSUME NEW c \in Conns, PublishSnapshot(c) PROVE TypeOK'
  <2>1. snap[c] \in Shown \cup {None} /\ Send(snap[c]) /\ latest' = snap[c]
    BY <1>5 DEF PublishSnapshot, Publish, TypeOK
  <2> QED
    BY <1>5, <2>1, SendTypes DEF PublishSnapshot, TypeOK, rowVars
<1>6. ASSUME NEW c \in Conns, Deregister(c) PROVE TypeOK'
  BY <1>6 DEF Deregister, TypeOK, Shown, rowVars, pageVars
<1>7. ASSUME NEW p \in Pages, Drop(p) PROVE TypeOK'
  BY <1>7 DEF Drop, TypeOK, rowVars, hubVars, serveVars
<1>8. ASSUME NEW p \in Pages, HalfOpen(p) PROVE TypeOK'
  BY <1>8 DEF HalfOpen, TypeOK, rowVars, hubVars, serveVars
<1>9. ASSUME NEW p \in Pages, Silence(p) PROVE TypeOK'
  BY <1>9 DEF Silence, TypeOK, rowVars, hubVars, serveVars
<1>10. ASSUME NEW p \in Pages, NEW c \in Conns, Dial(p, c) PROVE TypeOK'
  BY <1>10 DEF Dial, TypeOK, rowVars, hubVars
<1>11. ASSUME NEW v \in Outcomes, Tick(v) PROVE TypeOK'
  BY <1>11 DEF Tick, ChangeRows, TypeOK, hubVars, serveVars, pageVars
<1>12. ASSUME NEW v \in Outcomes, NEW w \in Writers, Change(w, v) PROVE TypeOK'
  BY <1>12 DEF Change, ChangeRows, TypeOK, hubVars, serveVars, pageVars
<1>13. ASSUME NEW w \in Writers, Lock(w) PROVE TypeOK'
  BY <1>13 DEF Lock, TypeOK, hubVars, serveVars, pageVars
<1>14. ASSUME NEW w \in Writers, Compute(w) PROVE TypeOK'
  BY <1>14 DEF Compute, TypeOK, Shown, hubVars, serveVars, pageVars
<1>15. ASSUME NEW w \in Writers, PublishPass(w) PROVE TypeOK'
  <2>1. wsnap[w] \in Shown \cup {None} /\ Send(wsnap[w]) /\ latest' = wsnap[w]
    BY <1>15 DEF PublishPass, Publish, TypeOK
  <2> QED
    BY <1>15, <2>1, SendTypes DEF PublishPass, Return, TypeOK, Shown, serveVars
<1>16. ASSUME NEW w \in Writers, FailPass(w) PROVE TypeOK'
  BY <1>16 DEF FailPass, Return, TypeOK, Shown, hubVars, serveVars, pageVars
<1>17. ASSUME Crash PROVE TypeOK'
  BY <1>17 DEF Crash, TypeOK, Shown
<1>18. ASSUME UNCHANGED vars PROVE TypeOK'
  BY <1>18 DEF TypeOK, vars, rowVars, hubVars, serveVars, pageVars
<1> QED
  BY <1>1, <1>2, <1>3, <1>4, <1>5, <1>6, <1>7, <1>8, <1>9, <1>10, <1>11, <1>12,
     <1>13, <1>14, <1>15, <1>16, <1>17, <1>18 DEF Next, Serving

LEMMA TypeOKInit ==
  ASSUME Init
  PROVE  TypeOK
<1>1. changes \in 0..MaxChanges /\ faults \in 0..MaxFaults
  BY BoundsAssumption DEF Init
<1>2. heard \in [Pages -> BOOLEAN] /\ unread \in BOOLEAN /\ byPass \in BOOLEAN
  BY DEF Init
<1>3. wsnap \in [Writers -> Shown] /\ snap \in [Conns -> Shown] /\ shows \in [Pages -> Shown]
  BY DEF Init, Shown
<1> QED
  BY <1>1, <1>2, <1>3, NamesAssumption DEF Init, TypeOK, Shown

\* Every variable keeps its shape, whatever is lost and however often the server
\* restarts: in particular no page is ever sent Go's nil.
THEOREM TypeCorrect == Spec => []TypeOK
<1>1. Init => TypeOK
  BY TypeOKInit
<1>2. TypeOK /\ [Next]_vars => TypeOK'
  BY TypeOKStep
<1> QED
  BY <1>1, <1>2, PTL DEF Spec
-----------------------------------------------------------------------------
(***************************************************************************)
(* What the hub remembers.                                                 *)
(***************************************************************************)
LEMMA LastIsLatestStep ==
  ASSUME LastIsLatest, [Next]_vars
  PROVE  LastIsLatest'
<1>1. ASSUME NEW v, Publish(v) PROVE LastIsLatest'
  BY <1>1, SendLast DEF Publish, LastIsLatest
<1>2. CASE Beat
  BY <1>2, SendLast DEF Beat, LastIsLatest
<1>3. CASE Crash
  BY <1>3 DEF Crash, LastIsLatest
<1>4. ASSUME UNCHANGED <<last, latest>> PROVE LastIsLatest'
  BY <1>4 DEF LastIsLatest
<1>5. \/ \E v : Publish(v)
      \/ Beat
      \/ Crash
      \/ UNCHANGED <<last, latest>>
  BY DEF Next, Serving, Register, ComputeSnapshot, PublishSnapshot, Deregister, NoSnapshot, Drop,
         HalfOpen, Silence, Dial, Tick, Change, Lock, Compute, PublishPass, FailPass, vars, hubVars
<1> QED
  BY <1>1, <1>2, <1>3, <1>4, <1>5

\* The heartbeat never brings anything older than what was last published, though
\* the hub's memory outlives the connections and a beat may find it first.
THEOREM BeatsBringTheLatest == Spec => []LastIsLatest
<1>1. Init => LastIsLatest
  BY DEF Init, LastIsLatest
<1>2. LastIsLatest /\ [Next]_vars => LastIsLatest'
  BY LastIsLatestStep
<1> QED
  BY <1>1, <1>2, PTL DEF Spec

-----------------------------------------------------------------------------
(***************************************************************************)
(* The passes: the one that computes last publishes last.                  *)
(***************************************************************************)
\* Whoever has computed or is about to holds the mutex.
Held == \A w \in Writers : wpc[w] \in {"compute", "publish"} => mu = w

\* What a pass is about to publish is what the rows say, or another is to come.
Fresh ==
    \A w \in Writers :
        wpc[w] = "publish" => wsnap[w] = truth \/ unread \/ \E x \in Writers : wpc[x] = "lock"

\* With every pass over, what was published last is what the rows say.
Told ==
    (\A w \in Writers : wpc[w] = "idle") /\ ~unread /\ byPass => latest \in {None, truth}

PassInv == Held /\ Fresh /\ Told

LEMMA PassInvStep ==
  ASSUME TypeOK, PassInv, [Next]_vars
  PROVE  PassInv'
<1> USE NamesAssumption
<1>1. ASSUME UNCHANGED <<rowVars, latest, byPass>> PROVE PassInv'
  BY <1>1 DEF PassInv, Held, Fresh, Told, rowVars
<1>2. ASSUME NEW c \in Conns, PublishSnapshot(c) PROVE PassInv'
  BY <1>2 DEF PublishSnapshot, PassInv, Held, Fresh, Told, rowVars
<1>3. ASSUME NEW v \in Outcomes, Tick(v) PROVE PassInv'
  BY <1>3 DEF Tick, ChangeRows, PassInv, Held, Fresh, Told, hubVars
<1>4. ASSUME NEW v \in Outcomes, NEW w \in Writers, Change(w, v) PROVE PassInv'
  <2>1. wpc'[w] = "lock" /\ \A x \in Writers : x # w => wpc'[x] = wpc[x]
    BY <1>4 DEF Change, TypeOK
  <2>2. Held'
    BY <1>4, <2>1 DEF Change, PassInv, Held
  <2> QED
    BY <2>1, <2>2 DEF PassInv, Fresh, Told
<1>5. ASSUME NEW w \in Writers, Lock(w) PROVE PassInv'
  <2>1. wpc'[w] = "compute" /\ \A x \in Writers : x # w => wpc'[x] = wpc[x]
    BY <1>5 DEF Lock, TypeOK
  <2>2. \A x \in Writers : wpc[x] \notin {"compute", "publish"}
    BY <1>5 DEF Lock, PassInv, Held
  <2>3. mu' = w
    BY <1>5 DEF Lock
  <2>4. Held'
    BY <2>1, <2>2, <2>3 DEF Held
  <2> QED
    BY <2>1, <2>2, <2>4 DEF PassInv, Fresh, Told
<1>6. ASSUME NEW w \in Writers, Compute(w) PROVE PassInv'
  <2>1. /\ wpc'[w] = "publish" /\ \A x \in Writers : x # w => wpc'[x] = wpc[x]
        /\ wsnap'[w] = truth /\ truth' = truth /\ mu' = mu
    BY <1>6 DEF Compute, TypeOK
  <2>2. \A x \in Writers : x # w => wpc[x] \notin {"compute", "publish"}
    BY <1>6 DEF Compute, PassInv, Held
  <2>3. Held'
    BY <1>6, <2>1, <2>2 DEF PassInv, Held, Compute
  <2> QED
    BY <2>1, <2>2, <2>3 DEF PassInv, Fresh, Told
<1>7. ASSUME NEW w \in Writers, PublishPass(w) PROVE PassInv'
  <2>1. /\ wpc'[w] = "idle" /\ \A x \in Writers : x # w => wpc'[x] = wpc[x]
        /\ latest' = wsnap[w] /\ truth' = truth /\ unread' = unread
    BY <1>7 DEF PublishPass, Publish, Return, TypeOK
  <2>2. wpc[w] = "publish" /\ mu = w
    BY <1>7 DEF PublishPass, PassInv, Held
  <2>3. \A x \in Writers : x # w => wpc[x] \notin {"compute", "publish"}
    BY <2>2 DEF PassInv, Held
  <2>4. Held' /\ Fresh'
    BY <2>1, <2>3 DEF Held, Fresh
  <2>5. Told'
    BY <2>1, <2>2 DEF PassInv, Fresh, Told
  <2> QED
    BY <2>4, <2>5 DEF PassInv
<1>8. ASSUME NEW w \in Writers, FailPass(w) PROVE PassInv'
  <2>1. /\ wpc'[w] = "idle" /\ \A x \in Writers : x # w => wpc'[x] = wpc[x]
        /\ unread'
    BY <1>8 DEF FailPass, Return, TypeOK
  <2>2. \A x \in Writers : x # w => wpc[x] \notin {"compute", "publish"}
    BY <1>8 DEF FailPass, PassInv, Held
  <2> QED
    BY <2>1, <2>2 DEF PassInv, Held, Fresh, Told
<1>9. CASE Crash
  BY <1>9 DEF Crash, PassInv, Held, Fresh, Told
<1>10. \/ UNCHANGED <<rowVars, latest, byPass>>
       \/ \E c \in Conns : PublishSnapshot(c)
       \/ \E v \in Outcomes : Tick(v) \/ \E w \in Writers : Change(w, v)
       \/ \E w \in Writers : Lock(w) \/ Compute(w) \/ PublishPass(w) \/ FailPass(w)
       \/ Crash
  BY DEF Next, Serving, Beat, Register, ComputeSnapshot, Deregister, NoSnapshot, Drop, HalfOpen,
         Silence, Dial, vars, hubVars
<1> QED
  BY <1>1, <1>2, <1>3, <1>4, <1>5, <1>6, <1>7, <1>8, <1>9, <1>10

\* Once every change to the rows has been through its pass, and no page's snapshot
\* has come after it, the hub says what the rows say: Reconcile computes and
\* publishes under one mutex.
THEOREM PassesSettle == Spec => []SettledCurrent
<1>1. Init => PassInv
  BY DEF Init, PassInv, Held, Fresh, Told
<1>2. TypeOK /\ PassInv /\ [Next]_vars => PassInv'
  BY PassInvStep
<1>3. LastIsLatest /\ PassInv => SettledCurrent
  BY DEF LastIsLatest, PassInv, Told, SettledCurrent
<1> QED
  BY <1>1, <1>2, <1>3, TypeCorrect, BeatsBringTheLatest, PTL DEF Spec

-----------------------------------------------------------------------------
(***************************************************************************)
(* The registry: tabs agree with the hub.                                  *)
(***************************************************************************)
\* What is registered is being served, and what is served has a connection.
Registered ==
    /\ \A c \in conns : serve[c] \in {"compute", "publish", "read"}
    /\ \A c \in Conns : wire[c] = "none" <=> serve[c] = "none"

\* A page's socket is open, its own, and silent until it is registered.
Socketed ==
    /\ \A p \in Pages : sock[p] \in Conns => wire[sock[p]] = "open"
    /\ \A p, q \in Pages : sock[p] \in Conns /\ sock[p] = sock[q] => p = q
    /\ \A p \in Pages : sock[p] \in Conns /\ serve[sock[p]] = "register" => ~heard[p]

TabInv == Registered /\ Socketed /\ LiveShowsLast

\* A send keeps the tabs in step when no connection's own stage goes back.
LEMMA SendKeepsTabs ==
  ASSUME TypeOK, TabInv, NEW v \in Shown \cup {None}, Send(v), UNCHANGED sock,
         \A c \in Conns : /\ serve'[c] = "none" <=> serve[c] = "none"
                          /\ serve'[c] = "register" => serve[c] = "register"
                          /\ c \in conns => serve'[c] \in {"compute", "publish", "read"}
  PROVE  TabInv'
<1>1. /\ conns' \subseteq conns
      /\ \A c \in Conns : /\ wire[c] = "open" <=> wire'[c] = "open"
                          /\ wire[c] = "none" <=> wire'[c] = "none"
                          /\ wire[c] = "open" /\ c \in conns => c \in conns'
  BY SendWires
<1>2. PICK F \in Failing :
        LET told == {p \in Pages : sock[p] \in conns /\ wire[sock[p]] = "open"}
        IN  /\ conns' = conns \ F
            /\ last' = IF conns \ F = {} THEN None ELSE v
            /\ shows' = [p \in Pages |-> IF p \in told THEN Payload(v) ELSE shows[p]]
            /\ heard' = [p \in Pages |-> IF p \in told THEN TRUE ELSE heard[p]]
  BY DEF Send, Remembered
<1>3. Registered'
  BY <1>1 DEF Registered, TabInv, TypeOK
<1>4. \A p \in Pages : sock[p] \in Conns /\ serve[sock[p]] = "register" => ~heard'[p]
  BY <1>2 DEF TabInv, Registered, Socketed, TypeOK
<1>5. Socketed'
  BY <1>1, <1>4 DEF Socketed, TabInv
<1>6. ASSUME NEW p \in Pages, sock[p] \in conns', wire'[sock[p]] = "open"
      PROVE  shows'[p] = Payload(last')
  <2>1. sock[p] \in conns /\ wire[sock[p]] = "open"
    BY <1>1, <1>6 DEF TypeOK
  <2>2. shows'[p] = Payload(v)
    BY <1>2, <2>1
  <2>3. last' = v
    BY <1>2, <1>6
  <2> QED
    BY <2>2, <2>3
<1>7. LiveShowsLast'
  BY <1>6 DEF LiveShowsLast
<1> QED
  BY <1>3, <1>5, <1>7 DEF TabInv

LEMMA TabInvStep ==
  ASSUME TypeOK, TabInv, [Next]_vars
  PROVE  TabInv'
<1> USE NamesAssumption
<1>1. ASSUME UNCHANGED <<conns, last, wire, serve, pageVars>> PROVE TabInv'
  BY <1>1 DEF TabInv, Registered, Socketed, LiveShowsLast, pageVars
<1>2. CASE Beat
  <2>1. last \in Shown \cup {None} /\ Send(last) /\ serve' = serve /\ sock' = sock
    BY <1>2 DEF Beat, TypeOK, serveVars
  <2>2. \A c \in Conns : c \in conns => serve'[c] \in {"compute", "publish", "read"}
    BY <2>1 DEF TabInv, Registered
  <2> QED
    BY <2>1, <2>2, SendKeepsTabs
<1>3. ASSUME NEW w \in Writers, PublishPass(w) PROVE TabInv'
  <2>1. wsnap[w] \in Shown \cup {None} /\ Send(wsnap[w]) /\ serve' = serve /\ sock' = sock
    BY <1>3 DEF PublishPass, Publish, TypeOK, serveVars
  <2>2. \A c \in Conns : c \in conns => serve'[c] \in {"compute", "publish", "read"}
    BY <2>1 DEF TabInv, Registered
  <2> QED
    BY <2>1, <2>2, SendKeepsTabs
<1>4. ASSUME NEW c \in Conns, PublishSnapshot(c) PROVE TabInv'
  <2>1. snap[c] \in Shown \cup {None} /\ Send(snap[c]) /\ sock' = sock
    BY <1>4 DEF PublishSnapshot, Publish, TypeOK
  <2>2. \A d \in Conns : /\ serve'[d] = "none" <=> serve[d] = "none"
                         /\ serve'[d] = "register" => serve[d] = "register"
                         /\ d \in conns => serve'[d] \in {"compute", "publish", "read"}
    BY <1>4 DEF PublishSnapshot, TypeOK, TabInv, Registered
  <2> QED
    BY <2>1, <2>2, SendKeepsTabs
<1>5. ASSUME NEW c \in Conns, Register(c) PROVE TabInv'
  <2>1. /\ serve[c] = "register" /\ serve'[c] = "compute"
        /\ \A d \in Conns : d # c => serve'[d] = serve[d]
        /\ conns' = conns \cup {c}
        /\ UNCHANGED <<last, wire, sock, shows, heard>>
    BY <1>5 DEF Register, TypeOK, pageVars
  <2>2. Registered' /\ Socketed'
    BY <2>1 DEF TabInv, Registered, Socketed, TypeOK
  <2>3. LiveShowsLast'
    BY <2>1 DEF TabInv, LiveShowsLast, Socketed, TypeOK
  <2> QED
    BY <2>2, <2>3 DEF TabInv
<1>6. ASSUME NEW c \in Conns, ComputeSnapshot(c) \/ NoSnapshot(c) PROVE TabInv'
  <2>1. /\ serve[c] = "compute" /\ serve'[c] \in {"publish", "read"}
        /\ \A d \in Conns : d # c => serve'[d] = serve[d]
        /\ UNCHANGED <<conns, last, wire, sock, shows, heard>>
    BY <1>6 DEF ComputeSnapshot, NoSnapshot, TypeOK, pageVars, hubVars
  <2> QED
    BY <2>1 DEF TabInv, Registered, Socketed, LiveShowsLast, TypeOK
<1>7. ASSUME NEW c \in Conns, Deregister(c) PROVE TabInv'
  <2>1. /\ wire[c] = "closed" /\ serve'[c] = "none" /\ wire'[c] = "none"
        /\ \A d \in Conns : d # c => serve'[d] = serve[d] /\ wire'[d] = wire[d]
        /\ conns' = conns \ {c}
        /\ UNCHANGED <<last, sock, shows, heard>>
    BY <1>7 DEF Deregister, TypeOK, pageVars
  <2>2. Registered'
    BY <2>1 DEF TabInv, Registered, TypeOK
  <2>3. \A p \in Pages : sock[p] # c
    BY <2>1 DEF TabInv, Socketed
  <2> QED
    BY <2>1, <2>2, <2>3 DEF TabInv, Socketed, LiveShowsLast, TypeOK
<1>8. ASSUME NEW p \in Pages, Drop(p) \/ HalfOpen(p) PROVE TabInv'
  <2>1. /\ sock[p] \in Conns /\ sock'[p] \notin Conns /\ wire'[sock[p]] \in {"closed", "half"}
        /\ \A q \in Pages : q # p => sock'[q] = sock[q]
        /\ \A c \in Conns : c # sock[p] => wire'[c] = wire[c]
        /\ UNCHANGED <<conns, last, serve, shows, heard>>
    BY <1>8 DEF Drop, HalfOpen, TypeOK, hubVars, serveVars
  <2>2. Registered'
    BY <2>1 DEF TabInv, Registered, Socketed, TypeOK
  <2>3. \A q \in Pages : q # p /\ sock[q] \in Conns => sock[q] # sock[p]
    BY <2>1 DEF TabInv, Socketed
  <2> QED
    BY <2>1, <2>2, <2>3 DEF TabInv, Socketed, LiveShowsLast, TypeOK
<1>9. ASSUME NEW p \in Pages, Silence(p) PROVE TabInv'
  <2>1. /\ sock'[p] \notin Conns /\ \A q \in Pages : q # p => sock'[q] = sock[q]
        /\ UNCHANGED <<conns, last, wire, serve, shows, heard>>
    BY <1>9 DEF Silence, TypeOK, hubVars, serveVars
  <2> QED
    BY <2>1 DEF TabInv, Registered, Socketed, LiveShowsLast, TypeOK
<1>10. ASSUME NEW p \in Pages, NEW c \in Conns, Dial(p, c) PROVE TabInv'
  <2>1. /\ wire[c] = "none" /\ wire'[c] = "open" /\ serve'[c] = "register"
        /\ sock'[p] = c /\ ~heard'[p]
        /\ \A q \in Pages : q # p => sock'[q] = sock[q] /\ heard'[q] = heard[q]
        /\ \A d \in Conns : d # c => wire'[d] = wire[d] /\ serve'[d] = serve[d]
        /\ UNCHANGED <<conns, last, shows>>
    BY <1>10 DEF Dial, TypeOK, hubVars
  <2>2. c \notin conns /\ \A q \in Pages : sock[q] # c
    BY <2>1 DEF TabInv, Registered, Socketed
  <2>3. Registered'
    BY <2>1, <2>2 DEF TabInv, Registered, TypeOK
  <2> QED
    BY <2>1, <2>2, <2>3 DEF TabInv, Socketed, LiveShowsLast, TypeOK
<1>11. CASE Crash
  BY <1>11 DEF Crash, TabInv, Registered, Socketed, LiveShowsLast, TypeOK
<1>12. \/ UNCHANGED <<conns, last, wire, serve, pageVars>>
       \/ Beat
       \/ \E w \in Writers : PublishPass(w)
       \/ \E c \in Conns : \/ PublishSnapshot(c) \/ Register(c) \/ Deregister(c)
                           \/ ComputeSnapshot(c) \/ NoSnapshot(c)
       \/ \E p \in Pages : Drop(p) \/ HalfOpen(p) \/ Silence(p) \/ \E c \in Conns : Dial(p, c)
       \/ Crash
  BY DEF Next, Serving, Tick, Change, Lock, Compute, FailPass, vars, hubVars, serveVars
<1> QED
  BY <1>1, <1>2, <1>3, <1>4, <1>5, <1>6, <1>7, <1>8, <1>9, <1>10, <1>11, <1>12

\* Every connected tab that has been sent anything shows what the hub would send
\* again, whoever published it: a heartbeat changes no tab that missed nothing.
THEOREM TabsAgree == Spec => []LiveShowsLast
<1>1. Init => TabInv
  BY NamesAssumption DEF Init, TabInv, Registered, Socketed, LiveShowsLast
<1>2. TypeOK /\ TabInv /\ [Next]_vars => TabInv'
  BY TabInvStep
<1>3. TabInv => LiveShowsLast
  BY DEF TabInv
<1> QED
  BY <1>1, <1>2, <1>3, TypeCorrect, PTL DEF Spec

\* A send changes what a page shows only where it brings what it sends.
LEMMA SendShows ==
  ASSUME TypeOK, NEW v, Send(v), NEW p \in Pages, shows'[p] # shows[p]
  PROVE  sock[p] \in conns /\ wire[sock[p]] = "open" /\ shows'[p] = Payload(v)
<1>1. PICK F \in Failing :
        LET told == {q \in Pages : sock[q] \in conns /\ wire[sock[q]] = "open"}
        IN  shows' = [q \in Pages |-> IF q \in told THEN Payload(v) ELSE shows[q]]
  BY DEF Send
<1> QED
  BY <1>1

LEMMA TabsStep ==
  ASSUME TypeOK, LiveShowsLast, [Next]_vars, NEW p \in Pages, heard[p], shows'[p] # shows[p]
  PROVE  shows'[p] = Payload(latest')
<1>1. CASE Beat
  <2>1. /\ sock[p] \in conns /\ wire[sock[p]] = "open"
        /\ shows'[p] = Payload(last)
    BY <1>1, SendShows DEF Beat
  <2>2. shows[p] = Payload(last)
    BY <2>1 DEF LiveShowsLast
  <2> QED
    BY <2>1, <2>2
<1>2. ASSUME NEW v, Publish(v) PROVE shows'[p] = Payload(latest')
  BY <1>2, SendShows DEF Publish
<1>3. \/ Beat
      \/ \E v : Publish(v)
      \/ UNCHANGED shows
  BY DEF Next, Serving, Register, ComputeSnapshot, PublishSnapshot, Deregister, NoSnapshot, Drop,
         HalfOpen, Silence, Dial, Tick, Change, Lock, Compute, PublishPass, FailPass, Crash, vars,
         pageVars
<1> QED
  BY <1>1, <1>2, <1>3

\* A tab that has been sent anything over its connection is only moved on to what
\* was last published, however many tabs, connections and writers there are: no
\* beat takes it back.
THEOREM NoTabGoesBack == Spec => TabsMoveOn
<1>1. TypeOK /\ LiveShowsLast /\ [Next]_vars
        => [\A p \in Pages :
              heard[p] /\ shows'[p] # shows[p] => shows'[p] = Payload(latest')]_vars
  BY TabsStep
<1> QED
  BY <1>1, TypeCorrect, TabsAgree, PTL DEF Spec, TabsMoveOn

\* What a tab shows once everything has settled, as far as anything is remembered.
TabsSettled ==
    (\A w \in Writers : wpc[w] = "idle") /\ ~unread /\ byPass /\ last # None =>
        \A p \in Pages :
            sock[p] \in conns /\ wire[sock[p]] = "open" /\ heard[p] => shows[p] = truth

\* Once every change has been through its pass, and no snapshot has come after it,
\* every connected tab that has been sent anything shows what the rows say: from
\* ComputeDesired to the page, through the mutex, the hub and the registry.
THEOREM RowsReachTheTabs == Spec => []TabsSettled
<1>1. TypeOK /\ LiveShowsLast /\ SettledCurrent => TabsSettled
  BY NamesAssumption DEF TypeOK, LiveShowsLast, SettledCurrent, TabsSettled, Payload
<1> QED
  BY <1>1, TypeCorrect, TabsAgree, PassesSettle, PTL

-----------------------------------------------------------------------------
(***************************************************************************)
(* The refinement of LiveFeed.                                             *)
(***************************************************************************)
\* Those whom a send reaches.
Reached == {p \in Pages : sock[p] \in conns /\ wire[sock[p]] = "open"}

\* After a send the pages it has reached are in tune, and no others; if there are
\* any, it is remembered.
LEMMA SendTunes ==
  ASSUME TypeOK, NEW v \in Shown \cup {None}, Send(v), UNCHANGED sock
  PROVE  /\ Reached \in SUBSET Pages /\ Tuned \subseteq Reached /\ Tuned' = Reached
         /\ shows' = [p \in Pages |-> IF p \in Reached THEN Payload(v) ELSE shows[p]]
         /\ Reached # {} => last' = v
<1>1. PICK F \in Failing :
        /\ conns' = conns \ F
        /\ last' = IF conns \ F = {} THEN None ELSE v
        /\ shows' = [p \in Pages |-> IF p \in Reached THEN Payload(v) ELSE shows[p]]
        /\ heard' = [p \in Pages |-> IF p \in Reached THEN TRUE ELSE heard[p]]
  BY DEF Send, Remembered, Reached
<1>2. /\ conns' \subseteq conns
      /\ \A c \in Conns : /\ wire[c] = "open" <=> wire'[c] = "open"
                          /\ wire[c] = "open" /\ c \in conns => c \in conns'
  BY SendWires
<1>3. \A p \in Pages : p \in Reached <=> sock'[p] \in conns' /\ wire'[sock'[p]] = "open"
  BY <1>2 DEF Reached, TypeOK
<1>4. \A p \in Pages : p \in Reached => heard'[p]
  BY <1>1
<1>5. Tuned' = Reached
  BY <1>3, <1>4 DEF Tuned, Reached
<1>6. Reached # {} => conns' # {}
  BY <1>3 DEF Reached
<1> QED
  BY <1>1, <1>5, <1>6 DEF Tuned, Reached

LEMMA PublishSays ==
  ASSUME TypeOK, NEW v \in Shown, Publish(v), UNCHANGED sock
  PROVE  Feed!Say(v)
<1>1. v # None /\ v \in Shown \cup {None} /\ Payload(v) = v
  BY NamesAssumption DEF Shown, Payload
<1>2. /\ Reached \in SUBSET Pages /\ Tuned \subseteq Reached /\ Tuned' = Reached
      /\ shows' = [p \in Pages |-> IF p \in Reached THEN v ELSE shows[p]]
      /\ Reached # {} => last' # None
      /\ latest' = v
  BY <1>1, SendTunes DEF Publish
<1> QED
  BY <1>2 DEF Feed!Say

LEMMA BeatRepeats ==
  ASSUME TypeOK, LiveShowsLast, LastIsLatest, Beat
  PROVE  Feed!Repeat
<1>1. last \in Shown \cup {None} /\ Send(last) /\ sock' = sock /\ latest' = latest
  BY DEF Beat, TypeOK
<1>2. /\ Reached \in SUBSET Pages /\ Tuned \subseteq Reached /\ Tuned' = Reached
      /\ shows' = [p \in Pages |-> IF p \in Reached THEN Payload(last) ELSE shows[p]]
      /\ Reached # {} => last' = last
  BY <1>1, SendTunes
<1>3. last' \in {None, last}
  BY <1>1, SendLast
<1>4. \A p \in Tuned : shows[p] = Payload(last)
  BY DEF Tuned, LiveShowsLast
<1>5. Payload(last) = IF last # None THEN latest ELSE Nothing
  BY DEF Payload, LastIsLatest
<1>6. shows' = [p \in Pages |-> IF p \in Reached \ Tuned
                                THEN IF last # None THEN latest ELSE Nothing
                                ELSE shows[p]]
  BY <1>2, <1>4, <1>5
<1> QED
  BY <1>1, <1>2, <1>3, <1>6 DEF Feed!Repeat

\* Whatever else happens to the registry and the network only puts pages out of
\* tune.
LEMMA OthersLeave ==
  ASSUME TypeOK, TabInv, UNCHANGED <<latest, last, shows>>,
         \/ UNCHANGED <<conns, wire, sock, heard>>
         \/ \E c \in Conns : Register(c) \/ Deregister(c)
         \/ \E p \in Pages : Drop(p) \/ HalfOpen(p) \/ Silence(p) \/ \E c \in Conns : Dial(p, c)
  PROVE  Feed!Leave
<1> USE NamesAssumption DEF TypeOK
<1> SUFFICES Tuned' \subseteq Tuned
  BY DEF Feed!Leave
<1>1. CASE UNCHANGED <<conns, wire, sock, heard>>
  BY <1>1 DEF Tuned
<1>2. ASSUME NEW c \in Conns, Register(c) PROVE Tuned' \subseteq Tuned
  <2>1. /\ serve[c] = "register" /\ conns' = conns \cup {c}
        /\ UNCHANGED <<wire, sock, heard>>
    BY <1>2 DEF Register, pageVars
  <2>2. \A p \in Pages : sock[p] = c => ~heard[p]
    BY <2>1 DEF TabInv, Socketed
  <2> QED
    BY <2>1, <2>2 DEF Tuned
<1>3. ASSUME NEW c \in Conns, Deregister(c) PROVE Tuned' \subseteq Tuned
  BY <1>3 DEF Deregister, pageVars, Tuned
<1>4. ASSUME NEW p \in Pages, Drop(p) \/ HalfOpen(p) PROVE Tuned' \subseteq Tuned
  <2>1. /\ sock[p] \in Conns /\ sock'[p] \notin Conns /\ wire'[sock[p]] # "open"
        /\ \A q \in Pages : q # p => sock'[q] = sock[q]
        /\ \A c \in Conns : c # sock[p] => wire'[c] = wire[c]
        /\ UNCHANGED <<conns, heard>>
    BY <1>4 DEF Drop, HalfOpen, hubVars
  <2> QED
    BY <2>1 DEF Tuned
<1>5. ASSUME NEW p \in Pages, Silence(p) PROVE Tuned' \subseteq Tuned
  <2>1. /\ sock'[p] \notin Conns
        /\ \A q \in Pages : q # p => sock'[q] = sock[q]
        /\ UNCHANGED <<conns, wire, heard>>
    BY <1>5 DEF Silence, hubVars
  <2> QED
    BY <2>1 DEF Tuned
<1>6. ASSUME NEW p \in Pages, NEW c \in Conns, Dial(p, c) PROVE Tuned' \subseteq Tuned
  <2>1. /\ wire[c] = "none" /\ ~heard'[p]
        /\ \A q \in Pages : q # p => sock'[q] = sock[q] /\ heard'[q] = heard[q]
        /\ \A d \in Conns : d # c => wire'[d] = wire[d]
        /\ UNCHANGED conns
    BY <1>6 DEF Dial, hubVars
  <2>2. \A q \in Pages : sock[q] # c
    BY <2>1 DEF TabInv, Socketed
  <2> QED
    BY <2>1, <2>2 DEF Tuned
<1> QED
  BY <1>1, <1>2, <1>3, <1>4, <1>5, <1>6

LEMMA FeedStep ==
  ASSUME TypeOK, TabInv, LastIsLatest, [Next]_vars
  PROVE  [Feed!Next]_(Feed!vars)
<1>1. ASSUME NEW w \in Writers, PublishPass(w) PROVE Feed!Next
  <2>1. wsnap[w] \in Shown /\ Publish(wsnap[w]) /\ sock' = sock
    BY <1>1 DEF PublishPass, TypeOK
  <2> QED
    BY <2>1, PublishSays DEF Feed!Next
<1>2. ASSUME NEW c \in Conns, PublishSnapshot(c) PROVE Feed!Next
  <2>1. snap[c] \in Shown /\ Publish(snap[c]) /\ sock' = sock
    BY <1>2 DEF PublishSnapshot, TypeOK
  <2> QED
    BY <2>1, PublishSays DEF Feed!Next
<1>3. CASE Beat
  BY <1>3, BeatRepeats DEF TabInv, Feed!Next
<1>4. CASE Crash
  <2>1. conns' = {} /\ last' = None /\ latest' = None /\ shows' = shows
    BY <1>4 DEF Crash
  <2>2. Tuned' = {}
    BY <2>1 DEF Tuned
  <2> QED
    BY <2>1, <2>2 DEF Feed!Restart, Feed!Next
<1>5. ASSUME UNCHANGED <<latest, last, shows>>,
             \/ UNCHANGED <<conns, wire, sock, heard>>
             \/ \E c \in Conns : Register(c) \/ Deregister(c)
             \/ \E p \in Pages : \/ Drop(p) \/ HalfOpen(p) \/ Silence(p)
                                 \/ \E c \in Conns : Dial(p, c)
      PROVE  Feed!Next
  BY <1>5, OthersLeave DEF Feed!Next
<1>6. \/ \E w \in Writers : PublishPass(w)
      \/ \E c \in Conns : PublishSnapshot(c)
      \/ Beat
      \/ Crash
      \/ /\ UNCHANGED <<latest, last, shows>>
         /\ \/ UNCHANGED <<conns, wire, sock, heard>>
            \/ \E c \in Conns : Register(c) \/ Deregister(c)
            \/ \E p \in Pages : \/ Drop(p) \/ HalfOpen(p) \/ Silence(p)
                                \/ \E c \in Conns : Dial(p, c)
  BY DEF Next, Serving, Register, ComputeSnapshot, Deregister, NoSnapshot, Drop, HalfOpen, Silence,
         Dial, Tick, Change, Lock, Compute, FailPass, vars, hubVars, pageVars
<1> QED
  BY <1>1, <1>2, <1>3, <1>4, <1>5, <1>6

\* Every behaviour of the live channel is one of LiveFeed: however many tabs,
\* connections, Serves and passes there are, and whatever is cut, half-open or
\* restarted, a state is published and brought to all who are in tune in one step,
\* and a beat tells them nothing they do not know.
THEOREM HubKeepsFeed == Spec => HubFeeds
<1>1. Init => Feed!Init
  BY DEF Init, Feed!Init, Tuned, Shown
<1>2. Init => TabInv
  BY NamesAssumption DEF Init, TabInv, Registered, Socketed, LiveShowsLast
<1>3. TypeOK /\ TabInv /\ [Next]_vars => TabInv'
  BY TabInvStep
<1>4. TypeOK /\ TabInv /\ LastIsLatest /\ [Next]_vars => [Feed!Next]_(Feed!vars)
  BY FeedStep
<1> QED
  BY <1>1, <1>2, <1>3, <1>4, TypeCorrect, BeatsBringTheLatest, PTL DEF Spec, HubFeeds, Feed!Spec

\* Whoever keeps LiveFeed's promise has every page in tune show what was published
\* last, or the empty list where nothing was remembered when it joined.
THEOREM FeedKeepsInTune == Feed!Spec => []Feed!InTune
<1>1. Feed!Init => Feed!InTune
  BY DEF Feed!Init, Feed!InTune
<1>2. Feed!InTune /\ [Feed!Next]_(Feed!vars) => Feed!InTune'
  <2> SUFFICES ASSUME Feed!InTune, [Feed!Next]_(Feed!vars) PROVE Feed!InTune'
    OBVIOUS
  <2> USE DEF Feed!InTune
  <2>1. ASSUME NEW v \in Shown, Feed!Say(v) PROVE Feed!InTune'
    BY <2>1 DEF Feed!Say
  <2>2. CASE Feed!Repeat
    BY <2>2 DEF Feed!Repeat
  <2>3. CASE Feed!Leave
    BY <2>3 DEF Feed!Leave
  <2>4. CASE Feed!Restart
    BY <2>4 DEF Feed!Restart
  <2>5. CASE UNCHANGED Feed!vars
    BY <2>5 DEF Feed!vars
  <2> QED
    BY <2>1, <2>2, <2>3, <2>4, <2>5 DEF Feed!Next
<1> QED
  BY <1>1, <1>2, PTL DEF Feed!Spec

\* So every page in tune with the live channel does, at every moment.
THEOREM PagesInTune == Spec => []Feed!InTune
  BY HubKeepsFeed, FeedKeepsInTune, PTL DEF HubFeeds
=============================================================================
