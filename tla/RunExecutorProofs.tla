------------------------- MODULE RunExecutorProofs -------------------------
(***************************************************************************)
(* Open rows have an owner and runs are settled once, for any runs,        *)
(* sessions, policies and number of restarts.                              *)
(***************************************************************************)
EXTENDS RunExecutor, FiniteSetTheorems, TLAPS

Starting(r) == phase[r] \in {"preparing", "creating"}

\* What the argument needs of the types; turns and their agents are not in it.
RunTypes ==
    /\ phase \in [Runs -> {"none", "preparing", "creating", "over"}]
    /\ row \in [Runs -> {"none", "open", "succeeded", "failed"}]
    /\ sessionOf \in [Runs -> Sessions \cup {NoSession}]
    /\ inFlight \subseteq Runs
    /\ watching \in [Sessions -> SUBSET Runs]
    /\ sess \in [Sessions -> {"none", "live", "dead"}]
    /\ calls \in [Runs -> 0..2]
    /\ server \in {"up", "stopping", "down"}

\* A run that has not started its session has no session, nobody listens for
\* it, and nothing was reported of it.
Untold ==
    \A r \in Runs : phase[r] # "over" =>
        /\ row[r] = (IF Starting(r) THEN "open" ELSE "none")
        /\ sessionOf[r] = NoSession /\ r \notin inFlight /\ calls[r] = 0
        /\ \A s \in Sessions : r \notin watching[s]

\* Sessions on record were created, and listeners are on the session of their
\* run, which has not succeeded yet.
Listening ==
    /\ \A r \in Runs : sessionOf[r] # NoSession => sess[sessionOf[r]] # "none"
    /\ \A s \in Sessions : \A r \in watching[s] :
         sessionOf[r] = s /\ phase[r] = "over" /\ row[r] \in {"open", "failed"}
    /\ \A r \in inFlight : sessionOf[r] # NoSession /\ r \in watching[sessionOf[r]]

\* Who listens on a live session has not been told yet, but for a shutdown.
Unsettled ==
    server = "up" =>
        \A s \in Sessions : sess[s] = "live" => \A r \in watching[s] : calls[r] = 0

\* While the server is down no start() is under way and no session lives.
Quiet ==
    server = "down" => /\ \A r \in Runs : ~Starting(r)
                       /\ \A s \in Sessions : sess[s] # "live"

RunInv == RunTypes /\ Untold /\ Listening /\ Unsettled /\ OpenRowHasAnOwner

\* What one step may do to a run: SettledOnce.
OnceStep ==
    \A r \in Runs :
        /\ server = "up" /\ server' = "up" /\ calls'[r] # calls[r] => calls[r] = 0
        /\ row[r] = "succeeded" => row'[r] = "succeeded"

Parts == RunInv' /\ OnceStep

-----------------------------------------------------------------------------
LEMMA RunInit == Init => RunInv
BY NoneOutside DEF Init, RunInv, RunTypes, Untold, Starting, Listening, Unsettled, OpenRowHasAnOwner

\* start() up to the session.
LEMMA StartSteps ==
    ASSUME RunInv, NEW r \in Runs, Begin(r) \/ Prepare(r) \/ Fail(r)
    PROVE  Parts
<1> USE DEF RunInv, RunTypes
<1>1. CASE Begin(r)
  <2>1. /\ server = "up" /\ phase[r] = "none"
        /\ phase' = [phase EXCEPT ![r] = "preparing"] /\ row' = [row EXCEPT ![r] = "open"]
        /\ UNCHANGED <<sessionOf, inFlight, calls, watching, sess, server>>
    BY <1>1 DEF Begin, agents
  <2>2. RunTypes' BY <2>1
  <2>3. Untold' BY <2>1 DEF Untold, Starting
  <2>4. Listening' BY <2>1 DEF Listening
  <2>5. Unsettled' BY <2>1 DEF Unsettled
  <2>6. OpenRowHasAnOwner' BY <2>1 DEF OpenRowHasAnOwner
  <2>7. OnceStep BY <2>1 DEF OnceStep, Untold, Starting
  <2> QED BY <2>2, <2>3, <2>4, <2>5, <2>6, <2>7 DEF Parts
<1>2. CASE Prepare(r)
  <2>1. /\ phase[r] = "preparing" /\ phase' = [phase EXCEPT ![r] = "creating"]
        /\ UNCHANGED <<row, sessionOf, inFlight, calls, watching, sess, server>>
    BY <1>2 DEF Prepare, agents
  <2>2. RunTypes' BY <2>1
  <2>3. Untold' BY <2>1 DEF Untold, Starting
  <2>4. Listening' BY <2>1 DEF Listening
  <2>5. Unsettled' BY <2>1 DEF Unsettled
  <2>6. OpenRowHasAnOwner' BY <2>1 DEF OpenRowHasAnOwner
  <2>7. OnceStep BY <2>1 DEF OnceStep
  <2> QED BY <2>2, <2>3, <2>4, <2>5, <2>6, <2>7 DEF Parts
<1>3. CASE Fail(r)
  <2>1. /\ Starting(r) /\ phase' = [phase EXCEPT ![r] = "over"]
        /\ row' = Closed({r}, "failed") /\ calls' = Reported({r}) /\ inFlight' = inFlight \ {r}
        /\ UNCHANGED <<sessionOf, watching, sess, server>>
    BY <1>3 DEF Fail, Starting, agents
  <2>2. RunTypes' BY <2>1 DEF Closed, Reported
  <2>3. /\ row[r] = "open" /\ calls[r] = 0 /\ r \notin inFlight
        /\ \A s \in Sessions : r \notin watching[s]
    BY <2>1 DEF Untold, Starting
  <2>4. \A x \in Runs : x # r => row'[x] = row[x] /\ calls'[x] = calls[x] /\ phase'[x] = phase[x]
    BY <2>1 DEF Closed, Reported
  <2>5. phase'[r] = "over" /\ row'[r] = "failed" BY <2>1 DEF Closed
  <2>6. Untold'
    <3>1. SUFFICES ASSUME NEW x \in Runs, phase'[x] # "over"
                   PROVE  /\ row'[x] = (IF Starting(x)' THEN "open" ELSE "none")
                          /\ sessionOf'[x] = NoSession /\ x \notin inFlight' /\ calls'[x] = 0
                          /\ \A s \in Sessions : x \notin watching'[s]
      BY DEF Untold
    <3>2. x # r BY <2>5, <3>1
    <3>3. row'[x] = row[x] /\ calls'[x] = calls[x] /\ phase'[x] = phase[x]
      BY <2>4, <3>2
    <3>4. /\ row[x] = (IF Starting(x) THEN "open" ELSE "none")
          /\ sessionOf[x] = NoSession /\ x \notin inFlight /\ calls[x] = 0
          /\ \A s \in Sessions : x \notin watching[s]
      BY <3>1, <3>3 DEF Untold
    <3> QED BY <2>1, <3>3, <3>4 DEF Starting
  <2>7. Listening'
    <3>1. \A x \in Runs : sessionOf'[x] # NoSession => sess'[sessionOf'[x]] # "none"
      BY <2>1 DEF Listening
    <3>2. ASSUME NEW u \in Sessions, NEW x \in watching'[u]
          PROVE  sessionOf'[x] = u /\ phase'[x] = "over" /\ row'[x] \in {"open", "failed"}
      <4>1. x \in watching[u] /\ x \in Runs /\ x # r BY <2>1, <2>3, <3>2
      <4>2. sessionOf[x] = u /\ phase[x] = "over" /\ row[x] \in {"open", "failed"}
        BY <4>1 DEF Listening
      <4> QED BY <2>1, <2>4, <4>1, <4>2
    <3>3. ASSUME NEW x \in inFlight'
          PROVE  sessionOf'[x] # NoSession /\ x \in watching'[sessionOf'[x]]
      <4>1. x \in inFlight BY <2>1
      <4>2. sessionOf[x] # NoSession /\ x \in watching[sessionOf[x]]
        BY <4>1 DEF Listening
      <4> QED BY <2>1, <4>2
    <3> QED BY <3>1, <3>2, <3>3 DEF Listening
  <2>8. Unsettled' BY ZenonT(60), <2>1, <2>3, <2>4 DEF Unsettled
  <2>9. OpenRowHasAnOwner' BY <2>1, <2>4, <2>5 DEF OpenRowHasAnOwner
  <2>10. OnceStep BY <2>3, <2>4 DEF OnceStep
  <2> QED BY <2>2, <2>6, <2>7, <2>8, <2>9, <2>10 DEF Parts
<1> QED BY <1>1, <1>2, <1>3

\* A session is created for r, or r follows up in a live one.
LEMMA SessionSteps ==
    ASSUME RunInv, NEW r \in Runs, NEW s \in Sessions,
           Created(r, s) \/ CreatedDead(r, s) \/ FollowUp(r, s)
    PROVE  Parts
<1> USE DEF RunInv, RunTypes
<1>0. s # NoSession /\ \A x \in Runs : sess[s] = "none" => sessionOf[x] # s
  BY NoneOutside DEF Listening
<1>1. CASE Created(r, s)
  <2>1. /\ phase[r] = "creating" /\ sess[s] = "none"
        /\ phase' = [phase EXCEPT ![r] = "over"] /\ sessionOf' = [sessionOf EXCEPT ![r] = s]
        /\ inFlight' = inFlight \cup {r} /\ watching' = [watching EXCEPT ![s] = {r}]
        /\ sess' = [sess EXCEPT ![s] = "live"] /\ UNCHANGED <<row, calls, server>>
    BY <1>1 DEF Created
  <2>2. row[r] = "open" /\ calls[r] = 0 /\ r \notin inFlight
        /\ \A u \in Sessions : r \notin watching[u]
    BY <2>1 DEF Untold, Starting
  <2>3. RunTypes' BY <2>1
  <2>4. Untold' BY <2>1, <2>2 DEF Untold, Starting
  <2>5. Listening'
    <3>1. \A x \in Runs : sessionOf'[x] # NoSession => sess'[sessionOf'[x]] # "none"
      BY <2>1 DEF Listening
    <3>2. ASSUME NEW u \in Sessions, NEW x \in watching'[u]
          PROVE  sessionOf'[x] = u /\ phase'[x] = "over" /\ row'[x] \in {"open", "failed"}
      <4>1. CASE u = s BY <2>1, <2>2, <3>2, <4>1
      <4>2. CASE u # s
        <5>1. x \in watching[u] /\ x # r BY <2>1, <2>2, <3>2, <4>2
        <5> QED BY <2>1, <5>1 DEF Listening
      <4> QED BY <4>1, <4>2
    <3>3. ASSUME NEW x \in inFlight'
          PROVE  sessionOf'[x] # NoSession /\ x \in watching'[sessionOf'[x]]
      <4>1. CASE x = r BY <1>0, <2>1, <4>1
      <4>2. CASE x # r
        <5>1. x \in inFlight /\ sessionOf'[x] = sessionOf[x] BY <2>1, <3>3, <4>2
        <5>2. sessionOf[x] \in Sessions /\ x \in watching[sessionOf[x]] BY <5>1 DEF Listening
        <5> QED BY <1>0, <2>1, <5>1, <5>2 DEF Listening
      <4> QED BY <4>1, <4>2
    <3> QED BY <3>1, <3>2, <3>3 DEF Listening
  <2>6. Unsettled' BY <2>1, <2>2 DEF Unsettled
  <2>7. OpenRowHasAnOwner' BY <1>0, <2>1 DEF OpenRowHasAnOwner
  <2>8. OnceStep BY <2>1 DEF OnceStep
  <2> QED BY <2>3, <2>4, <2>5, <2>6, <2>7, <2>8 DEF Parts
<1>2. CASE CreatedDead(r, s)
  <2>1. /\ phase[r] = "creating" /\ sess[s] = "none"
        /\ phase' = [phase EXCEPT ![r] = "over"] /\ sessionOf' = [sessionOf EXCEPT ![r] = s]
        /\ watching' = [watching EXCEPT ![s] = {r}] /\ sess' = [sess EXCEPT ![s] = "dead"]
        /\ row' = Closed({r}, "failed") /\ calls' = Reported({r})
        /\ UNCHANGED <<inFlight, server>>
    BY <1>2 DEF CreatedDead
  <2>2. row[r] = "open" /\ calls[r] = 0 /\ r \notin inFlight
        /\ \A u \in Sessions : r \notin watching[u]
    BY <2>1 DEF Untold, Starting
  <2>3. RunTypes' BY <2>1 DEF Closed, Reported
  <2>4. /\ \A x \in Runs : x # r => row'[x] = row[x] /\ calls'[x] = calls[x]
        /\ row'[r] = "failed"
    BY <2>1 DEF Closed, Reported
  <2>5. Untold' BY ZenonT(30), <2>1, <2>2, <2>4 DEF Untold, Starting
  <2>6. Listening'
    <3>1. \A x \in Runs : sessionOf'[x] # NoSession => sess'[sessionOf'[x]] # "none"
      BY <2>1 DEF Listening
    <3>2. ASSUME NEW u \in Sessions, NEW x \in watching'[u]
          PROVE  sessionOf'[x] = u /\ phase'[x] = "over" /\ row'[x] \in {"open", "failed"}
      <4>1. CASE u = s BY <2>1, <2>2, <2>4, <3>2, <4>1
      <4>2. CASE u # s
        <5>1. x \in watching[u] /\ x \in Runs /\ x # r BY <2>1, <2>2, <3>2, <4>2
        <5>2. sessionOf[x] = u /\ phase[x] = "over" /\ row[x] \in {"open", "failed"}
          BY <5>1 DEF Listening
        <5> QED BY <2>1, <2>4, <5>1, <5>2
      <4> QED BY <4>1, <4>2
    <3>3. ASSUME NEW x \in inFlight'
          PROVE  sessionOf'[x] # NoSession /\ x \in watching'[sessionOf'[x]]
      <4>1. x \in inFlight /\ x # r /\ sessionOf'[x] = sessionOf[x] BY <2>1, <2>2, <3>3
      <4>2. sessionOf[x] \in Sessions /\ x \in watching[sessionOf[x]] BY <4>1 DEF Listening
      <4> QED BY <1>0, <2>1, <4>1, <4>2 DEF Listening
    <3> QED BY <3>1, <3>2, <3>3 DEF Listening
  <2>7. Unsettled'
    <3> SUFFICES ASSUME server = "up", NEW u \in Sessions, sess'[u] = "live", NEW x \in watching'[u]
                 PROVE  calls'[x] = 0
      BY <2>1 DEF Unsettled
    <3>1. u # s /\ sess[u] = "live" /\ x \in watching[u] BY <2>1
    <3>2. x # r BY <2>2, <3>1
    <3> QED BY <2>4, <3>1, <3>2 DEF Unsettled
  <2>8. OpenRowHasAnOwner' BY ZenonT(30), <1>0, <2>1, <2>4 DEF OpenRowHasAnOwner
  <2>9. OnceStep BY <2>2, <2>4 DEF OnceStep
  <2> QED BY <2>3, <2>5, <2>6, <2>7, <2>8, <2>9 DEF Parts
<1>3. CASE FollowUp(r, s)
  <2>1. /\ phase[r] = "none" /\ sess[s] = "live"
        /\ phase' = [phase EXCEPT ![r] = "over"] /\ row' = [row EXCEPT ![r] = "open"]
        /\ sessionOf' = [sessionOf EXCEPT ![r] = s] /\ inFlight' = inFlight \cup {r}
        /\ watching' = [watching EXCEPT ![s] = @ \cup {r}]
        /\ UNCHANGED <<calls, sess, server>>
    BY <1>3 DEF FollowUp, MayFollowUp
  <2>2. row[r] = "none" /\ calls[r] = 0 /\ r \notin inFlight
        /\ \A u \in Sessions : r \notin watching[u]
    BY <2>1 DEF Untold, Starting
  <2>3. RunTypes' BY <2>1
  <2>4. Untold' BY <2>1, <2>2 DEF Untold, Starting
  <2>5. Listening' BY <1>0, <2>1, <2>2 DEF Listening
  <2>6. Unsettled' BY <2>1, <2>2 DEF Unsettled
  <2>7. OpenRowHasAnOwner' BY <1>0, <2>1 DEF OpenRowHasAnOwner
  <2>8. OnceStep BY <2>1, <2>2 DEF OnceStep
  <2> QED BY <2>3, <2>4, <2>5, <2>6, <2>7, <2>8 DEF Parts
<1> QED BY <1>1, <1>2, <1>3

\* A turn completes: its listeners are settled, and a delivery may join while
\* the event is emitted.
LEMMA TurnStep ==
    ASSUME RunInv, NEW s \in Sessions, TurnComplete(s)
    PROVE  Parts
<1>1. PICK outcome \in {"succeeded", "failed"},
           joining \in {{}} \cup {{r} : r \in {x \in Runs : MayFollowUp(x, s)}} :
        /\ row' = [r \in Runs |-> IF r \in joining THEN "open" ELSE Closed(watching[s], outcome)[r]]
        /\ phase' = [r \in Runs |-> IF r \in joining THEN "over" ELSE phase[r]]
        /\ sessionOf' = [r \in Runs |-> IF r \in joining THEN s ELSE sessionOf[r]]
        /\ inFlight' = (inFlight \ watching[s]) \cup joining
        /\ watching' = [watching EXCEPT ![s] = joining]
  BY DEF TurnComplete, WatchersAfter
<1>2. sess[s] = "live" /\ calls' = Reported(watching[s]) /\ UNCHANGED <<sess, server>>
  BY DEF TurnComplete
<1> USE DEF RunInv, RunTypes
<1>3. /\ joining \subseteq Runs
      /\ \A r \in joining : phase[r] = "none" /\ row[r] = "none" /\ calls[r] = 0
                            /\ sessionOf[r] = NoSession
                            /\ \A u \in Sessions : r \notin watching[u]
  BY <1>1 DEF MayFollowUp, Untold, Starting
<1>4. s # NoSession BY NoneOutside
<1>5. \A r \in Runs :
        /\ r \in watching[s] => row'[r] = outcome /\ sessionOf[r] = s /\ phase[r] = "over"
        /\ r \notin watching[s] /\ r \notin joining => row'[r] = row[r]
        /\ r \notin watching[s] => calls'[r] = calls[r]
  BY <1>1, <1>2, <1>3 DEF Closed, Reported, Listening
<1>6. \A r \in Runs : r \notin joining => phase'[r] = phase[r] /\ sessionOf'[r] = sessionOf[r]
  BY <1>1
<1>7. \A r \in joining : row'[r] = "open" /\ phase'[r] = "over" /\ sessionOf'[r] = s
  BY <1>1, <1>3
<1>8. \A u \in Sessions : watching'[u] = IF u = s THEN joining ELSE watching[u]
  BY <1>1
<1>9. RunTypes' BY <1>1, <1>2, <1>3 DEF Closed, Reported
<1>10. Untold'
  <2> SUFFICES ASSUME NEW r \in Runs, phase'[r] # "over"
               PROVE  /\ row'[r] = (IF Starting(r)' THEN "open" ELSE "none")
                      /\ sessionOf'[r] = NoSession /\ r \notin inFlight' /\ calls'[r] = 0
                      /\ \A u \in Sessions : r \notin watching'[u]
    BY DEF Untold
  <2>1. r \notin joining /\ phase[r] # "over" /\ phase'[r] = phase[r] BY <1>6, <1>7
  <2>2. /\ row[r] = (IF Starting(r) THEN "open" ELSE "none")
        /\ sessionOf[r] = NoSession /\ r \notin inFlight /\ calls[r] = 0
        /\ \A u \in Sessions : r \notin watching[u]
    BY <2>1 DEF Untold
  <2> QED BY <1>1, <1>5, <1>6, <1>8, <2>1, <2>2 DEF Starting
<1>11. Listening'
  <2>1. \A r \in Runs : sessionOf'[r] # NoSession => sess'[sessionOf'[r]] # "none"
    BY <1>2, <1>6, <1>7 DEF Listening
  <2>2. ASSUME NEW u \in Sessions, NEW r \in watching'[u]
        PROVE  sessionOf'[r] = u /\ phase'[r] = "over" /\ row'[r] \in {"open", "failed"}
    <3>1. CASE r \in joining BY <1>3, <1>7, <1>8, <2>2, <3>1
    <3>2. CASE r \notin joining
      <4>1. u # s /\ r \in watching[u] /\ r \in Runs BY <1>8, <2>2, <3>2
      <4>2. sessionOf[r] = u /\ phase[r] = "over" /\ row[r] \in {"open", "failed"}
        BY <4>1 DEF Listening
      <4>3. r \notin watching[s] BY <1>5, <4>1, <4>2
      <4> QED BY <1>5, <1>6, <3>2, <4>1, <4>2, <4>3
    <3> QED BY <3>1, <3>2
  <2>3. ASSUME NEW r \in inFlight'
        PROVE  sessionOf'[r] # NoSession /\ r \in watching'[sessionOf'[r]]
    <3>1. CASE r \in joining BY <1>4, <1>7, <1>8, <3>1
    <3>2. CASE r \notin joining
      <4>1. r \in inFlight /\ r \notin watching[s] /\ r \in Runs BY <1>1, <2>3, <3>2
      <4>2. sessionOf[r] \in Sessions /\ r \in watching[sessionOf[r]] BY <4>1 DEF Listening
      <4> QED BY <1>6, <1>8, <3>2, <4>1, <4>2, NoneOutside
    <3> QED BY <3>1, <3>2
  <2> QED BY <2>1, <2>2, <2>3 DEF Listening
<1>12. Unsettled'
  <2> SUFFICES ASSUME server = "up", NEW u \in Sessions, sess[u] = "live", NEW r \in watching'[u]
               PROVE  calls'[r] = 0
    BY <1>2 DEF Unsettled
  <2>1. CASE r \in joining BY <1>3, <1>5, <2>1
  <2>2. CASE r \notin joining
    <3>1. u # s /\ r \in watching[u] /\ r \in Runs BY <1>8, <2>2
    <3>2. r \notin watching[s] /\ calls[r] = 0 BY <1>5, <3>1 DEF Listening, Unsettled
    <3> QED BY <1>5, <3>1, <3>2
  <2> QED BY <2>1, <2>2
<1>13. OpenRowHasAnOwner'
  <2> SUFFICES ASSUME NEW r \in Runs, server = "up", row'[r] = "open"
               PROVE  \/ phase'[r] \in {"preparing", "creating"}
                      \/ /\ sessionOf'[r] # NoSession
                         /\ \/ sess'[sessionOf'[r]] = "dead"
                            \/ r \in watching'[sessionOf'[r]] /\ r \in inFlight'
    BY <1>2 DEF OpenRowHasAnOwner
  <2>1. CASE r \in joining BY <1>1, <1>4, <1>7, <1>8, <2>1
  <2>2. CASE r \notin joining
    <3>1. r \notin watching[s] /\ row[r] = "open" BY <1>5, <2>2
    <3> QED BY <1>1, <1>2, <1>6, <1>8, <2>2, <3>1 DEF OpenRowHasAnOwner
  <2> QED BY <2>1, <2>2
<1>14. OnceStep
  <2>1. \A r \in Runs : server = "up" /\ calls'[r] # calls[r] => calls[r] = 0
    BY <1>2, <1>5 DEF Unsettled
  <2>2. \A r \in Runs : row[r] = "succeeded" => row'[r] = "succeeded"
    BY <1>3, <1>5 DEF Listening
  <2> QED BY <2>1, <2>2 DEF OnceStep
<1> QED BY <1>9, <1>10, <1>11, <1>12, <1>13, <1>14 DEF Parts

\* A session ends: those who listen are told, or nobody is.
LEMMA EndSteps ==
    ASSUME RunInv, NEW s \in Sessions, Exit(s) \/ Kill(s)
    PROVE  Parts
<1> USE DEF RunInv, RunTypes
<1>1. CASE Exit(s)
  <2>1. /\ sess[s] = "live" /\ sess' = [sess EXCEPT ![s] = "dead"]
        /\ row' = Closed(watching[s], "failed") /\ calls' = Reported(watching[s])
        /\ inFlight' = inFlight \ watching[s] /\ watching' = [watching EXCEPT ![s] = {}]
        /\ UNCHANGED <<phase, sessionOf, server>>
    BY <1>1 DEF Exit
  <2>2. \A r \in Runs :
          /\ r \in watching[s] => row'[r] = "failed" /\ sessionOf[r] = s /\ phase[r] = "over"
          /\ r \notin watching[s] => row'[r] = row[r] /\ calls'[r] = calls[r]
    BY <2>1 DEF Closed, Reported, Listening
  <2>3. \A u \in Sessions : watching'[u] = IF u = s THEN {} ELSE watching[u] BY <2>1
  <2>4. RunTypes' BY <2>1 DEF Closed, Reported
  <2>5. Untold' BY <2>1, <2>2, <2>3 DEF Untold, Starting
  <2>6. Listening'
    <3>1. \A r \in Runs : sessionOf'[r] # NoSession => sess'[sessionOf'[r]] # "none"
      BY <2>1 DEF Listening
    <3>2. ASSUME NEW u \in Sessions, NEW r \in watching'[u]
          PROVE  sessionOf'[r] = u /\ phase'[r] = "over" /\ row'[r] \in {"open", "failed"}
      <4>1. u # s /\ r \in watching[u] /\ r \in Runs BY <2>3, <3>2
      <4>2. r \notin watching[s] BY <4>1 DEF Listening
      <4> QED BY <2>1, <2>2, <4>1, <4>2 DEF Listening
    <3>3. \A r \in inFlight' : sessionOf'[r] # NoSession /\ r \in watching'[sessionOf'[r]]
      BY <2>1 DEF Listening
    <3> QED BY <3>1, <3>2, <3>3 DEF Listening
  <2>7. Unsettled'
    <3> SUFFICES ASSUME server = "up", NEW u \in Sessions, sess'[u] = "live", NEW r \in watching'[u]
                 PROVE  calls'[r] = 0
      BY <2>1 DEF Unsettled
    <3>1. u # s /\ r \in watching[u] /\ r \in Runs /\ sess[u] = "live" BY <2>1, <2>3
    <3>2. r \notin watching[s] BY <3>1 DEF Listening
    <3> QED BY <2>2, <3>1, <3>2 DEF Unsettled
  <2>8. OpenRowHasAnOwner' BY <2>1, <2>2 DEF OpenRowHasAnOwner
  <2>9. OnceStep BY <2>1, <2>2 DEF OnceStep, Unsettled, Listening
  <2> QED BY <2>4, <2>5, <2>6, <2>7, <2>8, <2>9 DEF Parts
<1>2. CASE Kill(s)
  <2>1. /\ sess[s] = "live" /\ sess' = [sess EXCEPT ![s] = "dead"]
        /\ UNCHANGED <<phase, row, sessionOf, inFlight, calls, watching, server>>
    BY <1>2 DEF Kill, rows
  <2>2. RunTypes' BY <2>1
  <2>3. Untold' BY <2>1 DEF Untold, Starting
  <2>4. Listening' BY <2>1 DEF Listening
  <2>5. Unsettled' BY <2>1 DEF Unsettled
  <2>6. OpenRowHasAnOwner' BY <2>1 DEF OpenRowHasAnOwner
  <2>7. OnceStep BY <2>1 DEF OnceStep
  <2> QED BY <2>2, <2>3, <2>4, <2>5, <2>6, <2>7 DEF Parts
<1> QED BY <1>1, <1>2

\* The services and the process.
LEMMA ServerSteps ==
    ASSUME RunInv, Quiet, Stop \/ GoDown \/ Boot \/ \E kind \in Kinds : Sweep(kind)
    PROVE  Parts
<1> USE DEF RunInv, RunTypes
<1>1. ASSUME NEW kind \in Kinds, Sweep(kind) PROVE Parts
  <2>1. /\ row' = Closed(Ended \cap kind, "failed")
        /\ UNCHANGED <<phase, sessionOf, inFlight, calls, watching, sess, server>>
    BY <1>1 DEF Sweep, agents
  <2>2. \A r \in Runs : \/ row'[r] = row[r]
                        \/ row[r] = "open" /\ row'[r] = "failed" /\ sessionOf[r] # NoSession
    BY <2>1 DEF Closed, Ended
  <2>3. RunTypes' BY <2>1 DEF Closed
  <2>4. Untold' BY <2>1, <2>2 DEF Untold, Starting
  <2>5. Listening'
    <3>1. ASSUME NEW u \in Sessions, NEW x \in watching[u]
          PROVE  sessionOf[x] = u /\ phase[x] = "over" /\ row'[x] \in {"open", "failed"}
      <4>1. x \in Runs /\ row[x] \in {"open", "failed"} BY <3>1 DEF Listening
      <4> QED BY <2>2, <3>1, <4>1 DEF Listening
    <3> QED BY ZenonT(30), <2>1, <3>1 DEF Listening
  <2>6. Unsettled' BY <2>1 DEF Unsettled
  <2>7. OpenRowHasAnOwner' BY <2>1, <2>2 DEF OpenRowHasAnOwner
  <2>8. OnceStep BY <2>1, <2>2 DEF OnceStep
  <2> QED BY <2>3, <2>4, <2>5, <2>6, <2>7, <2>8 DEF Parts
<1>2. CASE Stop
  <2>1. /\ server' = "stopping" /\ row' = Closed(inFlight, "failed") /\ calls' = Reported(inFlight)
        /\ inFlight' = {} /\ UNCHANGED <<phase, sessionOf, watching, sess>>
    BY <1>2 DEF Stop, agents
  <2>2. \A r \in Runs :
          /\ r \in inFlight => /\ row'[r] = "failed" /\ row[r] \in {"open", "failed"}
                               /\ phase[r] = "over"
          /\ r \notin inFlight => row'[r] = row[r] /\ calls'[r] = calls[r]
    BY <2>1 DEF Closed, Reported, Listening
  <2>3. RunTypes' BY <2>1 DEF Closed, Reported
  <2>4. Untold' BY <2>1, <2>2 DEF Untold, Starting
  <2>5. Listening' BY <2>1, <2>2 DEF Listening
  <2>6. Unsettled' /\ OpenRowHasAnOwner' BY <2>1 DEF Unsettled, OpenRowHasAnOwner
  <2>7. OnceStep BY <2>1, <2>2 DEF OnceStep
  <2> QED BY <2>3, <2>4, <2>5, <2>6, <2>7 DEF Parts
<1>3. CASE GoDown
  <2>1. /\ server' = "down"
        /\ phase' = [r \in Runs |-> IF phase[r] = "none" THEN "none" ELSE "over"]
        /\ inFlight' = {} /\ watching' = [s \in Sessions |-> {}]
        /\ sess' = [s \in Sessions |-> IF sess[s] = "none" THEN "none" ELSE "dead"]
        /\ UNCHANGED <<row, sessionOf, calls>>
    BY <1>3 DEF GoDown
  <2>2. RunTypes' BY <2>1
  <2>3. Untold' BY <2>1 DEF Untold, Starting
  <2>4. Listening' BY <2>1 DEF Listening
  <2>5. Unsettled' /\ OpenRowHasAnOwner' BY <2>1 DEF Unsettled, OpenRowHasAnOwner
  <2>6. OnceStep BY <2>1 DEF OnceStep
  <2> QED BY <2>2, <2>3, <2>4, <2>5, <2>6 DEF Parts
<1>4. CASE Boot
  <2>1. /\ server = "down" /\ server' = "up"
        /\ row' = [r \in Runs |-> IF row[r] = "open" THEN "failed" ELSE row[r]]
        /\ UNCHANGED <<phase, sessionOf, inFlight, calls, watching, sess>>
    BY <1>4 DEF Boot, agents
  <2>2. \A r \in Runs : row'[r] # "open" /\ (row[r] # "open" => row'[r] = row[r])
    BY <2>1
  <2>3. RunTypes' BY <2>1
  <2>4. Untold' BY <2>1, <2>2 DEF Untold, Starting, Quiet
  <2>5. Listening'
    <3>1. ASSUME NEW u \in Sessions, NEW x \in watching[u]
          PROVE  sessionOf[x] = u /\ phase[x] = "over" /\ row'[x] \in {"open", "failed"}
      <4>1. x \in Runs /\ row[x] \in {"open", "failed"} BY <3>1 DEF Listening
      <4> QED BY <2>1, <3>1, <4>1 DEF Listening
    <3> QED BY <2>1, <3>1 DEF Listening
  <2>6. Unsettled' BY <2>1 DEF Unsettled, Quiet
  <2>7. OpenRowHasAnOwner' BY <2>2 DEF OpenRowHasAnOwner
  <2>8. OnceStep BY <2>1, <2>2 DEF OnceStep
  <2> QED BY <2>3, <2>4, <2>5, <2>6, <2>7, <2>8 DEF Parts
<1> QED BY <1>1, <1>2, <1>3, <1>4

-----------------------------------------------------------------------------
(* The theorems.                                                            *)

(* Every step does its part of keeping the invariant, and reports once.    *)
LEMMA EveryStep == RunInv /\ Quiet /\ [Next]_vars => Parts /\ Quiet'
<1> SUFFICES ASSUME RunInv, Quiet, [Next]_vars PROVE Parts /\ Quiet' OBVIOUS
<1>1. Parts
  <2>1. ASSUME UNCHANGED <<phase, row, sessionOf, inFlight, calls, watching, sess, server>>
        PROVE  Parts
    BY <2>1 DEF Parts, RunInv, RunTypes, Untold, Starting, Listening, Unsettled,
                OpenRowHasAnOwner, OnceStep
  <2>2. ASSUME NEW s \in Sessions, Prompt(s) \/ TurnLost(s) PROVE Parts
    BY <2>1, <2>2 DEF Prompt, TurnLost, rows
  <2>3. CASE UNCHANGED vars BY <2>1, <2>3 DEF vars, rows, agents
  <2> QED BY <2>2, <2>3, StartSteps, SessionSteps, TurnStep, EndSteps, ServerSteps DEF Next
<1>2. Quiet'
  <2>1. CASE server' # "down" BY <2>1 DEF Quiet
  <2>2. CASE GoDown BY <2>2 DEF GoDown, Quiet, Starting, RunInv, RunTypes
  <2>3. CASE UNCHANGED vars BY <2>3 DEF vars, rows, agents, Quiet, Starting
  <2>4. server' = "down" => GoDown \/ UNCHANGED vars
    BY DEF Next, Begin, Prepare, Fail, Created, CreatedDead, FollowUp, MayFollowUp, Prompt,
           TurnComplete, TurnLost, Exit, Kill, Sweep, Stop, Boot
  <2> QED BY <2>1, <2>2, <2>3, <2>4
<1> QED BY <1>1, <1>2

\* What is recorded of runs, sessions and listeners agrees in every state.
THEOREM RunInvariant == Spec => [](RunInv /\ Quiet)
<1>1. Init => RunInv /\ Quiet BY RunInit DEF Init, Quiet
<1>2. RunInv /\ Quiet /\ [Next]_vars => (RunInv /\ Quiet)' BY EveryStep DEF Parts
<1> QED BY <1>1, <1>2, PTL DEF Spec

\* While the server is up every open row has somebody who will close it: its
\* start(), a listener on a live session that abandonAll knows of, or the sweep.
THEOREM RowsHaveOwners == Spec => []OpenRowHasAnOwner
<1>1. RunInv => OpenRowHasAnOwner BY DEF RunInv
<1> QED BY <1>1, RunInvariant, PTL

\* While the server is up a run is reported over once, and a success is never
\* taken back, in whatever order its turn, the session's end, the sweep, a stop and a boot come.
THEOREM RunsSettleOnce == Spec => SettledOnce
<1>1. RunInv /\ Quiet /\ [Next]_vars =>
        [\A r \in Runs :
           /\ server = "up" /\ server' = "up" /\ calls'[r] # calls[r] => calls[r] = 0
           /\ row[r] = "succeeded" => row'[r] = "succeeded"]_vars
  BY EveryStep DEF Parts, OnceStep
<1> QED BY <1>1, RunInvariant, PTL DEF Spec, SettledOnce

-----------------------------------------------------------------------------
(* Types.                                                                   *)

\* The types of what the agents have before them; only a live session has
\* turns, and only it is busy.
AgentTypes ==
    /\ turns \in [Sessions -> Seq(Runs \cup {Human})]
    /\ \A s \in Sessions : sess[s] # "live" => turns[s] = <<>>
    /\ busy \subseteq {s \in Sessions : sess[s] = "live"}
    /\ answered \subseteq Runs
    /\ humans \in 0..MaxHuman
    /\ restarts \in 0..MaxRestarts

\* At most one run joins a turn's end, as a sequence of itself.
LEMMA JoiningSequence ==
    ASSUME NEW S \in {{}} \cup {{r} : r \in Runs}
    PROVE  SetToSeq(S) \in Seq(Runs)
<1>0. ASSUME NEW n \in Nat, NEW f \in [1..n -> Runs] PROVE f \in Seq(Runs) OBVIOUS
<1>1. CASE S = {}
  <2> DEFINE f == [n \in 1..0 |-> n]
  <2>1. Cardinality(S) = 0 BY <1>1, FS_EmptySet
  <2>2. f \in [1..0 -> S] /\ IsInjective(f) BY DEF IsInjective
  <2> HIDE DEF f
  <2>3. SetToSeq(S) \in [1..0 -> S] BY <2>1, <2>2 DEF SetToSeq
  <2> QED BY <1>0, <1>1, <2>3
<1>2. ASSUME NEW r \in Runs, S = {r} PROVE SetToSeq(S) \in Seq(Runs)
  <2>1. Cardinality(S) = 1 BY <1>2, FS_Singleton
  <2>2. <<r>> \in [1..1 -> S] /\ IsInjective(<<r>>) BY <1>2 DEF IsInjective
  <2>3. SetToSeq(S) \in [1..1 -> S] BY <2>1, <2>2 DEF SetToSeq
  <2>4. SetToSeq(S) \in [1..1 -> Runs] BY <1>2, <2>3
  <2> QED BY <1>0, <2>4
<1> QED BY <1>1, <1>2

\* Every step keeps those types.
LEMMA AgentStep ==
    ASSUME RunInv, AgentTypes, [Next]_vars
    PROVE  AgentTypes'
<1> USE DEF AgentTypes
<1>0. sess \in [Sessions -> {"none", "live", "dead"}] BY DEF RunInv, RunTypes
\* What is said of one live session: it has these turns and may be busy.
<1>1. ASSUME NEW s \in Sessions, sess'[s] = "live", \A u \in Sessions \ {s} : sess'[u] = sess[u],
             NEW q \in Seq(Runs \cup {Human}), turns' = [turns EXCEPT ![s] = q],
             busy' \subseteq busy \cup {s}, answered' \subseteq Runs,
             humans' \in 0..MaxHuman, restarts' = restarts
      PROVE  AgentTypes'
  <2>1. turns' \in [Sessions -> Seq(Runs \cup {Human})] BY <1>1
  <2>2. \A u \in Sessions : sess'[u] # "live" => turns'[u] = <<>> BY <1>1
  <2>3. busy' \subseteq {u \in Sessions : sess'[u] = "live"} BY <1>1
  <2> QED BY <1>1, <2>1, <2>2, <2>3
<1>2. ASSUME NEW s \in Sessions, sess' = [sess EXCEPT ![s] = "dead"],
             turns' = [turns EXCEPT ![s] = <<>>], busy' = busy \ {s},
             UNCHANGED <<answered, humans, restarts>>
      PROVE  AgentTypes'
  <2>1. turns' \in [Sessions -> Seq(Runs \cup {Human})] BY <1>2
  <2>2. \A u \in Sessions : sess'[u] # "live" => turns'[u] = <<>> BY <1>0, <1>2
  <2>3. busy' \subseteq {u \in Sessions : sess'[u] = "live"} BY <1>0, <1>2
  <2> QED BY <1>2, <2>1, <2>2, <2>3
<1>3. ASSUME UNCHANGED <<turns, sess, busy, answered, humans, restarts>> PROVE AgentTypes'
  BY <1>3
<1>4. ASSUME NEW r \in Runs, Begin(r) \/ Prepare(r) \/ Fail(r) PROVE AgentTypes'
  BY <1>3, <1>4 DEF Begin, Prepare, Fail, agents
<1>5. ASSUME NEW r \in Runs, NEW s \in Sessions, Created(r, s) PROVE AgentTypes'
  <2>1. <<r>> \in Seq(Runs \cup {Human}) OBVIOUS
  <2>2. /\ sess' = [sess EXCEPT ![s] = "live"] /\ turns' = [turns EXCEPT ![s] = <<r>>]
        /\ busy' = busy \cup {s} /\ UNCHANGED <<answered, humans, restarts>>
    BY <1>5 DEF Created
  <2> QED BY <1>0, <1>1, <2>1, <2>2
<1>6. ASSUME NEW r \in Runs, NEW s \in Sessions, CreatedDead(r, s) PROVE AgentTypes'
  <2>1. /\ sess[s] = "none" /\ sess' = [sess EXCEPT ![s] = "dead"]
        /\ UNCHANGED <<turns, busy, answered, humans, restarts>>
    BY <1>6 DEF CreatedDead
  <2>2. s \notin busy /\ turns[s] = <<>> BY <2>1
  <2>3. turns' = [turns EXCEPT ![s] = <<>>] /\ busy' = busy \ {s} BY <2>1, <2>2
  <2> QED BY <1>2, <2>1, <2>3
<1>7. ASSUME NEW r \in Runs, NEW s \in Sessions, FollowUp(r, s) PROVE AgentTypes'
  <2>1. Append(turns[s], r) \in Seq(Runs \cup {Human}) OBVIOUS
  <2>2. /\ sess[s] = "live" /\ turns' = [turns EXCEPT ![s] = Append(turns[s], r)]
        /\ busy' = busy \cup {s} /\ UNCHANGED <<sess, answered, humans, restarts>>
    BY <1>7 DEF FollowUp, MayFollowUp
  <2> QED BY <1>1, <2>1, <2>2
<1>8. ASSUME NEW s \in Sessions, Prompt(s) PROVE AgentTypes'
  <2>1. Append(turns[s], Human) \in Seq(Runs \cup {Human}) OBVIOUS
  <2>2. /\ sess[s] = "live" /\ turns' = [turns EXCEPT ![s] = Append(turns[s], Human)]
        /\ busy' = busy \cup {s} /\ UNCHANGED <<sess, answered, restarts>>
        /\ humans < MaxHuman /\ humans' = humans + 1
    BY <1>8 DEF Prompt
  <2>3. humans' \in 0..MaxHuman BY <2>2, BoundsNat
  <2> QED BY <1>1, <2>1, <2>2, <2>3
<1>9. ASSUME NEW s \in Sessions, TurnComplete(s) PROVE AgentTypes'
  <2>1. /\ sess[s] = "live" /\ turns[s] # <<>> /\ UNCHANGED <<sess, humans, restarts>>
        /\ answered' = answered \cup ({Head(turns[s])} \ {Human})
    BY <1>9 DEF TurnComplete
  <2>2. PICK outcome \in {"succeeded", "failed"}, after \in StillBusy(s),
             joining \in {{}} \cup {{r} : r \in {x \in Runs : MayFollowUp(x, s)}} :
          /\ joining # {} => "queue" \in Policies /\ s \notin after
          /\ row' = [r \in Runs |-> IF r \in joining THEN "open"
                                    ELSE Closed(watching[s], outcome)[r]]
          /\ phase' = [r \in Runs |-> IF r \in joining THEN "over" ELSE phase[r]]
          /\ sessionOf' = [r \in Runs |-> IF r \in joining THEN s ELSE sessionOf[r]]
          /\ inFlight' = (inFlight \ watching[s]) \cup joining
          /\ watching' = WatchersAfter(s, joining)
          /\ turns' = [turns EXCEPT ![s] = Tail(@) \o SetToSeq(joining)]
          /\ busy' = after \cup {x \in {s} : joining # {}}
    BY <1>9 DEF TurnComplete
  <2>3. SetToSeq(joining) \in Seq(Runs) BY JoiningSequence
  <2>4. Head(turns[s]) \in Runs \cup {Human} /\ Tail(turns[s]) \in Seq(Runs \cup {Human})
    BY <2>1
  <2>5. SetToSeq(joining) \in Seq(Runs \cup {Human}) BY <2>3
  <2>6. Tail(turns[s]) \o SetToSeq(joining) \in Seq(Runs \cup {Human}) BY <2>4, <2>5
  <2>7. busy' \subseteq busy \cup {s} BY <2>2 DEF StillBusy
  <2>8. answered' \subseteq Runs BY <2>1, <2>4
  <2> QED BY <1>1, <2>1, <2>2, <2>6, <2>7, <2>8
<1>10. ASSUME NEW s \in Sessions, TurnLost(s) PROVE AgentTypes'
  <2>1. /\ sess[s] = "live" /\ turns[s] # <<>> /\ UNCHANGED <<sess, answered, humans, restarts>>
        /\ turns' = [turns EXCEPT ![s] = Tail(turns[s])] /\ busy' \subseteq busy \cup {s}
    BY <1>10 DEF TurnLost, StillBusy
  <2>2. Tail(turns[s]) \in Seq(Runs \cup {Human}) BY <2>1
  <2> QED BY <1>1, <2>1, <2>2
<1>11. ASSUME NEW s \in Sessions, Exit(s) \/ Kill(s) PROVE AgentTypes'
  BY <1>2, <1>11 DEF Exit, Kill
<1>12. ASSUME NEW kind \in Kinds, Sweep(kind) PROVE AgentTypes'
  BY <1>3, <1>12 DEF Sweep, agents
<1>13. CASE Stop \/ Boot \/ UNCHANGED vars
  BY <1>3, <1>13 DEF Stop, Boot, vars, agents
<1>14. CASE GoDown
  <2>1. /\ turns' = [s \in Sessions |-> <<>>] /\ busy' = {} /\ UNCHANGED <<answered, humans>>
        /\ restarts < MaxRestarts /\ restarts' = restarts + 1
    BY <1>14 DEF GoDown
  <2>2. restarts' \in 0..MaxRestarts BY <2>1, BoundsNat
  <2> QED BY <2>1, <2>2
<1> QED BY <1>4, <1>5, <1>6, <1>7, <1>8, <1>9, <1>10, <1>11, <1>12, <1>13, <1>14 DEF Next

\* Rows, listeners, sessions and their turns are well typed; only a live session
\* is busy or has turns to do.
THEOREM RunTypeCorrect == Spec => []TypeOK
<1>1. Init => AgentTypes BY BoundsNat DEF Init, AgentTypes
<1>2. RunInv /\ AgentTypes /\ [Next]_vars => AgentTypes' BY AgentStep
<1>3. RunInv /\ AgentTypes => TypeOK BY DEF RunInv, RunTypes, AgentTypes, TypeOK
<1> QED BY <1>1, <1>2, <1>3, RunInvariant, PTL DEF Spec
=============================================================================
