------------------------ MODULE PilotRuntimeProofs ------------------------
(* Proofs of the safety properties of PilotRuntime.                        *)
EXTENDS PilotRuntime, TLAPS

(* What the snapshot owes to the probe in flight. The probe began at the   *)
(* revision it will be compared with, and while the gate is open no error  *)
(* has come since; so a probe that a later event disowned finds it shut.   *)
ReadinessInv ==
    /\ sealed <=> lifecycle # "open"
    /\ awaiting # "none" => lifecycle = "closing"
    /\ sealed => passing = {}
    /\ ~sealed => revision = errors
    /\ Ready => provenAt = errors
    /\ probe # NoProbe =>
        /\ probe.revision = probe.begunAt
        /\ probe.step = "database" => probe.checks = {}
        /\ probe.step = "membership" => probe.checks = {"database", "migrations"}
        /\ Ready => probe.revision = revision /\ ~probe.timedOut

(* The order of the shutdown: listener, probe, pool.                       *)
ShutdownInv ==
    /\ lifecycle = "open" => awaiting = "none" /\ pool = "open"
    /\ lifecycle = "open" => http \in {"idle", "binding", "failed", "listening"}
    /\ lifecycle # "open" => http \in {"failed", "draining", "stopped", "forced"}
    /\ timer => lifecycle = "open"
    /\ http = "draining" => awaiting = "server"
    /\ awaiting = "server" => http = "draining" /\ pool = "open"
    /\ awaiting = "probe" => pool = "open"
    /\ awaiting = "pool" => pool = "ending"
    /\ requests \subseteq abandoned \/ http \in {"listening", "draining", "forced"}
    /\ pool # "open" /\ probe # NoProbe => gaveUp

(* The stages of a probe, as the steps of a probe reach them.              *)
LEMMA StageFacts ==
  /\ {} \in Stages /\ {"database"} \in Stages
  /\ {"database", "migrations"} \in Stages /\ Checks \in Stages
  /\ {"database", "migrations"} \cup {"membership"} = Checks
  /\ {} # Checks /\ {"database"} # Checks /\ {"database", "migrations"} # Checks
BY DEF Stages, Checks

(* Every step keeps the types. *)
LEMMA TypeStep ==
  ASSUME TypeOK, ReadinessInv, [Next]_vars
  PROVE  TypeOK'
<1> USE NoProbeAssumption, StageFacts DEF TypeOK, ReadinessInv, Probes, vars, runtime, snapshot
<1>1. CASE Tick
  BY <1>1 DEF Tick, ProbeReadiness
<1>2. CASE DatabaseRowRefused
  BY <1>2 DEF DatabaseRowRefused, SettleProbe, Report, Mark, Undisturbed
<1>3. CASE DatabaseRowCurrent
  BY <1>3, ZenonT(40) DEF DatabaseRowCurrent, SettleProbe, Report, Mark, Undisturbed
<1>4. CASE MembershipAnswers
  BY <1>4 DEF MembershipAnswers, SettleProbe, Report, Mark, Undisturbed
<1>5. CASE ProbeThrows
  BY <1>5 DEF ProbeThrows, SettleProbe, Report, Mark, Undisturbed
<1>6. CASE ProbeTimesOut
  BY <1>6, ZenonT(40) DEF ProbeTimesOut, Report, Mark, Undisturbed
<1>7. CASE PoolError
  BY <1>7 DEF PoolError, Mark
<1>8. CASE DatabaseChanges
  <2>1. PICK s \in {"up", "slow", "stale", "down"} :
          /\ db' = s
          /\ probe' = IF probe = NoProbe THEN probe
                      ELSE [probe EXCEPT !.delayed = @ \/ s # "up"]
    BY <1>8 DEF DatabaseChanges
  <2>2. CASE probe = NoProbe
    BY <1>8, <2>1, <2>2 DEF DatabaseChanges
  <2>3. CASE probe # NoProbe
    <3>1. (probe.delayed \/ s # "up") \in BOOLEAN
      OBVIOUS
    <3>2. probe' \in Probes
      BY <2>1, <2>3, <3>1
    <3>3. QED
      BY <1>8, <2>1, <3>2 DEF DatabaseChanges
  <2>4. QED
    BY <2>2, <2>3
<1>9. CASE Listen
  BY <1>9 DEF Listen
<1>10. CASE Listening
  BY <1>10 DEF Listening, ProbeReadiness
<1>11. CASE ListenFails
  BY <1>11 DEF ListenFails
<1>12. ASSUME NEW r \in Requests, AdmitRequest(r) PROVE TypeOK'
  BY <1>12 DEF AdmitRequest
<1>13. ASSUME NEW r \in Requests, RequestEnds(r) PROVE TypeOK'
  BY <1>13 DEF RequestEnds
<1>14. ASSUME NEW r \in Requests, ClientLeaves(r) PROVE TypeOK'
  BY <1>14 DEF ClientLeaves
<1>15. CASE Close
  <2>1. /\ http' = http \/ http' = "draining"
        /\ awaiting' \in {"server", "probe"}
    BY <1>15 DEF Close
  <2>2. /\ lifecycle' = "closing" /\ timer' = FALSE /\ sealed' = TRUE
        /\ passing' = {} /\ revision' \in Nat
        /\ UNCHANGED <<requests, abandoned, gaveUp, provenAt, probe, pool, db, errors>>
    BY <1>15 DEF Close
  <2>3. QED
    BY <2>1, <2>2, ZenonT(40)
<1>16. CASE DrainEnds
  BY <1>16 DEF DrainEnds
<1>17. CASE DrainForced
  BY <1>17 DEF DrainForced
<1>18. CASE ProbeDrained
  BY <1>18 DEF ProbeDrained, EndPool
<1>19. CASE ProbeDrainTimesOut
  BY <1>19 DEF ProbeDrainTimesOut, EndPool
<1>20. CASE PoolEnds
  BY <1>20 DEF PoolEnds, Closed
<1>21. CASE PoolEndTimesOut
  BY <1>21 DEF PoolEndTimesOut, Closed
<1>22. CASE UNCHANGED vars
  BY <1>22
<1>23. QED
  BY <1>1, <1>2, <1>3, <1>4, <1>5, <1>6, <1>7, <1>8, <1>9, <1>10,
     <1>11, <1>12, <1>13, <1>14, <1>15, <1>16, <1>17, <1>18, <1>19, <1>20,
     <1>21, <1>22 DEF Next, ProbeSettles

(* Every step keeps what the snapshot owes to the probe. *)
LEMMA ReadinessStep ==
  ASSUME TypeOK, ReadinessInv, [Next]_vars
  PROVE  ReadinessInv'
<1> USE NoProbeAssumption, StageFacts DEF TypeOK, ReadinessInv, Probes, Ready, vars, runtime, snapshot
<1>1. CASE Tick
  BY <1>1 DEF Tick, ProbeReadiness
<1>2. CASE DatabaseRowRefused
  BY <1>2 DEF DatabaseRowRefused, SettleProbe, Report, Mark, Undisturbed
<1>3. CASE DatabaseRowCurrent
  BY <1>3 DEF DatabaseRowCurrent, SettleProbe, Report, Mark, Undisturbed
<1>4. CASE MembershipAnswers
  BY <1>4 DEF MembershipAnswers, SettleProbe, Report, Mark, Undisturbed
<1>5. CASE ProbeThrows
  BY <1>5 DEF ProbeThrows, SettleProbe, Report, Mark, Undisturbed
<1>6. CASE ProbeTimesOut
  BY <1>6 DEF ProbeTimesOut, Report, Mark, Undisturbed
<1>7. CASE PoolError
  BY <1>7 DEF PoolError, Mark
<1>8. CASE DatabaseChanges
  BY <1>8 DEF DatabaseChanges
<1>9. CASE Listen
  BY <1>9 DEF Listen
<1>10. CASE Listening
  BY <1>10 DEF Listening, ProbeReadiness
<1>11. CASE ListenFails
  BY <1>11 DEF ListenFails
<1>12. ASSUME NEW r \in Requests, AdmitRequest(r) PROVE ReadinessInv'
  BY <1>12 DEF AdmitRequest
<1>13. ASSUME NEW r \in Requests, RequestEnds(r) PROVE ReadinessInv'
  BY <1>13 DEF RequestEnds
<1>14. ASSUME NEW r \in Requests, ClientLeaves(r) PROVE ReadinessInv'
  BY <1>14 DEF ClientLeaves
<1>15. CASE Close
  BY <1>15 DEF Close
<1>16. CASE DrainEnds
  BY <1>16 DEF DrainEnds
<1>17. CASE DrainForced
  BY <1>17 DEF DrainForced
<1>18. CASE ProbeDrained
  BY <1>18 DEF ProbeDrained, EndPool
<1>19. CASE ProbeDrainTimesOut
  BY <1>19 DEF ProbeDrainTimesOut, EndPool
<1>20. CASE PoolEnds
  BY <1>20 DEF PoolEnds, Closed
<1>21. CASE PoolEndTimesOut
  BY <1>21 DEF PoolEndTimesOut, Closed
<1>22. CASE UNCHANGED vars
  BY <1>22
<1>23. QED
  BY <1>1, <1>2, <1>3, <1>4, <1>5, <1>6, <1>7, <1>8, <1>9, <1>10,
     <1>11, <1>12, <1>13, <1>14, <1>15, <1>16, <1>17, <1>18, <1>19, <1>20,
     <1>21, <1>22 DEF Next, ProbeSettles

(* Every step keeps the order of the shutdown when nothing closes the      *)
(* runtime before its listener is up.                                      *)
LEMMA ShutdownStep ==
  ASSUME TypeOK, ReadinessInv, ShutdownInv, ~Embedded, [Next]_vars
  PROVE  ShutdownInv'
<1> USE NoProbeAssumption, StageFacts DEF TypeOK, ReadinessInv, ShutdownInv, Ready, vars, runtime, snapshot
<1>1. CASE Tick
  BY <1>1 DEF Tick, ProbeReadiness
<1>2. CASE DatabaseRowRefused
  BY <1>2 DEF DatabaseRowRefused, SettleProbe, Report, Mark, Undisturbed
<1>3. CASE DatabaseRowCurrent
  BY <1>3 DEF DatabaseRowCurrent, SettleProbe, Report, Mark, Undisturbed
<1>4. CASE MembershipAnswers
  BY <1>4 DEF MembershipAnswers, SettleProbe, Report, Mark, Undisturbed
<1>5. CASE ProbeThrows
  BY <1>5 DEF ProbeThrows, SettleProbe, Report, Mark, Undisturbed
<1>6. CASE ProbeTimesOut
  BY <1>6 DEF ProbeTimesOut, Report, Mark, Undisturbed
<1>7. CASE PoolError
  BY <1>7 DEF PoolError, Mark
<1>8. CASE DatabaseChanges
  BY <1>8 DEF DatabaseChanges
<1>9. CASE Listen
  BY <1>9 DEF Listen
<1>10. CASE Listening
  BY <1>10 DEF Listening, ProbeReadiness
<1>11. CASE ListenFails
  BY <1>11 DEF ListenFails
<1>12. ASSUME NEW r \in Requests, AdmitRequest(r) PROVE ShutdownInv'
  BY <1>12 DEF AdmitRequest
<1>13. ASSUME NEW r \in Requests, RequestEnds(r) PROVE ShutdownInv'
  BY <1>13 DEF RequestEnds
<1>14. ASSUME NEW r \in Requests, ClientLeaves(r) PROVE ShutdownInv'
  BY <1>14 DEF ClientLeaves
<1>15. CASE Close
  BY <1>15 DEF Close
<1>16. CASE DrainEnds
  BY <1>16 DEF DrainEnds
<1>17. CASE DrainForced
  BY <1>17 DEF DrainForced
<1>18. CASE ProbeDrained
  BY <1>18 DEF ProbeDrained, EndPool
<1>19. CASE ProbeDrainTimesOut
  BY <1>19 DEF ProbeDrainTimesOut, EndPool
<1>20. CASE PoolEnds
  BY <1>20 DEF PoolEnds, Closed
<1>21. CASE PoolEndTimesOut
  BY <1>21 DEF PoolEndTimesOut, Closed
<1>22. CASE UNCHANGED vars
  BY <1>22
<1>23. QED
  BY <1>1, <1>2, <1>3, <1>4, <1>5, <1>6, <1>7, <1>8, <1>9, <1>10,
     <1>11, <1>12, <1>13, <1>14, <1>15, <1>16, <1>17, <1>18, <1>19, <1>20,
     <1>21, <1>22 DEF Next, ProbeSettles

(* The readiness invariant holds in every reachable state, for any caller. *)
THEOREM ReadinessInvariance == Spec => [](TypeOK /\ ReadinessInv)
<1>1. Init => TypeOK /\ ReadinessInv
  <2>1. ASSUME Init PROVE TypeOK
    <3>1. /\ lifecycle = "open" /\ awaiting = "none" /\ http = "idle"
          /\ pool = "open" /\ db \in {"up", "down"}
          /\ timer = FALSE /\ sealed = FALSE /\ gaveUp = FALSE
          /\ requests = {} /\ abandoned = {} /\ probe = NoProbe /\ passing = {}
          /\ revision = 0 /\ errors = 0 /\ provenAt = 0
      BY <2>1 DEF Init
    <3>2. QED
      BY <3>1, StageFacts DEF TypeOK
  <2>2. Init => ReadinessInv
    BY StageFacts DEF Init, ReadinessInv, Ready
  <2>3. QED
    BY <2>1, <2>2
<1>2. TypeOK /\ ReadinessInv /\ [Next]_vars => (TypeOK /\ ReadinessInv)'
  BY TypeStep, ReadinessStep
<1>3. QED
  BY <1>1, <1>2, PTL DEF Spec

(* The types of the variables. *)
THEOREM TypeCorrect == Spec => []TypeOK
BY ReadinessInvariance, PTL

(* The gate is open only on the word of a probe that began after the last  *)
(* pool error, in a runtime that nobody began to close.                    *)
THEOREM FreshReadiness == Spec => []ReadyIsFresh
<1>1. TypeOK /\ ReadinessInv => ReadyIsFresh
  BY StageFacts DEF ReadinessInv, ReadyIsFresh, Ready
<1>2. QED
  BY <1>1, ReadinessInvariance, PTL

(* A probe that exceeded its time keeps the gate shut until it settles. *)
THEOREM OverdueProbe == Spec => []OverdueProbeShutsGate
<1>1. TypeOK /\ ReadinessInv => OverdueProbeShutsGate
  BY DEF ReadinessInv, OverdueProbeShutsGate
<1>2. QED
  BY <1>1, ReadinessInvariance, PTL

(* The order of the shutdown holds in the process startPilotRuntime builds. *)
THEOREM ShutdownInvariance ==
  ASSUME ~Embedded
  PROVE  Spec => []ShutdownInv
<1>1. Init => ShutdownInv
  BY DEF Init, ShutdownInv
<1>2. TypeOK /\ ReadinessInv /\ ShutdownInv /\ [Next]_vars => ShutdownInv'
  BY ShutdownStep
<1>3. QED
  BY <1>1, <1>2, ReadinessInvariance, PTL DEF Spec

(* The pool ends after the listener, the requests somebody waits for and   *)
(* the probe, deadlines aside.                                             *)
THEOREM PoolLast ==
  ASSUME ~Embedded
  PROVE  Spec => []PoolEndsLast
<1>1. TypeOK /\ ShutdownInv => PoolEndsLast
  BY DEF TypeOK, ShutdownInv, PoolEndsLast
<1>2. QED
  BY <1>1, ReadinessInvariance, ShutdownInvariance, PTL

(* A closed runtime has neither interval nor listener. *)
THEOREM ClosedRelease ==
  ASSUME ~Embedded
  PROVE  Spec => []ClosedReleases
<1>1. ShutdownInv => ClosedReleases
  BY DEF ShutdownInv, ClosedReleases
<1>2. QED
  BY <1>1, ShutdownInvariance, PTL
=============================================================================
