---------------------------- MODULE PilotRuntime ----------------------------
(***************************************************************************)
(* The runtime that serves the secure pilot (src/src/pilot/runtime.js):    *)
(* its readiness snapshot, the single readiness probe that is in flight,   *)
(* the HTTP listener with the requests it admits, and the shutdown.        *)
(*                                                                         *)
(* One process runs everything, so an action is what happens between two   *)
(* turns of the event loop: from one await, timer or callback to the next. *)
(* Promise continuations of one turn belong to the same action.            *)
(*                                                                         *)
(* The database, the driver and Node's HTTP server are external: `db` says *)
(* how the database answers, Requests are whatever runs behind the gate.   *)
(*                                                                         *)
(* Not here: configuration parsing, the health routes' wording, logging,   *)
(* and the second listen() of one runtime, which it refuses.               *)
(***************************************************************************)
EXTENDS Naturals

CONSTANTS
    Requests,       \* requests that may run behind the readiness gate
    MaxPoolErrors,  \* bound: how often the pool reports an error
    Embedded,       \* TRUE: the caller of createPilotRuntime may close it
                    \* before listen() returned; startPilotRuntime cannot
    NoProbe         \* no probe in flight

ASSUME EmbeddedAssumption == Embedded \in BOOLEAN
ASSUME MaxPoolErrorsAssumption == MaxPoolErrors \in Nat

VARIABLES
    lifecycle,  \* open, closing or closed
    awaiting,   \* what close() waits for: nothing yet, server, probe, pool
    http,       \* the listener
    requests,   \* requests admitted whose handlers still run
    abandoned,  \* those of them whose client closed its connection
    timer,      \* is the probe interval armed?
    probe,      \* probeInFlight, or NoProbe
    revision,   \* readinessRevision
    passing,    \* the checks of the readiness snapshot that pass
    sealed,     \* the snapshot no longer changes
    pool,       \* the owned connection pool
    db,         \* how the database answers now
    gaveUp,     \* history: close() stopped waiting for the probe
    errors,     \* history: pool errors so far
    provenAt    \* history: pool errors before the probe behind the snapshot

runtime == <<lifecycle, awaiting, http, requests, abandoned, timer, gaveUp>>
snapshot == <<passing, sealed, provenAt>>
vars == <<runtime, snapshot, probe, revision, pool, db, errors>>

----------------------------------------------------------------------------
(* The readiness snapshot.                                                 *)

Checks == {"database", "migrations", "membership"}

\* The checks pass in this order.
Stages == {{}, {"database"}, {"database", "migrations"}, Checks}

Ready == passing = Checks

\* An unfinished probe answers for the revision it began with.
Probes == [step : {"database", "membership"}, revision : Nat, checks : Stages,
           timedOut : BOOLEAN, delayed : BOOLEAN, begunAt : Nat]

ASSUME NoProbeAssumption == NoProbe \notin Probes

Mark(checks, at) ==
    /\ passing' = IF sealed THEN passing ELSE checks
    /\ provenAt' = IF sealed THEN provenAt ELSE at
    /\ UNCHANGED sealed

\* A probe may write the snapshot when nothing happened since it began.
Undisturbed == lifecycle = "open" /\ probe.revision = revision

Report(checks) ==
    IF ~probe.timedOut /\ Undisturbed
    THEN Mark(checks, probe.begunAt)
    ELSE UNCHANGED snapshot

----------------------------------------------------------------------------
(* Probes.                                                                 *)

\* A probe in flight is shared; otherwise a new one asks for a connection.
ProbeReadiness ==
    probe' = IF lifecycle = "open" /\ probe = NoProbe
             THEN [step |-> "database", revision |-> revision, checks |-> {},
                   timedOut |-> FALSE, delayed |-> db # "up",
                   begunAt |-> errors]
             ELSE probe

\* Mutant: the interval stops probing while the snapshot is ready.
TickUntilReady ==
    /\ timer /\ ~Ready
    /\ lifecycle = "open" /\ probe = NoProbe
    /\ ProbeReadiness
    /\ UNCHANGED <<runtime, snapshot, revision, pool, db, errors>>

\* The interval; an embedding caller may also ask for a probe.
Tick ==
    /\ timer \/ Embedded
    /\ lifecycle = "open"
    /\ probe = NoProbe
    /\ ProbeReadiness
    /\ UNCHANGED <<runtime, snapshot, revision, pool, db, errors>>

\* The work ends: its result is reported in the same turn, and only now may
\* the next probe begin.
SettleProbe(checks) ==
    /\ Report(checks)
    /\ probe' = NoProbe
    /\ UNCHANGED <<runtime, revision, pool, db, errors>>

DatabaseRowRefused ==
    /\ probe # NoProbe /\ probe.step = "database"
    /\ db = "stale"
    /\ SettleProbe({"database"})

\* Mutant: the schema check is not recorded.
DatabaseRowUnrecorded ==
    /\ probe # NoProbe /\ probe.step = "database"
    /\ db \in {"up", "slow"} /\ Undisturbed
    /\ probe' = [probe EXCEPT !.step = "membership", !.checks = {"migrations"}]
    /\ UNCHANGED <<runtime, snapshot, revision, pool, db, errors>>

DatabaseRowCurrent ==
    /\ probe # NoProbe /\ probe.step = "database"
    /\ db \in {"up", "slow"}
    /\ LET checks == {"database", "migrations"} IN
       IF Undisturbed
       THEN /\ probe' = [probe EXCEPT !.step = "membership", !.checks = checks]
            /\ UNCHANGED <<runtime, snapshot, revision, pool, db, errors>>
       ELSE SettleProbe(checks)

MembershipAnswers ==
    /\ probe # NoProbe /\ probe.step = "membership"
    /\ db # "down"
    /\ SettleProbe(probe.checks \cup {"membership"})

\* A connection or query that fails or that the driver's own limits end.
ProbeThrows ==
    /\ probe # NoProbe
    /\ probe.delayed
    /\ SettleProbe(probe.checks)

\* Mutant: a timeout leaves the snapshot as it was.
ProbeTimesOutSilently ==
    /\ probe # NoProbe /\ ~probe.timedOut /\ probe.delayed
    /\ probe' = [probe EXCEPT !.timedOut = TRUE]
    /\ UNCHANGED <<runtime, snapshot, revision, pool, db, errors>>

\* operationTimeoutMs passed: the caller has its answer, the work runs on.
ProbeTimesOut ==
    /\ probe # NoProbe /\ ~probe.timedOut
    /\ probe.delayed
    /\ Report(probe.checks)
    /\ probe' = [probe EXCEPT !.timedOut = TRUE]
    /\ UNCHANGED <<runtime, revision, pool, db, errors>>

\* Mutant: an error does not disown the probe in flight.
PoolErrorUncounted ==
    /\ pool # "ended" /\ errors < MaxPoolErrors
    /\ errors' = errors + 1
    /\ Mark({}, errors')
    /\ UNCHANGED <<runtime, probe, revision, pool, db>>

\* The listener for pool errors stays until the pool has ended.
PoolError ==
    /\ pool # "ended"
    /\ errors < MaxPoolErrors
    /\ errors' = errors + 1
    /\ revision' = revision + 1
    /\ Mark({}, errors')
    /\ UNCHANGED <<runtime, probe, pool, db>>

DatabaseChanges ==
    \E s \in {"up", "slow", "stale", "down"} :
        /\ db' = s
        /\ probe' = IF probe = NoProbe THEN probe
                    ELSE [probe EXCEPT !.delayed = @ \/ s # "up"]
        /\ UNCHANGED <<runtime, snapshot, revision, pool, errors>>

----------------------------------------------------------------------------
(* The listener and the requests behind the gate.                          *)

Listen ==
    /\ lifecycle = "open" /\ http = "idle"
    /\ http' = "binding"
    /\ UNCHANGED <<lifecycle, awaiting, requests, abandoned, timer, gaveUp,
                   snapshot, probe, revision, pool, db, errors>>

\* Mutant: one probe at the start and no interval.
ListeningProbesOnce ==
    /\ http = "binding" /\ http' = "listening"
    /\ ProbeReadiness
    /\ UNCHANGED <<lifecycle, awaiting, requests, abandoned, timer, gaveUp,
                   snapshot, revision, pool, db, errors>>

\* listen() goes on after its await without looking at the lifecycle again.
Listening ==
    /\ http = "binding"
    /\ http' = "listening"
    /\ timer' = TRUE
    /\ ProbeReadiness
    /\ UNCHANGED <<lifecycle, awaiting, requests, abandoned, gaveUp, snapshot,
                   revision, pool, db, errors>>

ListenFails ==
    /\ http = "binding"
    /\ http' = "failed"
    /\ UNCHANGED <<lifecycle, awaiting, requests, abandoned, timer, gaveUp,
                   snapshot, probe, revision, pool, db, errors>>

\* Open connections still bring requests while the server drains.
AdmitRequest(r) ==
    /\ http \in {"listening", "draining"}
    /\ r \notin requests
    /\ Ready
    /\ requests' = requests \cup {r}
    /\ UNCHANGED <<lifecycle, awaiting, http, abandoned, timer, gaveUp,
                   snapshot, probe, revision, pool, db, errors>>

RequestEnds(r) ==
    /\ r \in requests
    /\ requests' = requests \ {r}
    /\ abandoned' = abandoned \ {r}
    /\ UNCHANGED <<lifecycle, awaiting, http, timer, gaveUp, snapshot, probe,
                   revision, pool, db, errors>>

\* The client closes its connection; the handler does not notice and runs on.
ClientLeaves(r) ==
    /\ http \in {"listening", "draining"}
    /\ r \in requests \ abandoned
    /\ abandoned' = abandoned \cup {r}
    /\ UNCHANGED <<lifecycle, awaiting, http, requests, timer, gaveUp, snapshot,
                   probe, revision, pool, db, errors>>

----------------------------------------------------------------------------
(* Shutdown: by a signal, by a failed start, by an embedding caller.       *)

\* Mutant: the interval is not cleared.
CloseKeepsInterval ==
    /\ lifecycle = "open" /\ lifecycle' = "closing"
    /\ Embedded \/ http \in {"listening", "failed"}
    /\ revision' = revision + 1 /\ sealed' = TRUE /\ passing' = {}
    /\ IF http = "listening"
       THEN http' = "draining" /\ awaiting' = "server"
       ELSE awaiting' = "probe" /\ UNCHANGED http
    /\ UNCHANGED <<requests, abandoned, timer, gaveUp, provenAt, probe, pool,
                   db, errors>>

Close ==
    /\ lifecycle = "open"
    /\ Embedded \/ http \in {"listening", "failed"}
    /\ lifecycle' = "closing"
    /\ revision' = revision + 1
    /\ timer' = FALSE
    /\ sealed' = TRUE
    /\ passing' = {}
    /\ IF http = "listening"
       THEN http' = "draining" /\ awaiting' = "server"
       ELSE awaiting' = "probe" /\ UNCHANGED http
    /\ UNCHANGED <<requests, abandoned, gaveUp, provenAt, probe, pool, db,
                   errors>>

\* server.close() waits for connections, not for handlers: a request whose
\* client left does not hold it up.
DrainEnds ==
    /\ awaiting = "server"
    /\ requests = abandoned
    /\ http' = "stopped"
    /\ awaiting' = "probe"
    /\ UNCHANGED <<lifecycle, requests, abandoned, timer, gaveUp, snapshot,
                   probe, revision, pool, db, errors>>

\* Mutant: the drain has no deadline.
DrainUnbounded ==
    /\ awaiting = "server" /\ requests = abandoned
    /\ http' = "forced" /\ awaiting' = "probe"
    /\ UNCHANGED <<lifecycle, requests, abandoned, timer, gaveUp, snapshot,
                   probe, revision, pool, db, errors>>

\* shutdownTimeoutMs passed: connections are cut, their handlers run on.
DrainForced ==
    /\ awaiting = "server"
    /\ http' = "forced"
    /\ awaiting' = "probe"
    /\ UNCHANGED <<lifecycle, requests, abandoned, timer, gaveUp, snapshot,
                   probe, revision, pool, db, errors>>

EndPool ==
    /\ awaiting' = "pool"
    /\ pool' = "ending"
    /\ UNCHANGED <<lifecycle, http, requests, abandoned, timer, snapshot,
                   probe, revision, db, errors>>

\* Mutant: the probe in flight is not waited for.
ProbeForgotten ==
    /\ awaiting = "probe"
    /\ EndPool
    /\ UNCHANGED gaveUp

\* No probe begins once the runtime is closing, so the probe in flight, if
\* any, is the one close() saw.
ProbeDrained ==
    /\ awaiting = "probe"
    /\ probe = NoProbe
    /\ EndPool
    /\ UNCHANGED gaveUp

ProbeDrainTimesOut ==
    /\ awaiting = "probe"
    /\ probe # NoProbe
    /\ EndPool
    /\ gaveUp' = TRUE

Closed ==
    /\ lifecycle' = "closed"
    /\ awaiting' = "none"
    /\ UNCHANGED <<http, requests, abandoned, timer, gaveUp, snapshot, probe,
                   revision, db, errors>>

PoolEnds ==
    /\ awaiting = "pool"
    /\ pool' = "ended"
    /\ Closed

PoolEndTimesOut ==
    /\ awaiting = "pool"
    /\ Closed
    /\ UNCHANGED pool

----------------------------------------------------------------------------
Init ==
    /\ lifecycle = "open" /\ awaiting = "none"
    /\ http = "idle" /\ requests = {} /\ abandoned = {} /\ timer = FALSE
    /\ probe = NoProbe /\ revision = 0
    /\ passing = {} /\ sealed = FALSE
    /\ pool = "open" /\ db \in {"up", "down"}
    /\ gaveUp = FALSE /\ errors = 0 /\ provenAt = 0

ProbeSettles ==
    \/ DatabaseRowRefused
    \/ DatabaseRowCurrent
    \/ MembershipAnswers
    \/ ProbeThrows

Next ==
    \/ Tick \/ ProbeSettles \/ ProbeTimesOut
    \/ PoolError \/ DatabaseChanges
    \/ Listen \/ Listening \/ ListenFails
    \/ \E r \in Requests : AdmitRequest(r) \/ RequestEnds(r) \/ ClientLeaves(r)
    \/ Close \/ DrainEnds \/ DrainForced
    \/ ProbeDrained \/ ProbeDrainTimesOut
    \/ PoolEnds \/ PoolEndTimesOut

\* Only the runtime's own timers and continuations are fair. Neither the
\* database nor a request ever has to answer.
TimerFairness ==
    /\ WF_vars(Tick)
    /\ WF_vars(ProbeTimesOut)
    /\ WF_vars(DrainForced)
    /\ WF_vars(ProbeDrained)
    /\ WF_vars(ProbeDrainTimesOut)
    /\ WF_vars(PoolEndTimesOut)

Spec == Init /\ [][Next]_vars /\ TimerFairness

----------------------------------------------------------------------------
(* Properties.                                                             *)

\* Every variable keeps its shape; the checks of a snapshot and of a probe
\* pass in their order: database, migrations, membership.
TypeOK ==
    /\ lifecycle \in {"open", "closing", "closed"}
    /\ awaiting \in {"none", "server", "probe", "pool"}
    /\ http \in {"idle", "binding", "failed", "listening", "draining",
                 "stopped", "forced"}
    /\ requests \subseteq Requests /\ abandoned \subseteq requests
    /\ timer \in BOOLEAN /\ sealed \in BOOLEAN /\ gaveUp \in BOOLEAN
    /\ probe \in Probes \cup {NoProbe}
    /\ revision \in Nat /\ errors \in Nat /\ provenAt \in Nat
    /\ passing \in Stages
    /\ pool \in {"open", "ending", "ended"}
    /\ db \in {"up", "slow", "stale", "down"}

\* The gate is open only in an open runtime, and only on the word of a probe
\* that began after the last pool error: an answer the database gave before
\* the error does not reopen it (probeReadiness, onPoolError, close).
ReadyIsFresh == Ready => lifecycle = "open" /\ provenAt = errors

\* While a probe that exceeded its time still runs, the gate is shut: neither
\* an older answer nor a second probe holds it open (probeReadiness shares
\* the late probe until its work settles).
OverdueProbeShutsGate == probe # NoProbe /\ probe.timedOut => ~Ready

\* close() ends the pool last. When it does, nobody waits for a request that
\* still runs and no probe runs, save those whose deadline passed. A request
\* whose client left is not waited for: its handler may find the pool ended
\* before any deadline (closeServer waits for connections only).
PoolEndsLast ==
    pool # "open" =>
        /\ http \notin {"listening", "draining"}
        /\ requests \subseteq abandoned \/ http = "forced"
        /\ probe # NoProbe => gaveUp

\* A closed runtime has let go of its interval and its listener: no probe is
\* scheduled and no connection accepted (SECURE_PILOT_RUNTIME.md, "Shutdown").
ClosedReleases == lifecycle = "closed" => ~timer /\ http # "listening"

\* A database that fails for good, or whose schema is not current, shuts the
\* gate for good, even when it never answers the probe in flight.
LossNoticed == <>[](db \in {"down", "stale"}) => <>[]~Ready

\* When the driver ends every probe's work at last and the database is well
\* for good, an open, listening runtime becomes ready and stays so, since the
\* pool errors are finitely many.
Recovers ==
    WF_vars(ProbeSettles)
        => (<>[](db = "up" /\ lifecycle = "open" /\ http = "listening")
            => <>[]Ready)

\* A shutdown ends whatever the requests, the database and the pool do.
CloseCompletes == lifecycle = "closing" ~> lifecycle = "closed"
=============================================================================
