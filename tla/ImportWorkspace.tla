--------------------------- MODULE ImportWorkspace ---------------------------
(***************************************************************************)
(* One browser tab of the import workspace (ImportWorkspace.jsx) against   *)
(* the import service.  The tab uploads a file, shows its preview, lets    *)
(* the operator review a mapping until its data health is clean, and then  *)
(* commits.  Requests and answers may be lost, and a lost POST may still   *)
(* take effect; the operator may reset the tab or reload the page while    *)
(* answers are on their way; another administrator may commit the batch;   *)
(* the raw rows of a batch expire and are cleaned away.                    *)
(*                                                                         *)
(* A request occupies a slot from the click until its answer is dealt      *)
(* with: `sent', then `answered'.  The server's handling of one request is *)
(* atomic here; CsvImports takes the commit apart.  The slot is also the   *)
(* token of createImportOperationGuard.                                    *)
(***************************************************************************)
EXTENDS ImportContracts

CONSTANTS
    Uploads,        \* name -> the file and collection the operator picks
    Edits,          \* collection -> the <<field, column>> edits operators make;
                    \* the field may be "source_id"
    Slots,          \* requests that may be under way at once
    Again,          \* bound: the uploads chosen once a batch was staged
    MaxBatches,     \* bound on the batches staged
    Touched,        \* bound: the batches others commit and time reaches
    MaxKeys,        \* bound on the idempotency keys the tab creates
    MaxVisits       \* bound on the resets of the tab and loads of the page

ASSUME WorkspaceAssumption ==
    /\ Slots \subseteq Nat \ {0}
    /\ MaxBatches \in Nat /\ MaxKeys \in Nat /\ MaxVisits \in Nat

\* Any table of texts can be uploaded, for a collection that can be imported
\* or for the one that cannot; an edit names a column.
ASSUME UploadAssumption ==
    /\ \A u \in DOMAIN Uploads :
        /\ Uploads[u].collection \in DOMAIN Targets \cup {"revenue_actions"}
        /\ Uploads[u].headers \in Seq(DOMAIN Normal)
        /\ Uploads[u].records \in Seq(Seq(DOMAIN Literal))
        /\ Uploads[u].collection \in DOMAIN Edits
    /\ \A c \in DOMAIN Edits : Edits[c] \subseteq STRING \X Nat

\* The selection an analysis answers with: the draft, or the one asked for.
Selected(file, s) ==
    IF file.collection \in DOMAIN Targets
    THEN [columns |-> MapFields(file, s), identity |-> MapSourceIdentity(file, s)]
    ELSE NoSelection

\* The selections operators send: the draft, with some of the edits made.
Selections(file) ==
    LET drafted == Selected(file, NoSelection)
        columns == 0..Len(file.headers)
        edited(f, suggested) == {suggested} \cup
            {column \in columns : <<f, column>> \in Edits[file.collection]}
    IN {NoSelection} \cup
       {s \in [columns : [DOMAIN drafted.columns -> columns], identity : columns] :
            /\ s.columns # <<>>
            /\ \A f \in DOMAIN s.columns : s.columns[f] \in edited(f, drafted.columns[f])
            /\ s.identity \in edited("source_id", drafted.identity)}

\* What the service makes of one of them, and whether the browser can read it.
Answering(file, s, a) ==
    [analysis |-> a, readable |-> IsAnalysis(a, PreviewOf(file)),
     accepted |-> s = NoSelection \/ ValidSelection(file, s),
     outcome |-> IF s.identity = 0 THEN "FAILED" ELSE CommitOutcome(file, s)]
Reviewing(file, s) == Answering(file, s, Analyze(file, s))

\* Both for the uploads.  To choose a function among itself has TLC compute it
\* once.
Table(f) == CHOOSE table \in {f} : table = f
Parsed == Table([u \in DOMAIN Uploads |-> ParseCsvUpload(Uploads[u])])
Reviewed == Table([u \in DOMAIN Uploads |->
    Table([s \in Selections(Parsed[u]) |-> Reviewing(Parsed[u], s)])])

None == 0
Nobody == MaxKeys + 1       \* the key of the other administrator

VARIABLES
    batches,        \* what the server holds, in the order of staging
    slot,           \* the requests under way
    ws,             \* the state of the tab
    keys,           \* idempotency keys created so far
    visits,         \* times the tab was reset or loaded
    doubt           \* batches whose last commit POST from this browser is
                    \* neither answered nor looked up since

vars == <<batches, slot, ws, keys, visits, doubt>>

-----------------------------------------------------------------------------
(***************************************************************************)
(* State                                                                   *)
(***************************************************************************)
File(b) == Parsed[batches[b].upload]
Readable(b) == batches[b].status = "PREVIEWED" /\ ~batches[b].expired

NoCommit == [key |-> None, selection |-> NoSelection]
Staged(u) == [upload |-> u, status |-> "PREVIEWED", commit |-> NoCommit,
              expired |-> FALSE]

NoAnswer == [status |-> "NONE", batch |-> None, reconciled |-> FALSE, cleaned |-> FALSE]
Says(status) == [NoAnswer EXCEPT !.status = status]

NoRequest == [kind |-> "NONE", upload |-> "none", batch |-> None, key |-> None,
              selection |-> NoSelection, state |-> "idle", heard |-> FALSE, answer |-> NoAnswer]
Sent(kind, b) == [NoRequest EXCEPT !.kind = kind, !.batch = b, !.state = "sent", !.heard = TRUE]

NoReview == [batch |-> None, selection |-> NoSelection]
NoAttempt == [batch |-> None, key |-> None, selection |-> NoSelection]

\* A tab that shows the upload form.
Blank == [phase |-> "upload", upload |-> "none", preview |-> None, analysis |-> NoReview,
          selection |-> NoSelection, stale |-> FALSE, confirmed |-> FALSE, key |-> None,
          result |-> None, unknown |-> "none", attempted |-> None, error |-> "none",
          resume |-> "NONE", route |-> None, previewed |-> "none", attempt |-> NoAttempt,
          active |-> None, resuming |-> None]

Init ==
    /\ batches = <<>> /\ keys = 0 /\ visits = 0 /\ doubt = {}
    /\ slot = [s \in Slots |-> NoRequest]
    /\ ws = Blank

Review(b, selection) == Reviewed[batches[b].upload][selection]

Shown == Review(ws.analysis.batch, ws.analysis.selection).analysis

-----------------------------------------------------------------------------
(***************************************************************************)
(* Requests                                                                *)
(***************************************************************************)
Pending == ws.active # None
Free(s) == slot[s].state = "idle"

\* beginOperation: one operation at a time; the messages are cleared.
Begin(s, request, w) ==
    /\ Free(s) /\ ~Pending
    /\ slot' = [slot EXCEPT ![s] = request]
    /\ ws' = [w EXCEPT !.active = s, !.error = "none"]
    /\ UNCHANGED <<batches, keys, visits>>

\* requiresImportPostReconciliation, once the answer is one of those below.
OutcomeUnknown(answer) == answer.status \in {"unknown", "unconfirmed", "unreadable", "gone"}
ErrorOf(answer) ==
    IF answer.status \in {"missing", "denied"} THEN answer.status ELSE "other"

-----------------------------------------------------------------------------
(***************************************************************************)
(* The upload step                                                         *)
(***************************************************************************)
ChooseFile(u) ==
    /\ ws.phase = "upload" /\ ws.resume = "NONE" /\ ~Pending /\ ws.unknown = "none"
    /\ batches # <<>> => u \in Again
    /\ ws' = [ws EXCEPT !.upload = u]
    /\ UNCHANGED <<batches, slot, keys, visits, doubt>>

SubmitPreview(s, u) ==
    /\ u # "none"
    /\ Begin(s, [Sent("PREVIEW", None) EXCEPT !.upload = u], [ws EXCEPT !.previewed = u])
    /\ UNCHANGED doubt

CreatePreview(s) ==
    /\ ws.phase = "upload" /\ ws.resume = "NONE"
    /\ ws.unknown = "none" /\ ws.error # "denied"
    /\ SubmitPreview(s, ws.upload)

\* The saved request, else the file on display.
RetryPreview(s) ==
    /\ ws.phase = "upload" /\ ws.resume = "NONE"
    /\ \/ ws.unknown = "preview" /\ ws.error = "missing"
       \/ ws.unknown = "none" /\ ws.error \notin {"none", "denied"}
    /\ SubmitPreview(s, IF ws.previewed # "none" THEN ws.previewed ELSE ws.upload)

ReconcilePreview(s) ==
    /\ ws.phase = "upload" /\ ws.resume = "NONE"
    /\ ws.unknown = "preview" /\ ws.attempted # None
    /\ Begin(s, Sent("READ_PREVIEW", ws.attempted), ws)
    /\ UNCHANGED doubt

AcceptPreview(w, b) ==
    [w EXCEPT !.preview = b, !.analysis = NoReview, !.selection = NoSelection, !.stale = FALSE,
              !.phase = "preview", !.unknown = "none", !.attempted = None, !.error = "none",
              !.previewed = "none", !.route = b]

PreviewAnswered(w, answer) ==
    IF answer.status = "ok" THEN AcceptPreview(w, answer.batch)
    ELSE IF OutcomeUnknown(answer)
    THEN [w EXCEPT !.unknown = "preview", !.attempted = answer.batch, !.error = "other",
                   !.route = IF answer.batch # None THEN answer.batch ELSE @]
    ELSE [w EXCEPT !.previewed = "none", !.unknown = "none", !.attempted = None,
                   !.error = ErrorOf(answer)]

PreviewReconciled(w, answer) ==
    IF answer.status = "ok" THEN AcceptPreview(w, answer.batch)
    ELSE [w EXCEPT !.error = ErrorOf(answer)]

-----------------------------------------------------------------------------
(***************************************************************************)
(* Review: the mapping and its data health                                 *)
(***************************************************************************)
ReviewMapping(s) ==
    /\ ws.phase = "preview"
    /\ Begin(s, Sent("ANALYSE", ws.preview), ws)
    /\ UNCHANGED doubt

AcceptAnalysis(w, b, selection) ==
    [w EXCEPT !.analysis = [batch |-> b, selection |-> selection],
              !.selection = Selected(File(b), selection), !.stale = FALSE, !.error = "none", !.phase = "mapping"]

AnalysisAnswered(w, request, answer) ==
    IF answer.status = "ok" THEN AcceptAnalysis(w, request.batch, request.selection)
    ELSE [w EXCEPT !.error = ErrorOf(answer)]

\* Mutant: an edit of the mapping leaves the displayed health current.
UpdateSelectionSilently(field, column) ==
    /\ ws.phase = "mapping" /\ ~Pending
    /\ field \in DOMAIN ws.selection.columns
    /\ \A f \in (DOMAIN ws.selection.columns) \ {field} : ws.selection.columns[f] # column \/ column = 0
    /\ ws' = [ws EXCEPT !.selection.columns[field] = column]
    /\ UNCHANGED <<batches, slot, keys, visits, doubt>>

\* A column in use by another field cannot be picked.
UpdateSelection(field, column) ==
    /\ ws.phase = "mapping" /\ ~Pending
    /\ field \in DOMAIN ws.selection.columns
    /\ \A f \in (DOMAIN ws.selection.columns) \ {field} : ws.selection.columns[f] # column \/ column = 0
    /\ ws' = [ws EXCEPT !.selection.columns[field] = column, !.stale = TRUE]
    /\ UNCHANGED <<batches, slot, keys, visits, doubt>>

UpdateSourceIdentity(column) ==
    /\ ws.phase = "mapping" /\ ~Pending /\ ws.selection.columns # <<>>
    /\ ws' = [ws EXCEPT !.selection.identity = column, !.stale = TRUE]
    /\ UNCHANGED <<batches, slot, keys, visits, doubt>>

RecalculateDataHealth(s) ==
    /\ ws.phase = "mapping" /\ ws.selection.identity # 0
    /\ Begin(s, [Sent("ANALYSE", ws.preview) EXCEPT !.selection = ws.selection], ws)
    /\ UNCHANGED doubt

Confirmable(health) ==
    health.total > 0 /\ health.blocking = 0 /\ HasCompleteSourceIdentity(health)

CanContinue ==
    /\ ws.analysis # NoReview /\ ~ws.stale
    /\ Confirmable(Shown.health)
    /\ ws.selection.identity # 0
    /\ \A f \in DOMAIN ws.selection.columns :
        Def(File(ws.preview).collection, f).required => ws.selection.columns[f] # 0

\* The key is created once and kept by a return to the mapping.
ContinueToConfirmation ==
    /\ ws.phase = "mapping" /\ ~Pending /\ CanContinue
    /\ \/ ws.key # None /\ UNCHANGED keys
       \/ ws.key = None /\ keys < MaxKeys /\ keys' = keys + 1
    /\ ws' = [ws EXCEPT !.key = keys', !.confirmed = FALSE, !.phase = "confirm", !.error = "none"]
    /\ UNCHANGED <<batches, slot, visits, doubt>>

-----------------------------------------------------------------------------
(***************************************************************************)
(* Confirmation and commit                                                 *)
(***************************************************************************)
Confirm ==
    /\ ws.phase = "confirm" /\ ~Pending /\ ws.error # "denied"
    /\ ws' = [ws EXCEPT !.confirmed = ~@]
    /\ UNCHANGED <<batches, slot, keys, visits, doubt>>

SubmitCommit(s, attempt) ==
    /\ attempt # NoAttempt
    /\ Begin(s, [Sent("COMMIT", attempt.batch) EXCEPT !.key = attempt.key,
                                                      !.selection = attempt.selection],
             [ws EXCEPT !.attempt = attempt])
    /\ doubt' = doubt \cup {attempt.batch}

CommitReviewed(s) ==
    /\ ws.phase = "confirm" /\ ws.confirmed /\ ws.error # "denied"
    /\ SubmitCommit(s, [batch |-> ws.preview, key |-> ws.key, selection |-> ws.selection])

\* Mutant: the retry is offered as soon as the outcome is unknown.
RetryCommitAtOnce(s) == ws.phase = "unknown-commit" /\ SubmitCommit(s, ws.attempt)

\* Offered once a lookup found nothing.
RetryCommit(s) ==
    /\ ws.phase = "unknown-commit" /\ ws.error = "missing"
    /\ SubmitCommit(s, ws.attempt)

ReconcileCommit(s) ==
    /\ ws.phase = "unknown-commit"
    /\ Begin(s, Sent("READ_COMMIT", ws.attempt.batch), ws)
    /\ UNCHANGED doubt

AcceptResult(w, b) ==
    [w EXCEPT !.result = b, !.unknown = "none", !.error = "none", !.phase = "result",
              !.resume = "COMMITTED", !.attempt = NoAttempt, !.route = b]

\* The committed result the answer describes, as the browser expects it.
ResultOf(answer) == [summary |-> Summarize(File(answer.batch), batches[answer.batch].commit.selection),
                     rows |-> IF answer.cleaned THEN <<>>
                              ELSE CommittedRows(File(answer.batch), batches[answer.batch].commit.selection),
                     reconciled |-> answer.reconciled, cleaned |-> answer.cleaned]
Accepts(answer, expected) == answer.status = "ok" /\ IsCommittedResult(ResultOf(answer), expected)
Expects(w, reconciled) ==
    [total |-> {Len(File(w.preview).rows)}, reconciled |-> {reconciled}]

CommitAnswered(w, answer) ==
    IF Accepts(answer, Expects(w, FALSE)) THEN AcceptResult(w, answer.batch)
    ELSE IF answer.status = "ok" \/ OutcomeUnknown(answer)
    THEN [w EXCEPT !.unknown = "commit", !.error = "other", !.phase = "unknown-commit"]
    ELSE [w EXCEPT !.attempt = NoAttempt, !.unknown = "none", !.error = ErrorOf(answer),
                   !.phase = IF answer.status = "conflict" THEN "conflict" ELSE "confirm"]

CommitReconciled(w, answer) ==
    IF Accepts(answer, Expects(w, TRUE)) THEN AcceptResult(w, answer.batch)
    ELSE [w EXCEPT !.error = ErrorOf(answer)]

ReturnToMapping ==
    /\ ws.phase \in {"confirm", "conflict"} /\ ~Pending
    /\ ws' = [ws EXCEPT !.phase = "mapping", !.error = "none", !.confirmed = FALSE,
                        !.attempt = NoAttempt]
    /\ UNCHANGED <<batches, slot, keys, visits, doubt>>

-----------------------------------------------------------------------------
(***************************************************************************)
(* Reset, reload, and resuming a batch named by the address                *)
(***************************************************************************)
Visit == visits < MaxVisits /\ visits' = visits + 1

\* "Start another import"; answers under way are forgotten, not aborted.
Reset ==
    /\ \/ ws.phase # "upload"
       \/ ws.resume \in {"UNAVAILABLE", "ERROR"}
    /\ Visit /\ ws' = Blank
    /\ UNCHANGED <<batches, slot, keys, doubt>>

\* The browser stops listening; a POST may still reach the server.
Deserted(s) ==
    IF slot[s].state = "sent" /\ slot[s].kind \in {"PREVIEW", "COMMIT"}
    THEN [slot[s] EXCEPT !.heard = FALSE] ELSE NoRequest

Resuming(b, s) == [Blank EXCEPT !.resume = "LOADING", !.route = b, !.resuming = s]

\* The page is loaded or another address is opened: the component is mounted
\* afresh, and a batch in the address is looked up.
Mount(b) ==
    /\ Visit
    /\ \/ /\ b = None
          /\ ws' = Blank /\ slot' = [s \in Slots |-> Deserted(s)]
       \/ /\ b \in DOMAIN batches
          /\ \E s \in Slots :
            /\ Deserted(s) = NoRequest
            /\ ws' = Resuming(b, s)
            /\ slot' = [t \in Slots |-> IF t = s THEN Sent("READ_COMMIT", b) ELSE Deserted(t)]
    /\ UNCHANGED <<batches, keys, doubt>>

RetryResume(s) ==
    /\ ws.phase = "upload" /\ ws.resume = "ERROR" /\ Free(s)
    /\ ws' = [ws EXCEPT !.resume = "LOADING", !.resuming = s]
    /\ slot' = [slot EXCEPT ![s] = Sent("READ_COMMIT", ws.route)]
    /\ UNCHANGED <<batches, keys, visits, doubt>>

FailResume(w, answer) ==
    [w EXCEPT !.resuming = None,
              !.resume = IF answer.status \in {"missing", "gone"} THEN "UNAVAILABLE" ELSE "ERROR"]

\* What each answer of the sequence leads to: committed, staged, analysed.
ResumeNext(request, answer) ==
    IF request.kind = "READ_COMMIT" /\ answer.status = "missing"
    THEN Sent("READ_PREVIEW", request.batch)
    ELSE IF request.kind = "READ_PREVIEW" /\ answer.status = "ok"
    THEN Sent("ANALYSE", request.batch) ELSE NoRequest

ResumeAnswered(w, request, answer) ==
    LET anything == [total |-> {}, reconciled |-> {}] IN
    IF request.kind = "READ_COMMIT" /\ Accepts(answer, anything)
    THEN [AcceptResult(w, request.batch) EXCEPT !.resuming = None]
    ELSE IF request.kind = "ANALYSE" /\ answer.status = "ok"
    THEN [AcceptAnalysis(AcceptPreview(w, request.batch), request.batch, NoSelection)
            EXCEPT !.resume = "PREVIEWED", !.resuming = None]
    ELSE FailResume(w, answer)

-----------------------------------------------------------------------------
(***************************************************************************)
(* Answers                                                                 *)
(***************************************************************************)
\* Mutant: any answer that comes while an operation is under way is taken.
IsCurrentAny(s) == ws.active # None

IsCurrent(s) == ws.active = s

Answered(w, request, answer) ==
    CASE request.kind = "PREVIEW" -> PreviewAnswered(w, answer)
      [] request.kind = "READ_PREVIEW" -> PreviewReconciled(w, answer)
      [] request.kind = "ANALYSE" -> AnalysisAnswered(w, request, answer)
      [] request.kind = "COMMIT" -> CommitAnswered(w, answer)
      [] request.kind = "READ_COMMIT" -> CommitReconciled(w, answer)

\* A POST settled by its answer, or a lookup that found the batch committed
\* or not there, ends the doubt.
Settles(request, answer) ==
    \/ request.kind = "COMMIT" /\ answer.status \in {"ok", "missing", "denied", "failed", "conflict"}
    \/ request.kind = "READ_COMMIT" /\ answer.status \in {"ok", "missing"}

Taken(s, answer) ==
    /\ \/ /\ IsCurrent(s)
          /\ ws' = [Answered(ws, slot[s], answer) EXCEPT !.active = None]
       \/ /\ ws.resuming = s /\ ResumeNext(slot[s], answer) = NoRequest
          /\ ws' = ResumeAnswered(ws, slot[s], answer)
       \/ /\ ~IsCurrent(s)
          /\ ws.resuming = s => ResumeNext(slot[s], answer) # NoRequest
          /\ UNCHANGED ws
    /\ doubt' = IF (IsCurrent(s) \/ ws.resuming = s) /\ Settles(slot[s], answer)
                THEN doubt \ {slot[s].batch} ELSE doubt
    /\ UNCHANGED <<batches, keys, visits>>

Deliver(s) ==
    /\ slot[s].state = "answered"
    /\ Taken(s, slot[s].answer)
    /\ slot' = [slot EXCEPT ![s] =
        IF ws.resuming = s THEN ResumeNext(slot[s], slot[s].answer) ELSE NoRequest]

\* The request or its answer is lost, or a gateway answers in the server's
\* place; the server may still act on the request.
Lose(s) ==
    /\ slot[s].state \in {"sent", "answered"} /\ slot[s].heard
    /\ Taken(s, Says("unknown"))
    /\ slot' = [slot EXCEPT ![s] = Deserted(s)]

-----------------------------------------------------------------------------
(***************************************************************************)
(* The server                                                              *)
(***************************************************************************)
Reply(s, answer) == slot' = [slot EXCEPT ![s] =
    IF slot[s].heard THEN [@ EXCEPT !.state = "answered", !.answer = answer] ELSE NoRequest]

\* The file is refused, or staged; an unconfirmed COMMIT names the batch that
\* may or may not exist.
ServePreview(s) ==
    LET b == Len(batches) + 1
        u == slot[s].upload
    IN
    /\ slot[s].kind = "PREVIEW" /\ slot[s].state = "sent"
    /\ \/ /\ ~Parses(Uploads[u])
          /\ Reply(s, Says("refused")) /\ UNCHANGED batches
       \/ /\ Parses(Uploads[u]) /\ b <= MaxBatches
          /\ \/ /\ batches' = Append(batches, Staged(u))
                /\ \E status \in {"ok", "unconfirmed"} :
                    Reply(s, [Says(status) EXCEPT !.batch = b])
             \/ /\ batches' = Append(batches, [Staged(u) EXCEPT !.status = "NONE"])
                /\ Reply(s, [Says("unconfirmed") EXCEPT !.batch = b])
    /\ UNCHANGED <<ws, keys, visits, doubt>>

\* Expired rows are hidden; a committed batch no longer reads as a preview.
ReadPreview(b) ==
    IF batches[b].status = "NONE" THEN Says("missing")
    ELSE IF batches[b].expired THEN Says("gone")
    ELSE IF batches[b].status = "COMMITTED" THEN Says("unreadable")
    ELSE IF IsPreview(PreviewOf(File(b))) THEN [Says("ok") EXCEPT !.batch = b]
    ELSE Says("unreadable")

AnalyzePreview(b, review) ==
    IF batches[b].status = "NONE" THEN Says("missing")
    ELSE IF batches[b].expired \/ ~review.accepted THEN Says("refused")
    ELSE IF batches[b].status = "PREVIEWED" /\ review.readable THEN [Says("ok") EXCEPT !.batch = b]
    ELSE Says("unreadable")

\* Once expired, the rows of a committed batch may have been cleaned away.
ReadCommit(b, cleaned) ==
    IF batches[b].status # "COMMITTED" THEN Says("missing")
    ELSE [Says("ok") EXCEPT !.batch = b, !.reconciled = TRUE, !.cleaned = cleaned]

ServeRead(s) ==
    LET b == slot[s].batch IN
    /\ slot[s].state = "sent"
    /\ \/ slot[s].kind = "READ_PREVIEW" /\ Reply(s, ReadPreview(b))
       \/ slot[s].kind = "ANALYSE" /\ Reply(s, AnalyzePreview(b, Review(b, slot[s].selection)))
       \/ /\ slot[s].kind = "READ_COMMIT"
          /\ \E cleaned \in {FALSE, batches[b].expired} : Reply(s, ReadCommit(b, cleaned))
    /\ UNCHANGED <<batches, ws, keys, visits, doubt>>

Input(request) == [key |-> request.key, selection |-> request.selection]

\* A batch is committed at most once; the same input again is reconciled.  A
\* plan that is ready may still conflict with what the tenant already has.
ServeCommit(s) ==
    LET b == slot[s].batch
        outcome == Review(b, slot[s].selection).outcome
    IN
    /\ slot[s].kind = "COMMIT" /\ slot[s].state = "sent"
    /\ \/ /\ batches[b].expired \/ batches[b].status = "NONE"
          /\ Reply(s, Says("missing")) /\ UNCHANGED batches
       \/ /\ ~batches[b].expired /\ batches[b].status = "COMMITTED"
          /\ Reply(s, IF batches[b].commit = Input(slot[s])
                      THEN [Says("ok") EXCEPT !.batch = b, !.reconciled = TRUE]
                      ELSE Says("conflict"))
          /\ UNCHANGED batches
       \/ /\ Readable(b) /\ outcome = "READY"
          /\ Reply(s, [Says("ok") EXCEPT !.batch = b])
          /\ batches' = [batches EXCEPT ![b].status = "COMMITTED", ![b].commit = Input(slot[s])]
       \/ /\ Readable(b)
          /\ Reply(s, Says(IF outcome = "FAILED" THEN "failed" ELSE "conflict"))
          /\ UNCHANGED batches
    /\ UNCHANGED <<ws, keys, visits, doubt>>

\* The operator's role was changed meanwhile.
Deny(s) ==
    /\ slot[s].state = "sent" /\ Reply(s, Says("denied"))
    /\ UNCHANGED <<batches, ws, keys, visits, doubt>>

\* A request nobody waits for any more never arrives.
Drop(s) ==
    /\ slot[s].state = "sent" /\ ~slot[s].heard
    /\ slot' = [slot EXCEPT ![s] = NoRequest]
    /\ UNCHANGED <<batches, ws, keys, visits, doubt>>

\* Another administrator commits the batch as it was suggested.
CommitElsewhere(b) ==
    LET suggested == Selected(File(b), NoSelection) IN
    /\ Readable(b) /\ Review(b, suggested).outcome = "READY"
    /\ batches' = [batches EXCEPT ![b].status = "COMMITTED",
                                  ![b].commit = [key |-> Nobody, selection |-> suggested]]
    /\ UNCHANGED <<slot, ws, keys, visits, doubt>>

\* The seven days pass, in the order of staging.
Expire(b) ==
    /\ ~batches[b].expired /\ \A c \in 1..(b - 1) : batches[c].expired
    /\ batches' = [batches EXCEPT ![b].expired = TRUE]
    /\ UNCHANGED <<slot, ws, keys, visits, doubt>>

-----------------------------------------------------------------------------
Operator(s) ==
    \/ CreatePreview(s) \/ RetryPreview(s) \/ ReconcilePreview(s)
    \/ ReviewMapping(s) \/ RecalculateDataHealth(s)
    \/ CommitReviewed(s) \/ RetryCommit(s) \/ ReconcileCommit(s) \/ RetryResume(s)

EditMapping ==
    \E edit \in Edits[File(ws.preview).collection] :
        /\ edit[2] <= Len(File(ws.preview).headers)
        /\ IF edit[1] = "source_id" THEN UpdateSourceIdentity(edit[2])
           ELSE UpdateSelection(edit[1], edit[2])

Next ==
    \/ \E u \in DOMAIN Uploads : ChooseFile(u)
    \/ ws.phase = "mapping" /\ EditMapping
    \/ ContinueToConfirmation \/ Confirm \/ ReturnToMapping \/ Reset
    \/ \E b \in 0..Len(batches) : Mount(b)
    \/ \E s \in Slots : Operator(s) \/ Deliver(s) \/ Lose(s)
    \/ \E s \in Slots : ServePreview(s) \/ ServeRead(s) \/ ServeCommit(s) \/ Deny(s) \/ Drop(s)
    \/ \E b \in Touched \cap DOMAIN batches : CommitElsewhere(b) \/ Expire(b)

Spec == Init /\ [][Next]_vars

-----------------------------------------------------------------------------
(***************************************************************************)
(* Properties                                                              *)
(***************************************************************************)
\* The tab, the requests and the server's batches have their types, and a
\* request is in at most one role for the tab (ImportWorkspace.jsx state).
Statuses == {"NONE", "ok", "missing", "refused", "denied", "failed", "conflict", "gone",
             "unreadable", "unconfirmed", "unknown"}
TypeOK ==
    /\ \A b \in DOMAIN batches :
        batches[b].upload \in DOMAIN Uploads /\ batches[b].status \in {"NONE", "PREVIEWED", "COMMITTED"}
    /\ \A s \in Slots : /\ slot[s].state \in {"idle", "sent", "answered"}
                         /\ slot[s].answer.status \in Statuses
    /\ ws.phase \in {"upload", "preview", "mapping", "confirm", "conflict", "unknown-commit", "result"}
    /\ ws.active \in Slots \cup {None} /\ ws.resuming \in Slots \cup {None}
    /\ keys \in 0..MaxKeys /\ visits \in 0..MaxVisits /\ doubt \subseteq DOMAIN batches

\* Everything the tab shows and would send concerns one import: the address,
\* the analysis, the attempted commit and the result name the batch on
\* display, and that batch holds the file the operator chose, whatever
\* answers of earlier operations are still on their way (operationGuard and
\* resumeRequest in ImportWorkspace.jsx).
OneImportAtATime ==
    /\ ws.preview # None =>
        /\ ws.route = ws.preview
        /\ ws.upload # "none" => batches[ws.preview].upload = ws.upload
    /\ ws.analysis # NoReview => ws.analysis.batch = ws.preview
    /\ ws.attempt # NoAttempt => ws.attempt.batch = ws.preview
    /\ ws.result # None => ws.result = ws.route /\ ws.preview \in {None, ws.result}

NewPost(s) == slot'[s].kind = "COMMIT" /\ slot[s].kind # "COMMIT"

\* A commit that was not acknowledged is looked up, and found missing, before
\* another POST for the batch, even if the page was reloaded in between
\* (BROWSER_IMPORT_WORKFLOW.md; submitCommit, reconcileCommit and
\* resumeFromServer), and the repetition sends what was sent before.
RetryOnlyAfterMissing ==
    [][\A s \in Slots : NewPost(s) =>
        /\ slot'[s].batch \notin doubt
        /\ ws.phase = "unknown-commit" =>
            /\ slot'[s].key = ws.attempt.key /\ slot'[s].selection = ws.attempt.selection]_vars

\* What is committed is what was reviewed: the POST carries the mapping of the
\* analysis on display, whose data health has no blocking row, and the
\* operator confirmed it (canContinue, dataHealthStale, commitReviewed).
ConfirmedIsReviewed ==
    [][\A s \in Slots : NewPost(s) =>
        /\ ws.confirmed /\ ws.analysis.batch = slot'[s].batch
        /\ Confirmable(Shown.health)
        /\ slot'[s].selection = Selected(File(ws.analysis.batch), ws.analysis.selection)]_vars

\* A review the browser lets through is one the server can commit: the plan
\* rebuilt from all rows is ready, unless a source identity is longer than
\* the server takes, which the review does not look at (canContinue against
\* buildCanonicalCommitPlan).
ReviewedIsCommittable ==
    \A s \in Slots : slot[s].kind = "COMMIT" =>
        LET file == File(slot[s].batch)
            identity == slot[s].selection.identity
        IN \/ Review(slot[s].batch, slot[s].selection).outcome = "READY"
           \/ \E r \in DOMAIN file.rows : Is(file.rows[r][identity], "overlong")

\* A committed target id is longer than the browser's row check takes
\* (importContracts.mjs:632); the commit plan bounds only the source
\* identity (importCommit.js:142-145).
TargetTooLong(b) ==
    \E r \in DOMAIN File(b).rows :
        Is(At(File(b).rows[r], batches[b].commit.selection.columns["id"]), "overlong")

\* The browser's own reading of every answer agrees with the server that gave
\* it, with four exceptions.  A preview or an analysis is refused only when
\* the batch was committed meanwhile.  A committed result, of a file with at
\* least one row, is refused exactly when its rows are still listed and a
\* target id is too long for the browser; apart from that, only when a
\* repeated POST finds its own earlier commit
\* (importContracts.mjs against importMapping.js and importRepository.js).
AnswersAreReadable ==
    \A s \in Slots : slot[s].state = "answered" =>
        /\ slot[s].answer.status = "unreadable" => batches[slot[s].batch].status = "COMMITTED"
        /\ /\ slot[s].kind \in {"COMMIT", "READ_COMMIT"} /\ slot[s].answer.status = "ok"
           /\ File(slot[s].batch).rows # <<>>
           => (Accepts(slot[s].answer, [total |-> {Len(File(slot[s].batch).rows)}, reconciled |-> {}])
                 <=> slot[s].answer.cleaned \/ ~TargetTooLong(slot[s].batch))

\* The facts shown with an import that was committed as reviewed are those the
\* server recorded about it (committedFactsFromAnalysis against
\* buildImportPilotEvidenceFacts).
FactsAgree ==
    /\ ws.phase = "result" /\ ws.analysis # NoReview
    /\ batches[ws.result].commit = [key |-> ws.key, selection |-> ws.selection]
    => CommittedFactsFromAnalysis([summary |-> Summarize(File(ws.result), batches[ws.result].commit.selection)],
                                  Shown, File(ws.preview).collection)
       = BuildImportPilotEvidenceFacts(File(ws.result), batches[ws.result].commit.selection)

\* The browser's copies of the server's rules agree with them, before, in and
\* after an answer: what it lets through (but for a source identity too long
\* to commit), what it reads (but for the exceptions of AnswersAreReadable, a
\* target id too long to read among them), and what it shows.
SidesAgree == ReviewedIsCommittable /\ AnswersAreReadable /\ FactsAgree
=============================================================================
