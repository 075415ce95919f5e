----------------------- MODULE ImportWorkspaceProofs -----------------------
(***************************************************************************)
(* What holds of the import workspace for any files, mappings, slots,      *)
(* batches, visits and losses.                                             *)
(*                                                                         *)
(* The first part never looks into files, mappings and reviews: all that   *)
(* matters is that a batch keeps its upload.  IInv relates the phase of    *)
(* the tab to the operation under way (ActiveInv, ResumeInv), to the batch *)
(* on display and the attempted commit (TabInv), to the answers on their   *)
(* way (SlotInv, FreshInv) and to the commits in doubt (DoubtInv).         *)
(*                                                                         *)
(* The second part looks into them.  For any file the parser lets through  *)
(* (IsFile) it shows that the browser reads the preview and the analysis   *)
(* the server makes (PreviewIsReadable, AnalysisIsReadable), lets through  *)
(* no mapping the server would not commit (ConfirmedIsCommittable) and     *)
(* shows the facts the server records (FactsAre).  AgreeInv carries this   *)
(* through the steps: requests ask for selections and answers tell of ones *)
(* the server takes, and the tab holds what it showed.                     *)
(***************************************************************************)
EXTENDS ImportWorkspace, SequenceTheorems, FiniteSetTheorems, TLAPS

-----------------------------------------------------------------------------
(* Shapes                                                                  *)

IsTab(w) == w = [
    phase |-> w.phase, upload |-> w.upload, preview |-> w.preview, analysis |-> w.analysis,
    selection |-> w.selection, stale |-> w.stale, confirmed |-> w.confirmed, key |-> w.key,
    result |-> w.result, unknown |-> w.unknown, attempted |-> w.attempted, error |-> w.error,
    resume |-> w.resume, route |-> w.route, previewed |-> w.previewed, attempt |-> w.attempt,
    active |-> w.active, resuming |-> w.resuming]

IsRequest(q) == q = [
    kind |-> q.kind, upload |-> q.upload, batch |-> q.batch, key |-> q.key,
    selection |-> q.selection, state |-> q.state, heard |-> q.heard, answer |-> q.answer]

IsBatch(b) == b = [upload |-> b.upload, status |-> b.status, commit |-> b.commit,
                   expired |-> b.expired]

Staging(bs) ==
    /\ Len(bs) \in Nat /\ bs = [b \in 1 .. Len(bs) |-> bs[b]]
    /\ \A b \in 1 .. Len(bs) : /\ IsBatch(bs[b]) /\ bs[b].upload \in DOMAIN Uploads
                               /\ bs[b].status \in {"NONE", "PREVIEWED", "COMMITTED"}

Phases == {"upload", "preview", "mapping", "confirm", "conflict", "unknown-commit", "result"}
Reads == {"READ_PREVIEW", "ANALYSE", "READ_COMMIT"}

Shaped ==
    /\ Staging(batches)
    /\ slot = [s \in Slots |-> slot[s]] /\ \A s \in Slots : IsRequest(slot[s])
    /\ IsTab(ws) /\ ws.phase \in Phases
    /\ ws.upload \in DOMAIN Uploads \cup {"none"}
    /\ ws.active \in Slots \cup {None} /\ ws.resuming \in Slots \cup {None}
    /\ keys \in 0 .. MaxKeys /\ visits \in 0 .. MaxVisits

-----------------------------------------------------------------------------
(* Requests                                                                *)

\* What a request is about, and what its answer may say.
Sound(bs, q) ==
    /\ q.state \in {"idle", "sent", "answered"}
    /\ q.state = "idle" => q = NoRequest
    /\ q.state # "idle" => q.kind \in {"PREVIEW", "COMMIT"} \cup Reads
    /\ q.state = "sent" => q.answer = NoAnswer
    /\ q.state = "answered" => q.heard
    /\ q.kind = "PREVIEW" => q.upload \in DOMAIN Uploads
    /\ q.kind \in {"COMMIT"} \cup Reads => q.batch \in DOMAIN bs
    /\ q.answer.status \in Statuses
    /\ q.state = "answered" /\ q.kind = "PREVIEW" =>
         /\ q.answer.status \in {"ok", "unconfirmed", "refused", "denied"}
         /\ IF q.answer.status \in {"ok", "unconfirmed"}
            THEN /\ q.answer.batch \in DOMAIN bs
                 /\ bs[q.answer.batch].upload = q.upload
            ELSE q.answer.batch = None
    /\ q.state = "answered" /\ q.kind \in {"COMMIT"} \cup Reads
         /\ q.answer.status = "ok" => q.answer.batch = q.batch
    /\ q.state = "answered" /\ q.kind = "COMMIT" =>
         q.answer.status \in {"ok", "missing", "denied", "failed", "conflict"}

SlotInv == \A s \in Slots : Sound(batches, slot[s])

\* The batch a preview was answered with is known to nobody else.
Names(q) == q.kind = "PREVIEW" /\ q.state = "answered" /\ q.answer.batch # None

FreshInv == \A s \in Slots : Names(slot[s]) =>
    /\ slot[s].answer.batch \notin doubt \cup {ws.route, ws.attempted}
    /\ \A t \in Slots \ {s} : Names(slot[t]) => slot[t].answer.batch # slot[s].answer.batch

-----------------------------------------------------------------------------
(* The tab                                                                 *)

Chosen(b) == b \in DOMAIN batches /\ (ws.upload # "none" => batches[b].upload = ws.upload)

\* Nothing is staged, as far as the tab knows; the outcome of a preview may be
\* unknown, or a batch be looked up.
UploadInv == ws.phase = "upload" =>
    /\ ws.preview = None /\ ws.analysis = NoReview /\ ws.attempt = NoAttempt /\ ws.result = None
    /\ ws.route \in DOMAIN batches \cup {None}
    /\ ws.previewed # "none" => ws.previewed = ws.upload
    /\ ws.attempted # None => Chosen(ws.attempted) /\ ws.attempted \notin doubt
    /\ ws.previewed # "none" \/ ws.attempted # None => ws.unknown = "preview" \/ ws.active # None
    /\ ws.resume # "NONE" =>
         /\ ws.upload = "none" /\ ws.previewed = "none" /\ ws.attempted = None
         /\ ws.active = None /\ ws.route \in DOMAIN batches

Displays == {"preview", "mapping", "confirm", "conflict", "unknown-commit"}

DisplayInv == ws.phase \in Displays =>
    /\ Chosen(ws.preview) /\ ws.route = ws.preview
    /\ ws.result = None /\ ws.attempted = None
    /\ ws.phase = "preview" => ws.analysis = NoReview
    /\ ws.phase # "preview" =>
         /\ ws.analysis.batch = ws.preview
         /\ ~ws.stale => ws.selection = Selected(File(ws.preview), ws.analysis.selection)
    /\ ws.phase \in {"confirm", "unknown-commit"} => ~ws.stale /\ Confirmable(Shown.health)

ResultInv == ws.phase = "result" =>
    /\ ws.result = ws.route /\ ws.route \in DOMAIN batches /\ ws.attempted = None
    /\ ws.preview # None => ws.preview = ws.route /\ Chosen(ws.preview)
    /\ ws.analysis # NoReview => ws.analysis.batch = ws.preview

\* An attempted commit is the one on display, and was confirmed.
AttemptInv ==
    /\ ws.attempt # NoAttempt =>
         /\ ws.phase \in {"confirm", "unknown-commit"} /\ ws.confirmed
         /\ ws.attempt = [batch |-> ws.preview, key |-> ws.key, selection |-> ws.selection]
         /\ ws.phase = "confirm" => ws.active # None
    /\ ws.phase = "unknown-commit" => ws.attempt # NoAttempt

TabInv == UploadInv /\ DisplayInv /\ ResultInv /\ AttemptInv

\* The operation under way is about what is on display.
ActiveInv == ws.active # None =>
    LET q == slot[ws.active] IN
    /\ ws.resuming = None /\ q.state # "idle" /\ q.heard
    /\ \/ ws.phase = "upload" /\ q.kind = "PREVIEW" /\ q.upload = ws.upload
       \/ ws.phase = "upload" /\ q.kind = "READ_PREVIEW" /\ q.batch = ws.attempted /\ ws.attempted # None
            /\ ws.unknown = "preview"
       \/ ws.phase \in {"preview", "mapping"} /\ q.kind = "ANALYSE" /\ q.batch = ws.preview
       \/ ws.phase \in {"confirm", "unknown-commit"} /\ q.kind = "COMMIT" /\ q.batch = ws.preview
            /\ ws.attempt # NoAttempt
       \/ ws.phase = "unknown-commit" /\ q.kind = "READ_COMMIT" /\ q.batch = ws.preview

\* So is the sequence that resumes a batch.
ResumeInv == ws.resuming # None =>
    LET q == slot[ws.resuming] IN
    /\ ws.phase = "upload" /\ ws.resume = "LOADING"
    /\ q.state # "idle" /\ q.heard /\ q.kind \in Reads /\ q.batch = ws.route
    /\ q.kind # "READ_COMMIT" => q.batch \notin doubt

\* The batch on display is in doubt only while its commit is, and no lookup
\* found it missing.
DoubtInv ==
    /\ doubt \subseteq DOMAIN batches
    /\ \/ ws.phase \in {"preview", "mapping", "conflict"}
       \/ ws.phase = "confirm" /\ ws.active = None
       \/ ws.phase = "unknown-commit" /\ ws.error = "missing"
       => ws.preview \notin doubt

IInv ==
    /\ Shaped /\ SlotInv /\ FreshInv /\ TabInv
    /\ ActiveInv /\ ResumeInv /\ DoubtInv

-----------------------------------------------------------------------------
(* Batches                                                                 *)

LEMMA StagingIsSeq ==
  ASSUME NEW q, Staging(q), NEW S, \A b \in DOMAIN q : q[b] \in S
  PROVE  q \in Seq(S) /\ DOMAIN q = 1 .. Len(q)
<1>1. DOMAIN q = 1 .. Len(q)
  BY DEF Staging
<1>2. q \in [1 .. Len(q) -> S]
  BY <1>1 DEF Staging
<1> QED
  BY <1>1, <1>2 DEF Staging

\* Batches are appended, and keep their upload.
Keeps(bs, cs) ==
    /\ DOMAIN bs \subseteq DOMAIN cs
    /\ \A b \in DOMAIN bs : cs[b].upload = bs[b].upload

Storable(e) == IsBatch(e) /\ e.upload \in DOMAIN Uploads /\ e.status \in {"NONE", "PREVIEWED", "COMMITTED"}

LEMMA AppendStaging ==
  ASSUME NEW q, Staging(q), NEW e, Storable(e)
  PROVE  /\ Staging(Append(q, e)) /\ Keeps(q, Append(q, e))
         /\ DOMAIN q = 1 .. Len(q) /\ DOMAIN Append(q, e) = 1 .. Len(q) + 1
         /\ Append(q, e)[Len(q) + 1] = e /\ \A b \in DOMAIN q : Append(q, e)[b] = q[b]
<1> DEFINE S == {q[b] : b \in DOMAIN q} \cup {e}
           r == Append(q, e)
<1>1. q \in Seq(S) /\ DOMAIN q = 1 .. Len(q)
  BY StagingIsSeq
<1>2. r \in Seq(S) /\ Len(r) = Len(q) + 1 /\ DOMAIN r = 1 .. Len(r)
  <2> HIDE DEF S
  <2>1. e \in S
    BY DEF S
  <2> QED
    BY <1>1, <2>1
<1>3. (\A b \in DOMAIN q : r[b] = q[b]) /\ r[Len(q) + 1] = e
  <2> HIDE DEF S
  <2> QED
    BY <1>1
<1>4. r = [b \in 1 .. Len(r) |-> r[b]]
  <2> HIDE DEF S, r
  <2>1. r \in [1 .. Len(r) -> S]
    BY <1>2, LenProperties
  <2> QED
    BY <2>1
<1>5. ASSUME NEW b \in 1 .. Len(r) PROVE Storable(r[b])
  <2>1. CASE b \in 1 .. Len(q)
    BY <1>1, <1>3, <2>1 DEF Storable, Staging
  <2>2. CASE b = Len(q) + 1
    BY <1>3, <2>2
  <2> QED
    BY <1>2, <2>1, <2>2 DEF Staging
<1> HIDE DEF r, S
<1>6. Staging(r)
  BY <1>2, <1>4, <1>5 DEF Staging, Storable
<1>7. Keeps(q, r)
  BY <1>1, <1>2, <1>3 DEF Keeps, Staging
<1> QED
  BY <1>1, <1>2, <1>3, <1>6, <1>7 DEF r

LEMMA ExceptStaging ==
  ASSUME NEW q, Staging(q), NEW b \in DOMAIN q, NEW e, Storable(e), e.upload = q[b].upload
  PROVE  Staging([q EXCEPT ![b] = e]) /\ Keeps(q, [q EXCEPT ![b] = e])
<1> DEFINE S == {q[d] : d \in DOMAIN q} \cup {e}
           r == [q EXCEPT ![b] = e]
<1>1. q \in Seq(S) /\ DOMAIN q = 1 .. Len(q)
  BY StagingIsSeq
<1>2. r \in Seq(S) /\ Len(r) = Len(q)
  <2> HIDE DEF S
  <2>1. e \in S
    BY DEF S
  <2> QED
    BY <1>1, <2>1, ExceptSeq
<1>3. DOMAIN r = DOMAIN q /\ r[b] = e /\ \A d \in DOMAIN q \ {b} : r[d] = q[d]
  OBVIOUS
<1>4. r = [d \in 1 .. Len(r) |-> r[d]]
  BY <1>1, <1>2
<1>5. ASSUME NEW d \in 1 .. Len(r) PROVE Storable(r[d]) /\ r[d].upload = q[d].upload
  BY <1>1, <1>2, <1>3 DEF Storable, Staging
<1> HIDE DEF r, S
<1>6. Staging(r)
  BY <1>2, <1>4, <1>5 DEF Staging, Storable
<1>7. Keeps(q, r)
  BY <1>1, <1>2, <1>3, <1>5 DEF Keeps
<1> QED
  BY <1>6, <1>7 DEF r

\* What a batch's file and reviews are, stays.
LEMMA ReviewsStay ==
  ASSUME Keeps(batches, batches'), NEW b \in DOMAIN batches
  PROVE  /\ File(b)' = File(b)
         /\ \A selection : Reviewed[batches'[b].upload][selection] = Review(b, selection)
  BY DEF Keeps, File, Review

-----------------------------------------------------------------------------
(* The server                                                              *)

LEMMA TabStays ==
  ASSUME IInv, Keeps(batches, batches'), UNCHANGED <<ws, doubt>>
  PROVE  TabInv' /\ DoubtInv'
<1>1. \A b \in DOMAIN batches : Chosen(b) => Chosen(b)'
  BY DEF Keeps, Chosen
<1>2. \A b \in DOMAIN batches : b \in DOMAIN batches' /\ File(b)' = File(b)
  BY ReviewsStay DEF Keeps
<1>3. ws.phase \in {"confirm", "unknown-commit"} => Shown' = Shown
  <2> SUFFICES ASSUME ws.phase \in {"confirm", "unknown-commit"} PROVE Shown' = Shown
    OBVIOUS
  <2>1. ws.analysis.batch \in DOMAIN batches
    BY DEF IInv, TabInv, DisplayInv, Displays, Chosen
  <2> QED
    BY <2>1 DEF Keeps, Shown, Review
<1>4. UploadInv'
  BY <1>1, <1>2 DEF IInv, TabInv, UploadInv, Chosen, Keeps
<1>5. DisplayInv'
  BY <1>1, <1>2, <1>3 DEF IInv, TabInv, DisplayInv, Displays, Chosen
<1>6. ResultInv'
  BY <1>1, <1>2 DEF IInv, TabInv, ResultInv, Chosen
<1>7. AttemptInv'
  BY DEF IInv, TabInv, AttemptInv
<1>8. DoubtInv'
  BY DEF IInv, DoubtInv, Keeps
<1> QED
  BY <1>4, <1>5, <1>6, <1>7, <1>8 DEF TabInv

LEMMA SoundStays ==
  ASSUME NEW bs, NEW cs, Keeps(bs, cs), NEW q, Sound(bs, q)
  PROVE  Sound(cs, q)
  BY DEF Keeps, Sound

\* What the server does to a request that was sent.
LEMMA ServerMoves ==
  ASSUME IInv, Staging(batches'), Keeps(batches, batches'), UNCHANGED <<ws, keys, visits, doubt>>,
         NEW s \in Slots, slot[s].state = "sent", NEW q, slot' = [slot EXCEPT ![s] = q],
         IF slot[s].heard THEN q = [slot[s] EXCEPT !.state = "answered", !.answer = q.answer]
                          ELSE q = NoRequest,
         Sound(batches', q), Names(q) => q.answer.batch \notin DOMAIN batches
  PROVE  IInv'
<1>1. IsRequest(q)
  <2>1. IsRequest(slot[s])
    BY DEF IInv, Shaped
  <2>2. CASE slot[s].heard
    BY <2>1, <2>2 DEF IsRequest
  <2>3. CASE ~slot[s].heard
    BY <2>3 DEF IsRequest, NoRequest
  <2> QED
    BY <2>2, <2>3
<1>2. DOMAIN slot = Slots
  BY DEF IInv, Shaped
<1>3. slot'[s] = q /\ \A t \in Slots \ {s} : slot'[t] = slot[t]
  BY <1>2
<1>4. slot[s].heard => /\ q.kind = slot[s].kind /\ q.upload = slot[s].upload
                       /\ q.batch = slot[s].batch /\ q.heard /\ q.state = "answered"
  BY DEF IInv, Shaped, IsRequest
<1>5. Shaped'
  <2>1. slot' = [t \in Slots |-> slot'[t]]
    BY DEF IInv, Shaped
  <2> QED
    BY <1>1, <1>3, <2>1 DEF IInv, Shaped
<1>6. SlotInv'
  <2> SUFFICES ASSUME NEW t \in Slots PROVE Sound(batches', slot'[t])
    BY DEF SlotInv
  <2> QED
    BY <1>3, SoundStays DEF IInv, SlotInv
<1>7. FreshInv'
  <2>1. ~Names(slot[s])
    BY DEF Names
  <2>2. ASSUME NEW t \in Slots, Names(slot[t]) PROVE slot[t].answer.batch \in DOMAIN batches
    BY <2>2 DEF IInv, SlotInv, Sound, Names
  <2>3. ws.route \in DOMAIN batches \cup {None} /\ ws.attempted \in DOMAIN batches \cup {None}
           /\ doubt \subseteq DOMAIN batches
    BY DEF IInv, Shaped, Phases, TabInv, UploadInv, DisplayInv, Displays, ResultInv, Chosen, DoubtInv
  <2>4. ASSUME Names(q) PROVE q.answer.batch \notin doubt \cup {ws.route, ws.attempted}
    BY <2>3, <2>4 DEF Names
  <2> QED
    BY <1>3, <2>1, <2>2, <2>4 DEF IInv, FreshInv
<1>8. ActiveInv'
  BY <1>3, <1>4 DEF IInv, ActiveInv, Shaped
<1>9. ResumeInv'
  BY <1>3, <1>4 DEF IInv, ResumeInv, Shaped
<1> QED
  BY <1>5, <1>6, <1>7, <1>8, <1>9, TabStays DEF IInv

\* A batch that others change.
LEMMA BatchChanges ==
  ASSUME IInv, Staging(batches'), Keeps(batches, batches'),
         UNCHANGED <<slot, ws, keys, visits, doubt>>
  PROVE  IInv'
<1>1. Shaped'
  BY DEF IInv, Shaped
<1>2. SlotInv'
  BY SoundStays DEF IInv, SlotInv
<1>3. FreshInv' /\ ActiveInv' /\ ResumeInv'
  BY DEF IInv, FreshInv, ActiveInv, ResumeInv
<1> QED
  BY <1>1, <1>2, <1>3, TabStays DEF IInv

LEMMA CommitElsewhereStep ==
  ASSUME IInv, NEW b \in DOMAIN batches, CommitElsewhere(b)
  PROVE  IInv'
<1>1. PICK selection : batches' = [batches EXCEPT ![b].status = "COMMITTED",
                                   ![b].commit = [key |-> Nobody, selection |-> selection]]
  BY DEF CommitElsewhere
<1>2. Storable(batches[b]) /\ DOMAIN batches = 1 .. Len(batches)
  BY DEF IInv, Shaped, Staging, Storable
<1>3. PICK e : e = [batches[b] EXCEPT !.status = "COMMITTED",
                                      !.commit = [key |-> Nobody, selection |-> selection]]
  OBVIOUS
<1>4. Storable(e) /\ e.upload = batches[b].upload /\ batches' = [batches EXCEPT ![b] = e]
  BY <1>1, <1>2, <1>3 DEF Storable, IsBatch
<1>5. Staging(batches') /\ Keeps(batches, batches')
  BY <1>3, <1>4, ExceptStaging DEF IInv, Shaped
<1> QED
  BY <1>5, BatchChanges DEF CommitElsewhere

LEMMA ExpireStep ==
  ASSUME IInv, NEW b \in DOMAIN batches, Expire(b)
  PROVE  IInv'
<1>2. Storable(batches[b])
  BY DEF IInv, Shaped, Staging, Storable
<1>3. PICK e : e = [batches[b] EXCEPT !.expired = TRUE]
  OBVIOUS
<1>4. Storable(e) /\ e.upload = batches[b].upload /\ batches' = [batches EXCEPT ![b] = e]
  BY <1>2, <1>3 DEF Storable, IsBatch, Expire
<1>5. Staging(batches') /\ Keeps(batches, batches')
  BY <1>3, <1>4, ExceptStaging DEF IInv, Shaped
<1> QED
  BY <1>5, BatchChanges DEF Expire

-----------------------------------------------------------------------------
(* Requests served                                                         *)

\* An answer the service may give to a request.
Fits(bs, q, a) ==
    /\ a.status \in Statuses
    /\ q.kind = "PREVIEW" =>
         /\ a.status \in {"ok", "unconfirmed", "refused", "denied"}
         /\ IF a.status \in {"ok", "unconfirmed"}
            THEN a.batch \in DOMAIN bs /\ bs[a.batch].upload = q.upload
            ELSE a.batch = None
    /\ q.kind \in {"COMMIT"} \cup Reads /\ a.status = "ok" => a.batch = q.batch
    /\ q.kind = "COMMIT" => a.status \in {"ok", "missing", "denied", "failed", "conflict"}

LEMMA RepliesFit ==
  ASSUME IInv, NEW s \in Slots, slot[s].state = "sent", NEW a, Reply(s, a),
         Staging(batches'), Keeps(batches, batches'), Fits(batches', slot[s], a),
         slot[s].kind = "PREVIEW" => a.batch \notin DOMAIN batches,
         UNCHANGED <<ws, keys, visits, doubt>>
  PROVE  IInv'
<1> DEFINE q0 == IF slot[s].heard THEN [slot[s] EXCEPT !.state = "answered", !.answer = a] ELSE NoRequest
<1>1. IsRequest(slot[s]) /\ Sound(batches', slot[s])
  BY SoundStays DEF IInv, Shaped, SlotInv
<1>2. PICK q : q = q0
  OBVIOUS
<1>3. slot' = [slot EXCEPT ![s] = q]
  BY <1>2 DEF Reply
<1>4. Sound(batches', q)
  <2>1. CASE ~slot[s].heard
    BY <1>2, <2>1 DEF Sound, NoRequest, NoAnswer, Statuses, Reads
  <2>2. CASE slot[s].heard
    <3>1. /\ q.kind = slot[s].kind /\ q.upload = slot[s].upload /\ q.batch = slot[s].batch
          /\ q.state = "answered" /\ q.heard /\ q.answer = a
      BY <1>1, <1>2, <2>2 DEF IsRequest
    <3> QED
      BY <1>1, <3>1 DEF Sound, Fits
  <2> QED
    BY <2>1, <2>2
<1>5. IF slot[s].heard THEN q = [slot[s] EXCEPT !.state = "answered", !.answer = q.answer]
                       ELSE q = NoRequest
  BY <1>1, <1>2 DEF IsRequest
<1>6. Names(q) => q.answer.batch \notin DOMAIN batches
  <2>1. CASE ~slot[s].heard
    BY <1>2, <2>1 DEF Names, NoRequest
  <2>2. CASE slot[s].heard
    BY <1>1, <1>2, <2>2 DEF Names, IsRequest
  <2> QED
    BY <2>1, <2>2
<1> HIDE DEF q0
<1> QED
  BY <1>3, <1>4, <1>5, <1>6, ServerMoves

LEMMA ServePreviewStep ==
  ASSUME IInv, NEW s \in Slots, ServePreview(s)
  PROVE  IInv'
<1> DEFINE b == Len(batches) + 1
           u == slot[s].upload
<1>1. Staging(batches) /\ Keeps(batches, batches) /\ b \notin DOMAIN batches /\ b # None /\ None \notin DOMAIN batches
  BY DEF IInv, Shaped, Staging, Keeps, None
<1>2. slot[s].kind = "PREVIEW" /\ slot[s].state = "sent" /\ u \in DOMAIN Uploads
  BY DEF ServePreview, IInv, SlotInv, Sound
<1>3. CASE Reply(s, Says("refused")) /\ UNCHANGED batches
  <2>1. Fits(batches, slot[s], Says("refused")) /\ Says("refused").batch = None
    BY <1>2 DEF Fits, Says, NoAnswer, Statuses, Reads
  <2> QED
    BY <1>1, <1>2, <1>3, <2>1, RepliesFit DEF ServePreview
<1>4. ASSUME NEW status \in {"ok", "unconfirmed"}, NEW new, Storable(new), new.upload = u,
             batches' = Append(batches, new), Reply(s, [Says(status) EXCEPT !.batch = b])
      PROVE  IInv'
  <2>1. /\ Staging(batches') /\ Keeps(batches, batches')
        /\ b \in DOMAIN batches' /\ batches'[b].upload = u
    <3>1. /\ Staging(batches') /\ Keeps(batches, batches')
          /\ DOMAIN batches' = 1 .. Len(batches) + 1 /\ batches'[Len(batches) + 1] = new
      BY <1>1, <1>4, AppendStaging
    <3> QED
      BY <1>1, <1>4, <3>1 DEF Staging
  <2>2. PICK a : a = [Says(status) EXCEPT !.batch = b]
    OBVIOUS
  <2>3. a.status = status /\ a.batch = b
    BY <2>2 DEF Says, NoAnswer
  <2>4. Fits(batches', slot[s], a)
    BY <1>2, <2>1, <2>3 DEF Fits, Statuses, Reads
  <2>5. Reply(s, a)
    BY <1>4, <2>2
  <2> HIDE DEF b, u
  <2> QED
    BY <1>1, <1>2, <2>1, <2>3, <2>4, <2>5, RepliesFit DEF ServePreview
<1>5. PICK staged : staged = Staged(u)
  OBVIOUS
<1>6. Storable(staged) /\ staged.upload = u
  BY <1>2, <1>5 DEF Storable, IsBatch, Staged
<1>7. PICK spoilt : spoilt = [staged EXCEPT !.status = "NONE"]
  OBVIOUS
<1>8. Storable(spoilt) /\ spoilt.upload = u
  BY <1>6, <1>7 DEF Storable, IsBatch
<1> QED
  BY <1>3, <1>4, <1>5, <1>6, <1>7, <1>8 DEF ServePreview

\* Any of these may be the answer to a lookup or an analysis.
Finds(q, a) ==
    \/ a.status \in {"missing", "refused", "gone", "unreadable", "denied"}
    \/ a.status = "ok" /\ a.batch = q.batch

LEMMA FindingFits ==
  ASSUME NEW bs, NEW q, q.kind \in Reads, NEW a, Finds(q, a)
  PROVE  Fits(bs, q, a)
<1>1. a.status \in Statuses
  BY DEF Finds, Statuses
<1>2. q.kind # "PREVIEW" /\ q.kind # "COMMIT"
  BY DEF Reads
<1> QED
  BY <1>1, <1>2 DEF Fits, Finds

LEMMA ServeReadStep ==
  ASSUME IInv, NEW s \in Slots, ServeRead(s)
  PROVE  IInv'
<1> DEFINE b == slot[s].batch
<1>1. Staging(batches) /\ Keeps(batches, batches)
  BY DEF IInv, Shaped, Keeps
<1>2. Staging(batches') /\ Keeps(batches, batches')
  BY <1>1 DEF ServeRead
<1>3. ASSUME slot[s].kind \in Reads, NEW a, Reply(s, a), Finds(slot[s], a) PROVE IInv'
  <2>1. slot[s].kind # "PREVIEW"
    BY <1>3 DEF Reads
  <2>2. Fits(batches', slot[s], a)
    BY <1>3, FindingFits
  <2> QED
    BY <1>2, <1>3, <2>1, <2>2, RepliesFit DEF ServeRead
<1>4. CASE slot[s].kind = "READ_PREVIEW" /\ Reply(s, ReadPreview(b))
  <2>1. PICK a : a = ReadPreview(b)
    OBVIOUS
  <2>2. Finds(slot[s], a)
    BY <2>1 DEF Finds, ReadPreview, Says, NoAnswer
  <2> QED
    BY <1>3, <1>4, <2>1, <2>2 DEF Reads
<1>5. CASE slot[s].kind = "ANALYSE" /\ Reply(s, AnalyzePreview(b, Review(b, slot[s].selection)))
  <2>1. PICK review : review = Review(b, slot[s].selection)
    OBVIOUS
  <2>2. PICK a : a = AnalyzePreview(b, review)
    OBVIOUS
  <2>3. Finds(slot[s], a)
    BY <2>2 DEF Finds, AnalyzePreview, Says, NoAnswer
  <2> QED
    BY <1>3, <1>5, <2>1, <2>2, <2>3 DEF Reads
<1>6. ASSUME slot[s].kind = "READ_COMMIT", NEW cleaned, Reply(s, ReadCommit(b, cleaned)) PROVE IInv'
  <2>1. PICK a : a = ReadCommit(b, cleaned)
    OBVIOUS
  <2>2. Finds(slot[s], a)
    BY <2>1 DEF Finds, ReadCommit, Says, NoAnswer
  <2> QED
    BY <1>3, <1>6, <2>1, <2>2 DEF Reads
<1> QED
  BY <1>4, <1>5, <1>6 DEF ServeRead

LEMMA DenyStep ==
  ASSUME IInv, NEW s \in Slots, Deny(s)
  PROVE  IInv'
<1>1. PICK a : a = Says("denied")
  OBVIOUS
<1>2. a.status = "denied" /\ a.batch = None
  BY <1>1 DEF Says, NoAnswer
<1>3. Fits(batches', slot[s], a)
  BY <1>2 DEF Fits, Statuses
<1>4. None \notin DOMAIN batches
  BY DEF IInv, Shaped, Staging, None
<1>5. Staging(batches') /\ Keeps(batches, batches')
  BY DEF Deny, IInv, Shaped, Keeps
<1> QED
  BY <1>1, <1>2, <1>3, <1>4, <1>5, RepliesFit DEF Deny

LEMMA DropStep ==
  ASSUME IInv, NEW s \in Slots, Drop(s)
  PROVE  IInv'
<1>1. PICK q : q = NoRequest
  OBVIOUS
<1>2. Staging(batches') /\ Keeps(batches, batches')
  BY DEF Drop, IInv, Shaped, Keeps
<1>3. Sound(batches', q) /\ ~Names(q)
  BY <1>1 DEF Sound, Names, NoRequest, NoAnswer, Statuses, Reads
<1> QED
  BY <1>1, <1>2, <1>3, ServerMoves DEF Drop

LEMMA CommitReplyFits ==
  ASSUME IInv, NEW s \in Slots, slot[s].kind = "COMMIT", slot[s].state = "sent",
         NEW a, Reply(s, a), a.status \in {"ok", "missing", "failed", "conflict"},
         a.status = "ok" => a.batch = slot[s].batch,
         Staging(batches'), Keeps(batches, batches'), UNCHANGED <<ws, keys, visits, doubt>>
  PROVE  IInv'
<1>1. Fits(batches', slot[s], a)
  BY DEF Fits, Statuses
<1> QED
  BY <1>1, RepliesFit

LEMMA ServeCommitStep ==
  ASSUME IInv, NEW s \in Slots, ServeCommit(s)
  PROVE  IInv'
<1> DEFINE b == slot[s].batch
<1>1. /\ Staging(batches) /\ Keeps(batches, batches)
      /\ slot[s].kind = "COMMIT" /\ slot[s].state = "sent" /\ b \in DOMAIN batches
  BY DEF ServeCommit, IInv, Shaped, Keeps, SlotInv, Sound
<1>2. PICK outcome : outcome = Review(b, slot[s].selection).outcome
  OBVIOUS
<1>3. ASSUME NEW status \in {"missing", "conflict", "failed"}, Reply(s, Says(status)), UNCHANGED batches
      PROVE  IInv'
  <2>1. PICK a : a = Says(status)
    OBVIOUS
  <2>2. a.status = status
    BY <2>1 DEF Says, NoAnswer
  <2>3. Staging(batches') /\ Keeps(batches, batches')
    BY <1>1, <1>3
  <2> QED
    BY <1>1, <1>3, <2>1, <2>2, <2>3, CommitReplyFits DEF ServeCommit
<1>4. ASSUME Reply(s, [Says("ok") EXCEPT !.batch = b, !.reconciled = TRUE]), UNCHANGED batches
      PROVE  IInv'
  <2>1. PICK a : a = [Says("ok") EXCEPT !.batch = b, !.reconciled = TRUE]
    OBVIOUS
  <2>2. a.status = "ok" /\ a.batch = b
    BY <2>1 DEF Says, NoAnswer
  <2>3. Staging(batches') /\ Keeps(batches, batches')
    BY <1>1, <1>4
  <2> QED
    BY <1>1, <1>4, <2>1, <2>2, <2>3, CommitReplyFits DEF ServeCommit
<1>5. ASSUME Reply(s, [Says("ok") EXCEPT !.batch = b]),
             batches' = [batches EXCEPT ![b].status = "COMMITTED", ![b].commit = Input(slot[s])]
      PROVE  IInv'
  <2>1. PICK a : a = [Says("ok") EXCEPT !.batch = b]
    OBVIOUS
  <2>2. a.status = "ok" /\ a.batch = b
    BY <2>1 DEF Says, NoAnswer
  <2>3. PICK input : input = Input(slot[s])
    OBVIOUS
  <2>4. PICK e : e = [batches[b] EXCEPT !.status = "COMMITTED", !.commit = input]
    OBVIOUS
  <2>5. Storable(batches[b])
    BY <1>1 DEF Staging, Storable
  <2>6. Storable(e) /\ e.upload = batches[b].upload
    BY <2>4, <2>5 DEF Storable, IsBatch
  <2>7. batches' = [batches EXCEPT ![b] = e]
    BY <1>1, <1>5, <2>3, <2>4
  <2>8. Staging(batches') /\ Keeps(batches, batches')
    BY <1>1, <2>6, <2>7, ExceptStaging
  <2> QED
    BY <1>1, <1>5, <2>1, <2>2, <2>8, CommitReplyFits DEF ServeCommit
<1>6. UNCHANGED <<ws, keys, visits, doubt>>
  BY DEF ServeCommit
<1>7. CASE Reply(s, Says("missing")) /\ UNCHANGED batches
  BY <1>3, <1>7
<1>8. CASE /\ Reply(s, IF batches[b].commit = Input(slot[s])
                       THEN [Says("ok") EXCEPT !.batch = b, !.reconciled = TRUE]
                       ELSE Says("conflict"))
           /\ UNCHANGED batches
  <2>1. CASE batches[b].commit = Input(slot[s])
    BY <1>4, <1>8, <2>1
  <2>2. CASE batches[b].commit # Input(slot[s])
    BY <1>3, <1>8, <2>2
  <2> QED
    BY <2>1, <2>2
<1>9. CASE Reply(s, Says(IF outcome = "FAILED" THEN "failed" ELSE "conflict")) /\ UNCHANGED batches
  BY <1>3, <1>9
<1> QED
  BY <1>2, <1>5, <1>7, <1>8, <1>9 DEF ServeCommit

-----------------------------------------------------------------------------
(* Operations                                                              *)

\* No operation begins while a batch is resumed.
LEMMA NotResuming ==
  ASSUME IInv, ws.phase # "upload" \/ ws.resume = "NONE"
  PROVE  ws.resuming = None
  BY DEF IInv, ResumeInv

LEMMA AddressIsKnown ==
  ASSUME IInv
  PROVE  /\ ws.route \in DOMAIN batches \cup {None} /\ ws.attempted \in DOMAIN batches \cup {None}
         /\ None \notin DOMAIN batches
  BY DEF IInv, Shaped, Staging, None, Phases, TabInv, UploadInv, DisplayInv, Displays, ResultInv, Chosen

\* What the start of any operation leaves to be shown of it.
LEMMA BeginKeeps ==
  ASSUME IInv, NEW s \in Slots, NEW q, IsRequest(q), Sound(batches, q), q.state = "sent", q.heard,
         NEW w, IsTab(w), Begin(s, q, w),
         w.phase = ws.phase, w.upload = ws.upload, w.route = ws.route, w.attempted = ws.attempted,
         w.resuming = None, doubt' \subseteq doubt \cup {ws.route},
         TabInv', ActiveInv', DoubtInv'
  PROVE  IInv'
<1>1. DOMAIN slot = Slots /\ slot'[s] = q /\ \A t \in Slots \ {s} : slot'[t] = slot[t]
  BY DEF IInv, Shaped, Begin
<1>2. Shaped'
  <2>1. slot' = [t \in Slots |-> slot'[t]]
    BY DEF IInv, Shaped, Begin
  <2>2. \A t \in Slots : IsRequest(slot'[t])
    BY <1>1 DEF IInv, Shaped
  <2>3. /\ IsTab(ws') /\ ws'.phase = ws.phase /\ ws'.upload = ws.upload /\ ws'.active = s
        /\ ws'.resuming = None
    BY DEF Begin, IsTab
  <2> QED
    BY <2>1, <2>2, <2>3 DEF IInv, Shaped, Begin
<1>3. SlotInv'
  BY <1>1 DEF IInv, SlotInv, Begin
<1>4. FreshInv'
  <2>1. ws'.route = ws.route /\ ws'.attempted = ws.attempted
    BY DEF Begin, IsTab
  <2>2. ~Names(q)
    BY DEF Names
  <2> QED
    BY <1>1, <2>1, <2>2 DEF IInv, FreshInv
<1>5. ResumeInv'
  BY DEF Begin, IsTab, ResumeInv
<1> QED
  BY <1>2, <1>3, <1>4, <1>5 DEF IInv

LEMMA SentIsSound ==
  ASSUME NEW bs, NEW b \in DOMAIN bs, NEW kind \in Reads, NEW q, q = Sent(kind, b)
  PROVE  /\ IsRequest(q) /\ Sound(bs, q) /\ q.state = "sent" /\ q.heard
         /\ q.kind = kind /\ q.batch = b
<1>1. /\ q.state = "sent" /\ q.heard /\ q.kind = kind /\ q.batch = b /\ q.answer = NoAnswer
      /\ IsRequest(q)
  BY DEF Sent, NoRequest, IsRequest
<1>2. q.answer.status \in Statuses
  BY <1>1 DEF NoAnswer, Statuses
<1>3. kind # "PREVIEW" /\ kind # "COMMIT"
  BY DEF Reads
<1> QED
  BY <1>1, <1>2, <1>3 DEF Sound

LEMMA SubmitPreviewStep ==
  ASSUME IInv, NEW s \in Slots, ws.phase = "upload", ws.resume = "NONE",
         NEW u, u = ws.upload, SubmitPreview(s, u)
  PROVE  IInv'
<1>1. PICK q : q = [Sent("PREVIEW", None) EXCEPT !.upload = u]
  OBVIOUS
<1>2. PICK w : w = [ws EXCEPT !.previewed = u]
  OBVIOUS
<1>3. Begin(s, q, w) /\ UNCHANGED doubt /\ u # "none"
  BY <1>1, <1>2 DEF SubmitPreview
<1>4. /\ q.state = "sent" /\ q.heard /\ q.kind = "PREVIEW" /\ q.upload = u /\ q.answer = NoAnswer
      /\ IsRequest(q)
  BY <1>1 DEF Sent, NoRequest, IsRequest
<1>5. Sound(batches, q)
  BY <1>3, <1>4 DEF Sound, NoAnswer, Statuses, Reads, IInv, Shaped
<1>6. IsTab(ws)
  BY DEF IInv, Shaped
<1>7. IsTab(w) /\ w = [ws EXCEPT !.previewed = u]
  BY <1>2, <1>6 DEF IsTab
<1>8. ws' = [ws EXCEPT !.previewed = u, !.active = s, !.error = "none"]
  BY <1>2, <1>3, <1>6 DEF Begin, IsTab
<1>9. ws.resuming = None
  BY NotResuming
<1>10. TabInv'
  <2>1. UploadInv'
    <3>1. s # None
      BY WorkspaceAssumption DEF None
    <3>2. UploadInv /\ UNCHANGED <<batches, doubt>>
      BY <1>3 DEF Begin, IInv, TabInv
    <3> QED
      BY <1>3, <1>6, <1>8, <3>1, <3>2 DEF IsTab, UploadInv, Chosen
  <2>2. DisplayInv' /\ ResultInv' /\ AttemptInv'
    BY <1>6, <1>8 DEF IsTab, DisplayInv, Displays, ResultInv, AttemptInv, IInv, TabInv
  <2> QED
    BY <2>1, <2>2 DEF TabInv
<1>11. ActiveInv'
  <2>1. slot'[s] = q
    BY <1>3 DEF Begin, IInv, Shaped
  <2>2. ws'.active = s /\ ws'.resuming = None /\ ws'.phase = "upload" /\ ws'.upload = u
    BY <1>6, <1>8, <1>9 DEF IsTab
  <2> QED
    BY <1>4, <2>1, <2>2 DEF ActiveInv
<1>12. DoubtInv'
  BY <1>3, <1>6, <1>8 DEF IsTab, Begin, DoubtInv, IInv
<1> QED
  BY <1>3, <1>4, <1>5, <1>6, <1>7, <1>9, <1>10, <1>11, <1>12, BeginKeeps DEF IsTab

LEMMA CreatePreviewStep ==
  ASSUME IInv, NEW s \in Slots, CreatePreview(s)
  PROVE  IInv'
<1>1. PICK u : u = ws.upload
  OBVIOUS
<1> QED
  BY <1>1, SubmitPreviewStep DEF CreatePreview

LEMMA RetryPreviewStep ==
  ASSUME IInv, NEW s \in Slots, RetryPreview(s)
  PROVE  IInv'
<1>1. ws.phase = "upload" /\ ws.resume = "NONE"
  BY DEF RetryPreview
<1>2. ws.previewed # "none" => ws.previewed = ws.upload
  BY <1>1 DEF IInv, TabInv, UploadInv
<1>3. PICK u : u = ws.upload
  OBVIOUS
<1>4. SubmitPreview(s, u)
  BY <1>2, <1>3 DEF RetryPreview
<1> QED
  BY <1>1, <1>3, <1>4, SubmitPreviewStep

\* A lookup or an analysis leaves the tab as it is while it is under way.
LEMMA LookUpStep ==
  ASSUME IInv, NEW s \in Slots, NEW q, Begin(s, q, ws), UNCHANGED doubt,
         IsRequest(q), Sound(batches, q), q.state = "sent", q.heard,
         \/ /\ ws.phase = "upload" /\ ws.resume = "NONE" /\ ws.attempted # None
            /\ q.kind = "READ_PREVIEW" /\ q.batch = ws.attempted /\ ws.unknown = "preview"
         \/ /\ ws.phase \in {"preview", "mapping"}
            /\ q.kind = "ANALYSE" /\ q.batch = ws.preview
         \/ /\ ws.phase = "unknown-commit"
            /\ q.kind = "READ_COMMIT" /\ q.batch = ws.preview
  PROVE  IInv'
<1>1. IsTab(ws) /\ ws' = [ws EXCEPT !.active = s, !.error = "none"] /\ UNCHANGED <<batches, doubt>>
  BY DEF IInv, Shaped, Begin
<1>2. s # None
  BY WorkspaceAssumption DEF None
<1>3. ws.resuming = None
  BY NotResuming
<1>4. PICK w : w = ws
  OBVIOUS
<1>5. TabInv'
  <2>1. UploadInv'
    BY <1>1, <1>2 DEF IsTab, UploadInv, Chosen, IInv, TabInv
  <2>2. DisplayInv'
    BY <1>1 DEF IsTab, DisplayInv, Displays, Chosen, IInv, TabInv, File, Shown, Review
  <2>3. ResultInv' /\ AttemptInv'
    BY <1>1, <1>2 DEF IsTab, ResultInv, AttemptInv, Chosen, IInv, TabInv
  <2> QED
    BY <2>1, <2>2, <2>3 DEF TabInv
<1>6. ActiveInv'
  <2>1. slot'[s] = q
    BY DEF Begin, IInv, Shaped
  <2> QED
    BY <1>1, <1>3, <2>1 DEF IsTab, ActiveInv
<1>7. DoubtInv'
  BY <1>1, <1>2 DEF IsTab, DoubtInv, IInv
<1> QED
  BY <1>1, <1>3, <1>4, <1>5, <1>6, <1>7, BeginKeeps

LEMMA ReconcilePreviewStep ==
  ASSUME IInv, NEW s \in Slots, ReconcilePreview(s)
  PROVE  IInv'
<1>1. PICK q : q = Sent("READ_PREVIEW", ws.attempted)
  OBVIOUS
<1>2. PICK b : b = ws.attempted
  OBVIOUS
<1>3. b \in DOMAIN batches
  BY <1>2 DEF ReconcilePreview, IInv, TabInv, UploadInv, Chosen
<1>4. /\ IsRequest(q) /\ Sound(batches, q) /\ q.state = "sent" /\ q.heard
      /\ q.kind = "READ_PREVIEW" /\ q.batch = b
  BY <1>1, <1>2, <1>3, SentIsSound DEF Reads
<1> QED
  BY <1>1, <1>2, <1>4, LookUpStep DEF ReconcilePreview

LEMMA ReviewMappingStep ==
  ASSUME IInv, NEW s \in Slots, ReviewMapping(s)
  PROVE  IInv'
<1>1. PICK q : q = Sent("ANALYSE", ws.preview)
  OBVIOUS
<1>2. PICK b : b = ws.preview
  OBVIOUS
<1>3. b \in DOMAIN batches
  BY <1>2 DEF ReviewMapping, IInv, TabInv, DisplayInv, Displays, Chosen
<1>4. /\ IsRequest(q) /\ Sound(batches, q) /\ q.state = "sent" /\ q.heard
      /\ q.kind = "ANALYSE" /\ q.batch = b
  BY <1>1, <1>2, <1>3, SentIsSound DEF Reads
<1> QED
  BY <1>1, <1>2, <1>4, LookUpStep DEF ReviewMapping

LEMMA RecalculateDataHealthStep ==
  ASSUME IInv, NEW s \in Slots, RecalculateDataHealth(s)
  PROVE  IInv'
<1>1. PICK q : q = [Sent("ANALYSE", ws.preview) EXCEPT !.selection = ws.selection]
  OBVIOUS
<1>2. ws.preview \in DOMAIN batches
  BY DEF RecalculateDataHealth, IInv, TabInv, DisplayInv, Displays, Chosen
<1>3. /\ IsRequest(q) /\ q.state = "sent" /\ q.heard /\ q.answer = NoAnswer
      /\ q.kind = "ANALYSE" /\ q.batch = ws.preview
  BY <1>1 DEF Sent, NoRequest, IsRequest
<1>4. Sound(batches, q)
  BY <1>2, <1>3 DEF Sound, NoAnswer, Statuses, Reads
<1> QED
  BY <1>1, <1>3, <1>4, LookUpStep DEF RecalculateDataHealth

LEMMA ReconcileCommitStep ==
  ASSUME IInv, NEW s \in Slots, ReconcileCommit(s)
  PROVE  IInv'
<1>1. PICK q : q = Sent("READ_COMMIT", ws.attempt.batch)
  OBVIOUS
<1>2. PICK b : b = ws.preview
  OBVIOUS
<1>3. b \in DOMAIN batches /\ ws.attempt.batch = b
  BY <1>2 DEF ReconcileCommit, IInv, TabInv, DisplayInv, Displays, Chosen, AttemptInv
<1>4. /\ IsRequest(q) /\ Sound(batches, q) /\ q.state = "sent" /\ q.heard
      /\ q.kind = "READ_COMMIT" /\ q.batch = b
  BY <1>1, <1>2, <1>3, SentIsSound DEF Reads
<1> QED
  BY <1>1, <1>2, <1>4, LookUpStep DEF ReconcileCommit

LEMMA SubmitCommitStep ==
  ASSUME IInv, NEW s \in Slots, ws.phase \in {"confirm", "unknown-commit"}, ws.confirmed,
         NEW a, a = [batch |-> ws.preview, key |-> ws.key, selection |-> ws.selection],
         SubmitCommit(s, a)
  PROVE  IInv'
<1>1. PICK q : q = [Sent("COMMIT", a.batch) EXCEPT !.key = a.key, !.selection = a.selection]
  OBVIOUS
<1>2. PICK w : w = [ws EXCEPT !.attempt = a]
  OBVIOUS
<1>3. Begin(s, q, w) /\ a # NoAttempt /\ doubt' = doubt \cup {ws.preview} /\ UNCHANGED batches
  BY <1>1, <1>2 DEF SubmitCommit, Begin
<1>4. /\ ws.preview \in DOMAIN batches /\ ws.route = ws.preview /\ IsTab(ws)
      /\ ws.resuming = None
  BY NotResuming DEF IInv, Shaped, TabInv, DisplayInv, Displays, Chosen
<1>5. /\ IsRequest(q) /\ q.state = "sent" /\ q.heard /\ q.answer = NoAnswer
      /\ q.kind = "COMMIT" /\ q.batch = ws.preview
  BY <1>1 DEF Sent, NoRequest, IsRequest
<1>6. Sound(batches, q)
  BY <1>4, <1>5 DEF Sound, NoAnswer, Statuses, Reads
<1>7. IsTab(w) /\ w.attempt = a
  BY <1>2, <1>4 DEF IsTab
<1>8. ws' = [ws EXCEPT !.attempt = a, !.active = s, !.error = "none"]
  BY <1>2, <1>3, <1>4 DEF Begin, IsTab
<1>9. s # None
  BY WorkspaceAssumption DEF None
<1>10. TabInv'
  <2>1. UploadInv' /\ ResultInv'
    BY <1>4, <1>8 DEF IsTab, UploadInv, ResultInv
  <2>2. DisplayInv'
    BY <1>3, <1>4, <1>8 DEF IsTab, DisplayInv, Displays, Chosen, IInv, TabInv, File, Shown, Review
  <2>3. AttemptInv'
    BY <1>3, <1>4, <1>8, <1>9 DEF IsTab, AttemptInv
  <2> QED
    BY <2>1, <2>2, <2>3 DEF TabInv
<1>11. ActiveInv'
  <2>1. slot'[s] = q
    BY <1>3 DEF Begin, IInv, Shaped
  <2> QED
    BY <1>3, <1>4, <1>5, <1>8, <2>1 DEF IsTab, ActiveInv
<1>12. DoubtInv'
  BY <1>3, <1>4, <1>8, <1>9 DEF IsTab, DoubtInv, IInv
<1>13. /\ w.phase = ws.phase /\ w.upload = ws.upload /\ w.route = ws.route
       /\ w.attempted = ws.attempted /\ w.resuming = None
  BY <1>2, <1>4 DEF IsTab
<1> QED
  BY <1>3, <1>4, <1>5, <1>6, <1>7, <1>10, <1>11, <1>12, <1>13, BeginKeeps

LEMMA CommitReviewedStep ==
  ASSUME IInv, NEW s \in Slots, CommitReviewed(s)
  PROVE  IInv'
<1>1. PICK a : a = [batch |-> ws.preview, key |-> ws.key, selection |-> ws.selection]
  OBVIOUS
<1> QED
  BY <1>1, SubmitCommitStep DEF CommitReviewed

LEMMA RetryCommitStep ==
  ASSUME IInv, NEW s \in Slots, RetryCommit(s)
  PROVE  IInv'
<1>1. ws.confirmed /\ ws.attempt = [batch |-> ws.preview, key |-> ws.key, selection |-> ws.selection]
  BY DEF RetryCommit, IInv, TabInv, AttemptInv
<1>2. PICK a : a = ws.attempt
  OBVIOUS
<1> QED
  BY <1>1, <1>2, SubmitCommitStep DEF RetryCommit

LEMMA RetryResumeStep ==
  ASSUME IInv, NEW s \in Slots, RetryResume(s)
  PROVE  IInv'
<1>1. PICK q : q = Sent("READ_COMMIT", ws.route)
  OBVIOUS
<1>2. PICK b : b = ws.route
  OBVIOUS
<1>3. /\ ws.phase = "upload" /\ ws.resume = "ERROR" /\ IsTab(ws)
      /\ ws' = [ws EXCEPT !.resume = "LOADING", !.resuming = s]
      /\ slot' = [slot EXCEPT ![s] = q] /\ UNCHANGED <<batches, keys, visits, doubt>>
  BY <1>1 DEF RetryResume, IInv, Shaped
<1>4. b \in DOMAIN batches /\ ws.active = None
  BY <1>2, <1>3 DEF IInv, TabInv, UploadInv
<1>5. /\ IsRequest(q) /\ Sound(batches, q) /\ q.state = "sent" /\ q.heard
      /\ q.kind = "READ_COMMIT" /\ q.batch = b
  BY <1>1, <1>2, <1>4, SentIsSound DEF Reads
<1>6. slot'[s] = q /\ \A t \in Slots \ {s} : slot'[t] = slot[t]
  BY <1>3 DEF IInv, Shaped
<1>7. Shaped'
  <2>1. slot' = [t \in Slots |-> slot'[t]]
    BY <1>3 DEF IInv, Shaped
  <2>2. \A t \in Slots : IsRequest(slot'[t])
    BY <1>5, <1>6 DEF IInv, Shaped
  <2>3. IsTab(ws') /\ ws'.phase = ws.phase /\ ws'.upload = ws.upload /\ ws'.active = None /\ ws'.resuming = s
    BY <1>3, <1>4 DEF IsTab
  <2> QED
    BY <1>3, <1>4, <2>1, <2>2, <2>3 DEF IInv, Shaped
<1>8. SlotInv'
  BY <1>3, <1>5, <1>6 DEF IInv, SlotInv
<1>9. FreshInv'
  <2>1. ~Names(q) /\ ws'.route = ws.route /\ ws'.attempted = ws.attempted
    BY <1>3, <1>5 DEF Names, IsTab
  <2> QED
    BY <1>3, <1>6, <2>1 DEF IInv, FreshInv
<1>10. TabInv'
  <2>1. UploadInv'
    BY <1>3 DEF IsTab, UploadInv, Chosen, IInv, TabInv
  <2>2. DisplayInv' /\ ResultInv' /\ AttemptInv'
    BY <1>3 DEF IsTab, DisplayInv, Displays, ResultInv, AttemptInv, IInv, TabInv
  <2> QED
    BY <2>1, <2>2 DEF TabInv
<1>11. ActiveInv'
  BY <1>3, <1>4 DEF IsTab, ActiveInv
<1>12. ResumeInv'
  BY <1>2, <1>3, <1>5, <1>6 DEF IsTab, ResumeInv, Reads
<1>13. DoubtInv'
  BY <1>3 DEF IsTab, DoubtInv, IInv
<1> QED
  BY <1>7, <1>8, <1>9, <1>10, <1>11, <1>12, <1>13 DEF IInv

-----------------------------------------------------------------------------
(* What the operator does without the server                               *)

\* An edit of the tab leaves the requests alone; it may neither move to
\* another batch nor disturb an operation.
LEMMA EditStep ==
  ASSUME IInv, UNCHANGED <<batches, slot, visits, doubt>>, keys' \in 0 .. MaxKeys,
         IsTab(ws'), ws'.phase \in Phases, ws'.upload \in DOMAIN Uploads \cup {"none"},
         ws.active = None, ws'.active = None, ws'.resuming = None,
         ws'.route = ws.route, ws'.attempted = ws.attempted,
         TabInv', DoubtInv'
  PROVE  IInv'
<1>1. Shaped'
  BY DEF IInv, Shaped
<1>2. SlotInv' /\ FreshInv' /\ ActiveInv' /\ ResumeInv'
  BY DEF IInv, SlotInv, FreshInv, ActiveInv, ResumeInv
<1> QED
  BY <1>1, <1>2 DEF IInv

LEMMA ChooseFileStep ==
  ASSUME IInv, NEW u \in DOMAIN Uploads, ChooseFile(u)
  PROVE  IInv'
<1>1. /\ ws' = [ws EXCEPT !.upload = u] /\ IsTab(ws) /\ ws.active = None /\ ws.resuming = None
      /\ ws.phase = "upload" /\ ws.resume = "NONE" /\ ws.unknown = "none"
      /\ UNCHANGED <<batches, slot, keys, visits, doubt>>
  BY NotResuming DEF ChooseFile, Pending, IInv, Shaped
<1>2. ws.previewed = "none" /\ ws.attempted = None
  BY <1>1 DEF IInv, TabInv, UploadInv
<1>3. TabInv'
  <2>1. UploadInv'
    BY <1>1, <1>2 DEF IsTab, UploadInv, IInv, TabInv
  <2>2. DisplayInv' /\ ResultInv' /\ AttemptInv'
    BY <1>1 DEF IsTab, DisplayInv, Displays, ResultInv, AttemptInv, IInv, TabInv
  <2> QED
    BY <2>1, <2>2 DEF TabInv
<1>4. DoubtInv'
  BY <1>1 DEF IsTab, DoubtInv, IInv
<1>5. /\ IsTab(ws') /\ ws'.phase = ws.phase /\ ws'.upload = u /\ ws'.active = None
      /\ ws'.resuming = None /\ ws'.route = ws.route /\ ws'.attempted = ws.attempted
  BY <1>1 DEF IsTab
<1> QED
  BY <1>1, <1>3, <1>4, <1>5, EditStep DEF IInv, Shaped

\* Edits of the mapping make its data health stale.
LEMMA EditMappingStep ==
  ASSUME IInv, EditMapping, ws.phase = "mapping"
  PROVE  IInv'
<1>1. PICK selection :
        /\ ws.active = None /\ ws' = [ws EXCEPT !.selection = selection, !.stale = TRUE]
        /\ UNCHANGED <<batches, slot, keys, visits, doubt>>
  <2>1. PICK edit \in Edits[File(ws.preview).collection] :
          UpdateSourceIdentity(edit[2]) \/ UpdateSelection(edit[1], edit[2])
    BY DEF EditMapping
  <2>2. CASE UpdateSourceIdentity(edit[2])
    <3>1. ws' = [ws EXCEPT !.selection = [ws.selection EXCEPT !.identity = edit[2]], !.stale = TRUE]
      BY <2>2 DEF UpdateSourceIdentity, IInv, Shaped, IsTab
    <3> QED
      BY <2>2, <3>1 DEF UpdateSourceIdentity, Pending
  <2>3. CASE UpdateSelection(edit[1], edit[2])
    <3>1. PICK columns : columns = [ws.selection.columns EXCEPT ![edit[1]] = edit[2]]
      OBVIOUS
    <3>2. ws' = [ws EXCEPT !.selection = [ws.selection EXCEPT !.columns = columns], !.stale = TRUE]
      BY <2>3, <3>1 DEF UpdateSelection, IInv, Shaped, IsTab
    <3> QED
      BY <2>3, <3>2 DEF UpdateSelection, Pending
  <2> QED
    BY <2>1, <2>2, <2>3
<1>2. IsTab(ws) /\ ws.resuming = None
  BY NotResuming DEF IInv, Shaped
<1>3. TabInv'
  <2>1. UploadInv' /\ ResultInv' /\ AttemptInv'
    BY <1>1, <1>2 DEF IsTab, UploadInv, ResultInv, AttemptInv, IInv, TabInv
  <2>2. DisplayInv'
    BY <1>1, <1>2 DEF IsTab, DisplayInv, Displays, Chosen, IInv, TabInv
  <2> QED
    BY <2>1, <2>2 DEF TabInv
<1>4. DoubtInv'
  BY <1>1, <1>2 DEF IsTab, DoubtInv, IInv
<1>5. /\ IsTab(ws') /\ ws'.phase = ws.phase /\ ws'.upload = ws.upload /\ ws'.active = None
      /\ ws'.resuming = None /\ ws'.route = ws.route /\ ws'.attempted = ws.attempted
  BY <1>1, <1>2 DEF IsTab
<1> QED
  BY <1>1, <1>3, <1>4, <1>5, EditStep DEF IInv, Shaped

LEMMA ContinueStep ==
  ASSUME IInv, ContinueToConfirmation
  PROVE  IInv'
<1>1. PICK key : key = keys'
  OBVIOUS
<1>2. /\ ws' = [ws EXCEPT !.key = key, !.confirmed = FALSE, !.phase = "confirm", !.error = "none"]
      /\ IsTab(ws) /\ ws.active = None /\ ws.resuming = None /\ ws.phase = "mapping"
      /\ UNCHANGED <<batches, slot, visits, doubt>>
  BY <1>1, NotResuming DEF ContinueToConfirmation, Pending, IInv, Shaped
<1>3. keys' \in 0 .. MaxKeys
  BY WorkspaceAssumption DEF ContinueToConfirmation, IInv, Shaped
<1>4. TabInv'
  <2>1. ws.attempt = NoAttempt
    BY <1>2 DEF IInv, TabInv, AttemptInv
  <2>2. ~ws.stale /\ Confirmable(Shown.health)
    BY DEF ContinueToConfirmation, CanContinue
  <2>3. UploadInv' /\ ResultInv' /\ AttemptInv'
    BY <1>2, <2>1 DEF IsTab, UploadInv, ResultInv, AttemptInv
  <2>4. Shown' = Shown /\ File(ws.preview)' = File(ws.preview)
    BY <1>2 DEF IsTab, Shown, Review, File
  <2>5. DisplayInv'
    BY <1>2, <2>2, <2>4 DEF IsTab, DisplayInv, Displays, Chosen, IInv, TabInv
  <2> QED
    BY <2>3, <2>5 DEF TabInv
<1>5. DoubtInv'
  BY <1>2 DEF IsTab, DoubtInv, IInv
<1>6. /\ IsTab(ws') /\ ws'.phase = "confirm" /\ ws'.upload = ws.upload /\ ws'.active = None
      /\ ws'.resuming = None /\ ws'.route = ws.route /\ ws'.attempted = ws.attempted
  BY <1>2 DEF IsTab
<1> QED
  BY <1>2, <1>3, <1>4, <1>5, <1>6, EditStep DEF IInv, Shaped, Phases

LEMMA ConfirmStep ==
  ASSUME IInv, Confirm
  PROVE  IInv'
<1>1. PICK confirmed : confirmed = ~ws.confirmed
  OBVIOUS
<1>2. /\ ws' = [ws EXCEPT !.confirmed = confirmed]
      /\ IsTab(ws) /\ ws.active = None /\ ws.resuming = None /\ ws.phase = "confirm"
      /\ UNCHANGED <<batches, slot, keys, visits, doubt>>
  BY <1>1, NotResuming DEF Confirm, Pending, IInv, Shaped, IsTab
<1>3. TabInv'
  <2>1. ws.attempt = NoAttempt
    BY <1>2 DEF IInv, TabInv, AttemptInv
  <2>2. UploadInv' /\ ResultInv' /\ AttemptInv'
    BY <1>2, <2>1 DEF IsTab, UploadInv, ResultInv, AttemptInv
  <2>3. Shown' = Shown /\ File(ws.preview)' = File(ws.preview)
    BY <1>2 DEF IsTab, Shown, Review, File
  <2>4. DisplayInv'
    BY <1>2, <2>3 DEF IsTab, DisplayInv, Displays, Chosen, IInv, TabInv
  <2> QED
    BY <2>2, <2>4 DEF TabInv
<1>4. DoubtInv'
  BY <1>2 DEF IsTab, DoubtInv, IInv
<1>5. /\ IsTab(ws') /\ ws'.phase = ws.phase /\ ws'.upload = ws.upload /\ ws'.active = None
      /\ ws'.resuming = None /\ ws'.route = ws.route /\ ws'.attempted = ws.attempted
  BY <1>2 DEF IsTab
<1> QED
  BY <1>2, <1>3, <1>4, <1>5, EditStep DEF IInv, Shaped

LEMMA ReturnToMappingStep ==
  ASSUME IInv, ReturnToMapping
  PROVE  IInv'
<1>1. /\ ws' = [ws EXCEPT !.phase = "mapping", !.error = "none", !.confirmed = FALSE, !.attempt = NoAttempt]
      /\ IsTab(ws) /\ ws.active = None /\ ws.resuming = None /\ ws.phase \in {"confirm", "conflict"}
      /\ UNCHANGED <<batches, slot, keys, visits, doubt>>
  BY NotResuming DEF ReturnToMapping, Pending, IInv, Shaped
<1>2. TabInv'
  <2>1. UploadInv' /\ ResultInv' /\ AttemptInv'
    BY <1>1 DEF IsTab, UploadInv, ResultInv, AttemptInv
  <2>2. File(ws.preview)' = File(ws.preview)
    BY <1>1 DEF IsTab, File
  <2>3. DisplayInv'
    BY <1>1, <2>2 DEF IsTab, DisplayInv, Displays, Chosen, IInv, TabInv
  <2> QED
    BY <2>1, <2>3 DEF TabInv
<1>3. DoubtInv'
  BY <1>1 DEF IsTab, DoubtInv, IInv
<1>4. /\ IsTab(ws') /\ ws'.phase = "mapping" /\ ws'.upload = ws.upload /\ ws'.active = None
      /\ ws'.resuming = None /\ ws'.route = ws.route /\ ws'.attempted = ws.attempted
  BY <1>1 DEF IsTab
<1> QED
  BY <1>1, <1>2, <1>3, <1>4, EditStep DEF IInv, Shaped, Phases

-----------------------------------------------------------------------------
(* Reset and reload                                                        *)

LEMMA BlankTab ==
  ASSUME NEW w, w = Blank
  PROVE  /\ IsTab(w) /\ w.phase = "upload" /\ w.upload = "none" /\ w.preview = None
         /\ w.analysis = NoReview /\ w.attempt = NoAttempt /\ w.result = None /\ w.route = None
         /\ w.previewed = "none" /\ w.attempted = None /\ w.resume = "NONE"
         /\ w.active = None /\ w.resuming = None
  BY DEF Blank, IsTab

\* A tab that shows the upload form again.
LEMMA FreshTab ==
  ASSUME IInv, UNCHANGED <<batches, doubt>>,
         ws'.phase = "upload", ws'.upload = "none", ws'.preview = None, ws'.analysis = NoReview,
         ws'.attempt = NoAttempt, ws'.result = None, ws'.previewed = "none", ws'.attempted = None,
         ws'.active = None,
         ws'.route \in DOMAIN batches \cup {None}, ws'.resume # "NONE" => ws'.route \in DOMAIN batches
  PROVE  TabInv' /\ DoubtInv'
<1>1. UploadInv'
  BY DEF UploadInv
<1>2. DisplayInv' /\ ResultInv' /\ AttemptInv'
  BY DEF DisplayInv, Displays, ResultInv, AttemptInv
<1>3. DoubtInv'
  BY DEF DoubtInv, IInv
<1> QED
  BY <1>1, <1>2, <1>3 DEF TabInv

LEMMA ResetStep ==
  ASSUME IInv, Reset
  PROVE  IInv'
<1>1. ws' = Blank /\ UNCHANGED <<batches, slot, keys, doubt>> /\ visits' \in 0 .. MaxVisits
  BY WorkspaceAssumption DEF Reset, Visit, IInv, Shaped
<1>2. PICK w : w = Blank
  OBVIOUS
<1>3. TabInv' /\ DoubtInv'
  BY <1>1, <1>2, BlankTab, FreshTab
<1>4. Shaped'
  BY <1>1, <1>2, BlankTab DEF IInv, Shaped, Phases
<1>5. FreshInv'
  BY <1>1, <1>2, BlankTab DEF IInv, FreshInv, Names
<1>6. SlotInv' /\ ActiveInv' /\ ResumeInv'
  BY <1>1, <1>2, BlankTab DEF IInv, SlotInv, ActiveInv, ResumeInv
<1> QED
  BY <1>3, <1>4, <1>5, <1>6 DEF IInv

\* A request nobody listens to any more.
LEMMA DesertedIs ==
  ASSUME IInv, NEW t \in Slots, NEW d, d = Deserted(t)
  PROVE  /\ IsRequest(d) /\ Sound(batches, d) /\ ~Names(d)
         /\ d = NoRequest \/ d.state = "sent"
<1>1. IsRequest(slot[t]) /\ Sound(batches, slot[t])
  BY DEF IInv, Shaped, SlotInv
<1>2. CASE d = NoRequest
  BY <1>2 DEF Sound, Names, NoRequest, NoAnswer, IsRequest, Statuses, Reads
<1>3. CASE /\ slot[t].state = "sent" /\ slot[t].kind \in {"PREVIEW", "COMMIT"}
           /\ d = [slot[t] EXCEPT !.heard = FALSE]
  <2>1. /\ d.kind = slot[t].kind /\ d.upload = slot[t].upload /\ d.batch = slot[t].batch
        /\ d.state = "sent" /\ d.answer = slot[t].answer /\ IsRequest(d)
    BY <1>1, <1>3 DEF IsRequest
  <2> QED
    BY <1>1, <1>3, <2>1 DEF Sound, Names
<1> QED
  BY <1>2, <1>3 DEF Deserted

LEMMA MountStep ==
  ASSUME IInv, NEW b \in 0 .. Len(batches), Mount(b)
  PROVE  IInv'
<1>1. UNCHANGED <<batches, keys, doubt>> /\ visits' \in 0 .. MaxVisits
  BY WorkspaceAssumption DEF Mount, Visit, IInv, Shaped
<1>2. CASE b = None /\ ws' = Blank /\ slot' = [s \in Slots |-> Deserted(s)]
  <2>1. PICK w : w = Blank
    OBVIOUS
  <2>2. TabInv' /\ DoubtInv'
    BY <1>1, <1>2, <2>1, BlankTab, FreshTab
  <2>3. ASSUME NEW t \in Slots PROVE IsRequest(slot'[t]) /\ Sound(batches, slot'[t]) /\ ~Names(slot'[t])
    <3>1. PICK d : d = Deserted(t)
      OBVIOUS
    <3> QED
      BY <1>2, <3>1, DesertedIs
  <2>4. slot' = [s \in Slots |-> slot'[s]]
    BY <1>2
  <2>5. Shaped'
    BY <1>1, <1>2, <2>1, <2>3, <2>4, BlankTab DEF IInv, Shaped, Phases
  <2>6. SlotInv'
    BY <1>1, <2>3 DEF SlotInv
  <2>7. FreshInv' /\ ActiveInv' /\ ResumeInv'
    BY <1>2, <2>1, <2>3, BlankTab DEF FreshInv, ActiveInv, ResumeInv
  <2> QED
    BY <2>2, <2>5, <2>6, <2>7 DEF IInv
<1>3. ASSUME b \in DOMAIN batches, NEW s \in Slots, ws' = Resuming(b, s),
             slot' = [t \in Slots |-> IF t = s THEN Sent("READ_COMMIT", b) ELSE Deserted(t)]
      PROVE  IInv'
  <2>1. PICK w : w = Resuming(b, s)
    OBVIOUS
  <2>2. /\ IsTab(w) /\ w.phase = "upload" /\ w.upload = "none" /\ w.preview = None
        /\ w.analysis = NoReview /\ w.attempt = NoAttempt /\ w.result = None /\ w.route = b
        /\ w.previewed = "none" /\ w.attempted = None /\ w.resume = "LOADING"
        /\ w.active = None /\ w.resuming = s
    BY <2>1 DEF Resuming, Blank, IsTab
  <2>3. TabInv' /\ DoubtInv'
    BY <1>1, <1>3, <2>1, <2>2, FreshTab
  <2>4. PICK q : q = Sent("READ_COMMIT", b)
    OBVIOUS
  <2>5. /\ IsRequest(q) /\ Sound(batches, q) /\ q.state = "sent" /\ q.heard
        /\ q.kind = "READ_COMMIT" /\ q.batch = b
    BY <1>3, <2>4, SentIsSound DEF Reads
  <2>6. ASSUME NEW t \in Slots PROVE IsRequest(slot'[t]) /\ Sound(batches, slot'[t]) /\ ~Names(slot'[t])
    <3>1. PICK d : d = Deserted(t)
      OBVIOUS
    <3>2. CASE t = s
      BY <1>3, <2>4, <2>5, <3>2 DEF Names
    <3>3. CASE t # s
      BY <1>3, <3>1, <3>3, DesertedIs
    <3> QED
      BY <3>2, <3>3
  <2>7. slot' = [t \in Slots |-> slot'[t]] /\ slot'[s] = q
    BY <1>3, <2>4
  <2>8. Shaped'
    BY <1>1, <1>3, <2>1, <2>2, <2>6, <2>7 DEF IInv, Shaped, Phases
  <2>9. SlotInv'
    BY <1>1, <2>6 DEF SlotInv
  <2>10. FreshInv' /\ ActiveInv'
    BY <1>3, <2>1, <2>2, <2>6 DEF FreshInv, ActiveInv
  <2>11. ResumeInv'
    BY <1>3, <2>1, <2>2, <2>5, <2>7 DEF ResumeInv, Reads
  <2> QED
    BY <2>3, <2>8, <2>9, <2>10, <2>11 DEF IInv
<1> QED
  BY <1>2, <1>3 DEF Mount

-----------------------------------------------------------------------------
(* Answers                                                                 *)

\* What the end of any operation leaves to be shown of it.  It may make
\* known the batch b of the answer to a preview, and no other.
LEMMA AnswerKeeps ==
  ASSUME IInv, NEW s \in Slots, NEW d, IsRequest(d), Sound(batches, d), ~Names(d),
         slot' = [slot EXCEPT ![s] = d], UNCHANGED <<batches, keys, visits>>, doubt' \subseteq doubt,
         IsTab(ws'), ws'.phase \in Phases, ws'.upload = ws.upload,
         ws'.active \in {ws.active, None}, ws'.resuming \in {ws.resuming, None},
         NEW b, b # None => Names(slot[s]) /\ slot[s].answer.batch = b,
         {ws'.route, ws'.attempted} \subseteq {ws.route, ws.attempted, None, b},
         TabInv', DoubtInv', ActiveInv', ResumeInv'
  PROVE  IInv'
<1>1. DOMAIN slot = Slots /\ slot'[s] = d /\ \A t \in Slots \ {s} : slot'[t] = slot[t]
  BY DEF IInv, Shaped
<1>2. Shaped'
  <2>1. slot' = [t \in Slots |-> slot'[t]]
    BY DEF IInv, Shaped
  <2>2. \A t \in Slots : IsRequest(slot'[t])
    BY <1>1 DEF IInv, Shaped
  <2> QED
    BY <2>1, <2>2 DEF IInv, Shaped
<1>3. SlotInv'
  BY <1>1 DEF IInv, SlotInv
<1>4. FreshInv'
  <2> SUFFICES ASSUME NEW t \in Slots, Names(slot'[t])
               PROVE  /\ slot'[t].answer.batch \notin doubt' \cup {ws'.route, ws'.attempted}
                      /\ \A r \in Slots \ {t} : Names(slot'[r]) => slot'[r].answer.batch # slot'[t].answer.batch
    BY DEF FreshInv, Names
  <2>1. t # s /\ slot'[t] = slot[t] /\ Names(slot[t])
    BY <1>1
  <2>2. /\ slot[t].answer.batch \notin doubt \cup {ws.route, ws.attempted}
        /\ slot[t].answer.batch # None
        /\ \A r \in Slots \ {t} : Names(slot[r]) => slot[r].answer.batch # slot[t].answer.batch
    BY <2>1 DEF IInv, FreshInv, Names
  <2>3. slot[t].answer.batch # b
    BY <2>1, <2>2
  <2> QED
    BY <1>1, <2>1, <2>2, <2>3
<1> QED
  BY <1>2, <1>3, <1>4 DEF IInv

\* What a tab may be answered: what the service said, or nothing.
Hears(q, a) ==
    \/ q.state = "answered" /\ q.answer = a
    \/ a.status = "unknown" /\ a.batch = None

\* The end of the operation under way.
LEMMA OperationEnds ==
  ASSUME IInv, NEW s \in Slots, ws.active = s,
         NEW d, IsRequest(d), Sound(batches, d), ~Names(d),
         slot' = [slot EXCEPT ![s] = d], UNCHANGED <<batches, keys, visits>>, doubt' \subseteq doubt,
         IsTab(ws'), ws'.phase \in Phases, ws'.upload = ws.upload,
         ws'.active = None, ws'.resuming = ws.resuming,
         NEW b, b # None => Names(slot[s]) /\ slot[s].answer.batch = b,
         {ws'.route, ws'.attempted} \subseteq {ws.route, ws.attempted, None, b},
         TabInv', DoubtInv'
  PROVE  IInv'
<1>1. s # None
  BY WorkspaceAssumption DEF None
<1>2. ws'.resuming = None
  BY <1>1 DEF IInv, ActiveInv
<1>3. ActiveInv' /\ ResumeInv'
  BY <1>2 DEF ActiveInv, ResumeInv
<1> QED
  BY <1>3, AnswerKeeps

\* A batch is shown that was answered to a preview or found for it.
LEMMA PreviewAccepted ==
  ASSUME IInv, ws.phase = "upload", ws.active # None, NEW b \in DOMAIN batches,
         ws.upload # "none" => batches[b].upload = ws.upload, b \notin doubt,
         ws' = [AcceptPreview(ws, b) EXCEPT !.active = None], UNCHANGED <<batches, doubt>>
  PROVE  /\ IsTab(ws') /\ ws'.phase \in Phases /\ ws'.upload = ws.upload
         /\ ws'.active = None /\ ws'.resuming = ws.resuming
         /\ ws'.route = b /\ ws'.attempted = None /\ TabInv' /\ DoubtInv'
<1>1. IsTab(ws)
  BY DEF IInv, Shaped
<1>2. /\ IsTab(ws') /\ ws'.phase = "preview" /\ ws'.upload = ws.upload
      /\ ws'.active = None /\ ws'.resuming = ws.resuming /\ ws'.route = b /\ ws'.attempted = None
      /\ ws'.preview = b /\ ws'.analysis = NoReview /\ ws'.result = ws.result
      /\ ws'.attempt = ws.attempt
  BY <1>1 DEF AcceptPreview, IsTab
<1>3. ws.attempt = NoAttempt /\ ws.result = None
  BY DEF IInv, TabInv, UploadInv
<1>4. TabInv'
  BY <1>2, <1>3 DEF TabInv, UploadInv, DisplayInv, Displays, Chosen, ResultInv, AttemptInv
<1>5. DoubtInv'
  BY <1>2 DEF DoubtInv, IInv
<1> QED
  BY <1>2, <1>4, <1>5 DEF Phases

\* The operation in slot s ends with answer a, and d is left of its request.
Ends(s, a, d) ==
    /\ ws.active = s /\ Hears(slot[s], a)
    /\ IsRequest(d) /\ Sound(batches, d) /\ ~Names(d)
    /\ slot' = [slot EXCEPT ![s] = d] /\ UNCHANGED <<batches, keys, visits>>
    /\ ws' = [Answered(ws, slot[s], a) EXCEPT !.active = None]
    /\ doubt' = IF Settles(slot[s], a) THEN doubt \ {slot[s].batch} ELSE doubt

LEMMA EndKeeps ==
  ASSUME IInv, NEW s \in Slots, NEW a, NEW d, Ends(s, a, d),
         IsTab(ws'), ws'.phase \in Phases, ws'.upload = ws.upload,
         ws'.active = None, ws'.resuming = ws.resuming,
         NEW b, b # None => Names(slot[s]) /\ slot[s].answer.batch = b,
         {ws'.route, ws'.attempted} \subseteq {ws.route, ws.attempted, None, b},
         TabInv', DoubtInv'
  PROVE  IInv'
<1>1. doubt' \subseteq doubt
  BY DEF Ends
<1> QED
  BY <1>1, OperationEnds DEF Ends

LEMMA PreviewAnsweredStep ==
  ASSUME IInv, NEW s \in Slots, NEW a, NEW d, Ends(s, a, d), slot[s].kind = "PREVIEW"
  PROVE  IInv'
<1>1. /\ ws.active # None /\ ws.phase = "upload" /\ slot[s].upload = ws.upload
      /\ ws.resuming = None /\ ws.resume = "NONE" /\ IsTab(ws) /\ slot[s].state # "idle"
  <2>1. s # None
    BY WorkspaceAssumption DEF None
  <2>2. ws.active # None /\ ws.phase = "upload" /\ slot[s].upload = ws.upload /\ ws.resuming = None
           /\ slot[s].state # "idle"
    BY <2>1 DEF Ends, IInv, ActiveInv
  <2> QED
    BY <2>2 DEF IInv, TabInv, UploadInv, Shaped
<1>2. ws' = [PreviewAnswered(ws, a) EXCEPT !.active = None] /\ doubt' = doubt /\ UNCHANGED batches
  BY DEF Ends, Answered, Settles
<1>3. /\ a.status \in {"ok", "unconfirmed", "refused", "denied", "unknown"}
      /\ IF a.status \in {"ok", "unconfirmed"}
         THEN /\ a.batch \in DOMAIN batches /\ batches[a.batch].upload = ws.upload
              /\ slot[s].state = "answered" /\ slot[s].answer = a
         ELSE a.batch = None
  <2>1. Sound(batches, slot[s])
    BY DEF IInv, SlotInv
  <2> QED
    BY <1>1, <2>1 DEF Ends, Hears, Sound
<1>4. PICK b : b = a.batch
  OBVIOUS
<1>5. b # None => Names(slot[s]) /\ slot[s].answer.batch = b /\ b \notin doubt
  BY <1>3, <1>4 DEF Names, IInv, FreshInv
<1>6. None \notin DOMAIN batches
  BY AddressIsKnown
<1>7. CASE a.status = "ok"
  <2>1. ws' = [AcceptPreview(ws, b) EXCEPT !.active = None]
    BY <1>2, <1>4, <1>7 DEF PreviewAnswered
  <2>2. b \in DOMAIN batches /\ batches[b].upload = ws.upload /\ b \notin doubt
    BY <1>3, <1>4, <1>5, <1>6, <1>7
  <2>3. /\ IsTab(ws') /\ ws'.phase \in Phases /\ ws'.upload = ws.upload
        /\ ws'.active = None /\ ws'.resuming = ws.resuming
        /\ ws'.route = b /\ ws'.attempted = None /\ TabInv' /\ DoubtInv'
    BY <1>1, <1>2, <2>1, <2>2, PreviewAccepted
  <2> QED
    BY <1>5, <2>3, EndKeeps
<1>8. CASE a.status \in {"unknown", "unconfirmed"}
  <2>1. PICK route : route = IF b # None THEN b ELSE ws.route
    OBVIOUS
  <2>2. ws' = [ws EXCEPT !.unknown = "preview", !.attempted = b, !.error = "other",
                         !.route = route, !.active = None]
    BY <1>1, <1>2, <1>4, <1>8, <2>1 DEF PreviewAnswered, OutcomeUnknown, IsTab
  <2>3. /\ IsTab(ws') /\ ws'.phase = "upload" /\ ws'.upload = ws.upload /\ ws'.active = None
        /\ ws'.resuming = ws.resuming /\ ws'.route = route /\ ws'.attempted = b
        /\ ws'.unknown = "preview" /\ ws'.resume = "NONE" /\ ws'.previewed = ws.previewed
        /\ ws'.preview = ws.preview /\ ws'.analysis = ws.analysis /\ ws'.result = ws.result
        /\ ws'.attempt = ws.attempt
    BY <1>1, <2>2 DEF IsTab
  <2>4. b # None => b \in DOMAIN batches /\ batches[b].upload = ws.upload
    BY <1>3, <1>4
  <2>5. UploadInv'
    BY <1>1, <1>2, <1>5, <2>1, <2>3, <2>4 DEF UploadInv, Chosen, IInv, TabInv
  <2>6. TabInv'
    BY <1>1, <2>3, <2>5 DEF TabInv, DisplayInv, Displays, ResultInv, AttemptInv, UploadInv, IInv
  <2>7. DoubtInv'
    BY <1>2, <2>3 DEF DoubtInv, IInv
  <2>8. ws'.phase \in Phases /\ {ws'.route, ws'.attempted} \subseteq {ws.route, ws.attempted, None, b}
    BY <2>1, <2>3 DEF Phases
  <2> QED
    BY <1>5, <2>3, <2>6, <2>7, <2>8, EndKeeps
<1>9. CASE a.status \in {"refused", "denied"}
  <2>1. PICK error : error = ErrorOf(a)
    OBVIOUS
  <2>2. ws' = [ws EXCEPT !.previewed = "none", !.unknown = "none", !.attempted = None,
                         !.error = error, !.active = None]
    BY <1>1, <1>2, <1>9, <2>1 DEF PreviewAnswered, OutcomeUnknown, IsTab
  <2>3. /\ IsTab(ws') /\ ws'.phase = "upload" /\ ws'.upload = ws.upload /\ ws'.active = None
        /\ ws'.resuming = ws.resuming /\ ws'.route = ws.route /\ ws'.attempted = None
        /\ ws'.resume = "NONE" /\ ws'.previewed = "none"
        /\ ws'.preview = ws.preview /\ ws'.analysis = ws.analysis /\ ws'.result = ws.result
        /\ ws'.attempt = ws.attempt
    BY <1>1, <2>2 DEF IsTab
  <2>4. UploadInv'
    BY <1>1, <1>2, <2>3 DEF UploadInv, IInv, TabInv
  <2>5. TabInv'
    BY <1>1, <2>3, <2>4 DEF TabInv, DisplayInv, Displays, ResultInv, AttemptInv, UploadInv, IInv
  <2>6. DoubtInv'
    BY <1>2, <2>3 DEF DoubtInv, IInv
  <2>7. ws'.phase \in Phases
    BY <2>3 DEF Phases
  <2> QED
    BY <1>5, <2>3, <2>5, <2>6, <2>7, EndKeeps
<1> QED
  BY <1>3, <1>7, <1>8, <1>9

\* An answer that only shows a message.
LEMMA MessageShown ==
  ASSUME IInv, NEW s \in Slots, NEW a, NEW d, Ends(s, a, d), NEW error,
         ws' = [ws EXCEPT !.error = error, !.active = None],
         \/ ws.phase = "upload" /\ ws.unknown = "preview"
         \/ ws.phase \in {"preview", "mapping"}
         \/ ws.phase = "unknown-commit" /\ (error = "missing" => ws.preview \notin doubt')
  PROVE  IInv'
<1>1. IsTab(ws) /\ UNCHANGED batches /\ doubt' \subseteq doubt
  BY DEF IInv, Shaped, Ends
<1>2. ws.active # None
  BY WorkspaceAssumption DEF Ends, None
<1>3. TabInv'
  <2>1. UploadInv'
    BY <1>1, <1>2 DEF IsTab, UploadInv, Chosen, IInv, TabInv
  <2>2. DisplayInv'
    BY <1>1 DEF IsTab, DisplayInv, Displays, Chosen, IInv, TabInv, File, Shown, Review
  <2>3. ResultInv' /\ AttemptInv'
    BY <1>1 DEF IsTab, ResultInv, AttemptInv, Chosen, IInv, TabInv
  <2> QED
    BY <2>1, <2>2, <2>3 DEF TabInv
<1>4. DoubtInv'
  BY <1>1 DEF IsTab, DoubtInv, IInv
<1>5. /\ IsTab(ws') /\ ws'.phase \in Phases /\ ws'.upload = ws.upload
      /\ ws'.active = None /\ ws'.resuming = ws.resuming
      /\ {ws'.route, ws'.attempted} \subseteq {ws.route, ws.attempted, None, None}
  BY <1>1 DEF IsTab, Phases
<1> QED
  BY <1>3, <1>4, <1>5, EndKeeps

LEMMA ActiveIs ==
  ASSUME IInv, NEW s \in Slots, ws.active = s
  PROVE  /\ ws.active # None /\ ws.resuming = None /\ IsTab(ws)
         /\ slot[s].state # "idle" /\ slot[s].heard /\ Sound(batches, slot[s])
         /\ \/ ws.phase = "upload" /\ slot[s].kind = "PREVIEW" /\ slot[s].upload = ws.upload
            \/ /\ ws.phase = "upload" /\ slot[s].kind = "READ_PREVIEW"
               /\ slot[s].batch = ws.attempted /\ ws.attempted # None /\ ws.unknown = "preview"
            \/ ws.phase \in {"preview", "mapping"} /\ slot[s].kind = "ANALYSE" /\ slot[s].batch = ws.preview
            \/ /\ ws.phase \in {"confirm", "unknown-commit"} /\ slot[s].kind = "COMMIT"
               /\ slot[s].batch = ws.preview /\ ws.attempt # NoAttempt
            \/ ws.phase = "unknown-commit" /\ slot[s].kind = "READ_COMMIT" /\ slot[s].batch = ws.preview
<1>1. s # None
  BY WorkspaceAssumption DEF None
<1>2. IsTab(ws) /\ Sound(batches, slot[s])
  BY DEF IInv, Shaped, SlotInv
<1> QED
  BY <1>1, <1>2 DEF IInv, ActiveInv

LEMMA PreviewReconciledStep ==
  ASSUME IInv, NEW s \in Slots, NEW a, NEW d, Ends(s, a, d), slot[s].kind = "READ_PREVIEW"
  PROVE  IInv'
<1>1. /\ ws.active # None /\ ws.phase = "upload" /\ slot[s].batch = ws.attempted
      /\ ws.attempted # None /\ ws.unknown = "preview" /\ IsTab(ws) /\ Sound(batches, slot[s])
  BY ActiveIs DEF Ends
<1>2. ws' = [PreviewReconciled(ws, a) EXCEPT !.active = None] /\ doubt' = doubt /\ UNCHANGED batches
  BY <1>1 DEF Ends, Answered, Settles
<1>3. CASE a.status = "ok"
  <2>1. PICK b : b = ws.attempted
    OBVIOUS
  <2>2. a.batch = b
    BY <1>1, <1>3, <2>1 DEF Ends, Hears, Sound, Reads
  <2>3. ws' = [AcceptPreview(ws, b) EXCEPT !.active = None]
    BY <1>2, <1>3, <2>2 DEF PreviewReconciled
  <2>4. b \in DOMAIN batches /\ (ws.upload # "none" => batches[b].upload = ws.upload) /\ b \notin doubt
    BY <1>1, <2>1 DEF IInv, TabInv, UploadInv, Chosen
  <2>5. /\ IsTab(ws') /\ ws'.phase \in Phases /\ ws'.upload = ws.upload
        /\ ws'.active = None /\ ws'.resuming = ws.resuming
        /\ ws'.route = b /\ ws'.attempted = None /\ TabInv' /\ DoubtInv'
    BY <1>1, <1>2, <2>3, <2>4, PreviewAccepted
  <2>6. {ws'.route, ws'.attempted} \subseteq {ws.route, ws.attempted, None, None}
    BY <2>1, <2>5
  <2> QED
    BY <2>5, <2>6, EndKeeps
<1>4. CASE a.status # "ok"
  <2>1. PICK error : error = ErrorOf(a)
    OBVIOUS
  <2>2. ws' = [ws EXCEPT !.error = error, !.active = None]
    BY <1>1, <1>2, <1>4, <2>1 DEF PreviewReconciled, IsTab
  <2> QED
    BY <1>1, <2>2, MessageShown
<1> QED
  BY <1>3, <1>4

LEMMA AnalysisAnsweredStep ==
  ASSUME IInv, NEW s \in Slots, NEW a, NEW d, Ends(s, a, d), slot[s].kind = "ANALYSE"
  PROVE  IInv'
<1>1. /\ ws.active # None /\ ws.phase \in {"preview", "mapping"} /\ slot[s].batch = ws.preview
      /\ IsTab(ws) /\ Sound(batches, slot[s])
  BY ActiveIs DEF Ends
<1>2. ws' = [AnalysisAnswered(ws, slot[s], a) EXCEPT !.active = None] /\ doubt' = doubt /\ UNCHANGED batches
  BY <1>1 DEF Ends, Answered, Settles
<1>3. CASE a.status = "ok"
  <2>1. PICK b, asked : b = ws.preview /\ asked = slot[s].selection
    OBVIOUS
  <2>2. PICK selection : selection = Selected(File(b), asked)
    OBVIOUS
  <2>3. ws' = [ws EXCEPT !.analysis = [batch |-> b, selection |-> asked], !.selection = selection,
                         !.stale = FALSE, !.error = "none", !.phase = "mapping", !.active = None]
    BY <1>1, <1>2, <1>3, <2>1, <2>2 DEF AnalysisAnswered, AcceptAnalysis, IsTab
  <2>4. /\ IsTab(ws') /\ ws'.phase = "mapping" /\ ws'.upload = ws.upload /\ ws'.active = None
        /\ ws'.resuming = ws.resuming /\ ws'.route = ws.route /\ ws'.attempted = ws.attempted
        /\ ws'.preview = b /\ ws'.result = ws.result /\ ws'.attempt = ws.attempt
        /\ ws'.analysis.batch = b /\ ws'.analysis.selection = asked /\ ws'.selection = selection
    BY <1>1, <2>1, <2>3 DEF IsTab
  <2>5. TabInv'
    <3>1. UploadInv' /\ ResultInv'
      BY <2>4 DEF UploadInv, ResultInv
    <3>2. DisplayInv'
      BY <1>1, <1>2, <2>1, <2>2, <2>4 DEF DisplayInv, Displays, Chosen, IInv, TabInv, File
    <3>3. AttemptInv'
      BY <1>1, <2>4 DEF AttemptInv, IInv, TabInv
    <3> QED
      BY <3>1, <3>2, <3>3 DEF TabInv
  <2>6. DoubtInv'
    BY <1>1, <1>2, <2>1, <2>4 DEF DoubtInv, IInv
  <2>7. ws'.phase \in Phases /\ {ws'.route, ws'.attempted} \subseteq {ws.route, ws.attempted, None, None}
    BY <2>4 DEF Phases
  <2> QED
    BY <2>4, <2>5, <2>6, <2>7, EndKeeps
<1>4. CASE a.status # "ok"
  <2>1. PICK error : error = ErrorOf(a)
    OBVIOUS
  <2>2. ws' = [ws EXCEPT !.error = error, !.active = None]
    BY <1>1, <1>2, <1>4, <2>1 DEF AnalysisAnswered, IsTab
  <2> QED
    BY <1>1, <2>2, MessageShown
<1> QED
  BY <1>3, <1>4

\* A commit is shown that was answered or found for the batch on display.
LEMMA ResultShown ==
  ASSUME IInv, NEW s \in Slots, NEW a, NEW d, Ends(s, a, d),
         ws.phase \in {"confirm", "unknown-commit"}, NEW b, b = ws.preview,
         ws' = [AcceptResult(ws, b) EXCEPT !.active = None]
  PROVE  IInv'
<1>1. IsTab(ws) /\ UNCHANGED batches /\ doubt' \subseteq doubt
  BY DEF IInv, Shaped, Ends
<1>2. /\ b \in DOMAIN batches /\ ws.route = b /\ Chosen(b) /\ ws.attempted = None
      /\ ws.analysis.batch = b
  BY DEF IInv, TabInv, DisplayInv, Displays, Chosen
<1>3. ws' = [ws EXCEPT !.result = b, !.unknown = "none", !.error = "none", !.phase = "result",
                       !.resume = "COMMITTED", !.attempt = NoAttempt, !.route = b, !.active = None]
  BY <1>1 DEF AcceptResult, IsTab
<1>4. /\ IsTab(ws') /\ ws'.phase = "result" /\ ws'.upload = ws.upload /\ ws'.active = None
      /\ ws'.resuming = ws.resuming /\ ws'.route = b /\ ws'.attempted = None
      /\ ws'.preview = b /\ ws'.result = b /\ ws'.attempt = NoAttempt /\ ws'.analysis = ws.analysis
  BY <1>1, <1>2, <1>3 DEF IsTab
<1>5. TabInv'
  BY <1>1, <1>2, <1>4 DEF TabInv, UploadInv, DisplayInv, Displays, ResultInv, AttemptInv, Chosen
<1>6. DoubtInv'
  BY <1>1, <1>4 DEF DoubtInv, IInv
<1>7. ws'.phase \in Phases /\ {ws'.route, ws'.attempted} \subseteq {ws.route, ws.attempted, None, None}
  BY <1>2, <1>4 DEF Phases
<1> QED
  BY <1>4, <1>5, <1>6, <1>7, EndKeeps

LEMMA CommitAnsweredStep ==
  ASSUME IInv, NEW s \in Slots, NEW a, NEW d, Ends(s, a, d), slot[s].kind = "COMMIT"
  PROVE  IInv'
<1>1. /\ ws.active # None /\ ws.phase \in {"confirm", "unknown-commit"} /\ slot[s].batch = ws.preview
      /\ ws.attempt # NoAttempt /\ IsTab(ws) /\ Sound(batches, slot[s]) /\ slot[s].state # "idle"
  BY ActiveIs DEF Ends
<1>2. ws' = [CommitAnswered(ws, a) EXCEPT !.active = None] /\ UNCHANGED batches /\ doubt' \subseteq doubt
  BY <1>1 DEF Ends, Answered
<1>3. a.status \in {"ok", "missing", "denied", "failed", "conflict", "unknown"}
  BY <1>1 DEF Ends, Hears, Sound
<1>4. /\ ws.route = ws.preview /\ Chosen(ws.preview) /\ ws.attempted = None /\ ws.result = None
      /\ ws.analysis.batch = ws.preview /\ ~ws.stale /\ Confirmable(Shown.health)
      /\ ws.selection = Selected(File(ws.preview), ws.analysis.selection)
  BY <1>1 DEF IInv, TabInv, DisplayInv, Displays
<1>5. PICK accepted : accepted = Accepts(a, Expects(ws, FALSE))
  OBVIOUS
<1>6. CASE accepted
  <2>1. PICK b : b = ws.preview
    OBVIOUS
  <2>2. a.status = "ok"
    BY <1>5, <1>6 DEF Accepts
  <2>3. a.batch = b
    BY <1>1, <2>1, <2>2 DEF Ends, Hears, Sound
  <2>4. ws' = [AcceptResult(ws, b) EXCEPT !.active = None]
    BY <1>2, <1>5, <1>6, <2>3 DEF CommitAnswered
  <2> QED
    BY <1>1, <2>1, <2>4, ResultShown
<1>7. CASE ~accepted /\ a.status \in {"ok", "unknown"}
  <2>1. ws' = [ws EXCEPT !.unknown = "commit", !.error = "other", !.phase = "unknown-commit",
                         !.active = None]
    BY <1>1, <1>2, <1>5, <1>7 DEF CommitAnswered, OutcomeUnknown, IsTab
  <2>2. /\ IsTab(ws') /\ ws'.phase = "unknown-commit" /\ ws'.upload = ws.upload /\ ws'.active = None
        /\ ws'.resuming = ws.resuming /\ ws'.route = ws.route /\ ws'.attempted = ws.attempted
        /\ ws'.preview = ws.preview /\ ws'.result = ws.result /\ ws'.attempt = ws.attempt
        /\ ws'.analysis = ws.analysis /\ ws'.selection = ws.selection /\ ws'.stale = ws.stale
        /\ ws'.confirmed = ws.confirmed /\ ws'.key = ws.key /\ ws'.error = "other"
    BY <1>1, <2>1 DEF IsTab
  <2>3. TabInv'
    <3>1. UploadInv' /\ ResultInv'
      BY <2>2 DEF UploadInv, ResultInv
    <3>2. DisplayInv'
      BY <1>2, <1>4, <2>2 DEF DisplayInv, Displays, Chosen, File, Shown, Review
    <3>3. AttemptInv'
      BY <1>1, <2>2 DEF AttemptInv, IInv, TabInv
    <3> QED
      BY <3>1, <3>2, <3>3 DEF TabInv
  <2>4. DoubtInv'
    BY <1>2, <2>2 DEF DoubtInv, IInv
  <2>5. ws'.phase \in Phases /\ {ws'.route, ws'.attempted} \subseteq {ws.route, ws.attempted, None, None}
    BY <2>2 DEF Phases
  <2> QED
    BY <2>2, <2>3, <2>4, <2>5, EndKeeps
<1>8. CASE a.status \in {"missing", "denied", "failed", "conflict"}
  <2>1. PICK error, phase : /\ error = ErrorOf(a)
                            /\ phase = IF a.status = "conflict" THEN "conflict" ELSE "confirm"
    OBVIOUS
  <2>2. ~accepted
    BY <1>5, <1>8 DEF Accepts
  <2>3. ws' = [ws EXCEPT !.attempt = NoAttempt, !.unknown = "none", !.error = error,
                         !.phase = phase, !.active = None]
    BY <1>1, <1>2, <1>5, <1>8, <2>1, <2>2 DEF CommitAnswered, OutcomeUnknown, IsTab
  <2>4. /\ IsTab(ws') /\ ws'.phase = phase /\ ws'.upload = ws.upload /\ ws'.active = None
        /\ ws'.resuming = ws.resuming /\ ws'.route = ws.route /\ ws'.attempted = ws.attempted
        /\ ws'.preview = ws.preview /\ ws'.result = ws.result /\ ws'.attempt = NoAttempt
        /\ ws'.analysis = ws.analysis /\ ws'.selection = ws.selection /\ ws'.stale = ws.stale
    BY <1>1, <2>3 DEF IsTab
  <2>5. phase \in {"conflict", "confirm"}
    BY <2>1
  <2>6. TabInv'
    <3>1. UploadInv' /\ ResultInv' /\ AttemptInv'
      BY <2>4, <2>5 DEF UploadInv, ResultInv, AttemptInv
    <3>2. DisplayInv'
      BY <1>2, <1>4, <2>4, <2>5 DEF DisplayInv, Displays, Chosen, File, Shown, Review
    <3> QED
      BY <3>1, <3>2 DEF TabInv
  <2>7. DoubtInv'
    <3>1. doubt' = doubt \ {ws.preview}
      BY <1>1, <1>8 DEF Ends, Settles
    <3> QED
      BY <1>2, <2>4, <3>1 DEF DoubtInv, IInv
  <2>8. ws'.phase \in Phases /\ {ws'.route, ws'.attempted} \subseteq {ws.route, ws.attempted, None, None}
    BY <2>4, <2>5 DEF Phases
  <2> QED
    BY <2>4, <2>6, <2>7, <2>8, EndKeeps
<1> QED
  BY <1>3, <1>6, <1>7, <1>8

LEMMA CommitReconciledStep ==
  ASSUME IInv, NEW s \in Slots, NEW a, NEW d, Ends(s, a, d), slot[s].kind = "READ_COMMIT"
  PROVE  IInv'
<1>1. /\ ws.active # None /\ ws.phase = "unknown-commit" /\ slot[s].batch = ws.preview
      /\ IsTab(ws) /\ Sound(batches, slot[s])
  BY ActiveIs DEF Ends
<1>2. ws' = [CommitReconciled(ws, a) EXCEPT !.active = None]
  BY <1>1 DEF Ends, Answered
<1>3. PICK accepted : accepted = Accepts(a, Expects(ws, TRUE))
  OBVIOUS
<1>4. CASE accepted
  <2>1. PICK b : b = ws.preview
    OBVIOUS
  <2>2. a.status = "ok"
    BY <1>3, <1>4 DEF Accepts
  <2>3. a.batch = b
    BY <1>1, <2>1, <2>2 DEF Ends, Hears, Sound, Reads
  <2>4. ws' = [AcceptResult(ws, b) EXCEPT !.active = None]
    BY <1>2, <1>3, <1>4, <2>3 DEF CommitReconciled
  <2> QED
    BY <1>1, <2>1, <2>4, ResultShown
<1>5. CASE ~accepted
  <2>1. PICK error : error = ErrorOf(a)
    OBVIOUS
  <2>2. ws' = [ws EXCEPT !.error = error, !.active = None]
    BY <1>1, <1>2, <1>3, <1>5, <2>1 DEF CommitReconciled, IsTab
  <2>3. error = "missing" => ws.preview \notin doubt'
    <3>1. error = "missing" => a.status = "missing"
      BY <2>1 DEF ErrorOf
    <3> QED
      BY <1>1, <3>1 DEF Ends, Settles
  <2> QED
    BY <1>1, <2>2, <2>3, MessageShown
<1> QED
  BY <1>4, <1>5

-----------------------------------------------------------------------------
(* The sequence that resumes a batch                                       *)

LEMMA ResumingIs ==
  ASSUME IInv, NEW s \in Slots, ws.resuming = s
  PROVE  /\ s # None /\ ws.active = None /\ IsTab(ws) /\ ws.phase = "upload" /\ ws.resume = "LOADING"
         /\ ws.upload = "none" /\ ws.previewed = "none" /\ ws.attempted = None
         /\ ws.preview = None /\ ws.analysis = NoReview /\ ws.attempt = NoAttempt /\ ws.result = None
         /\ ws.route \in DOMAIN batches
         /\ slot[s].state # "idle" /\ slot[s].heard /\ slot[s].kind \in Reads
         /\ slot[s].batch = ws.route
         /\ slot[s].kind # "READ_COMMIT" => slot[s].batch \notin doubt
<1>1. s # None
  BY WorkspaceAssumption DEF None
<1>2. /\ ws.phase = "upload" /\ ws.resume = "LOADING" /\ IsTab(ws) /\ ws.active = None
      /\ slot[s].state # "idle" /\ slot[s].heard /\ slot[s].kind \in Reads
      /\ slot[s].batch = ws.route
      /\ slot[s].kind # "READ_COMMIT" => slot[s].batch \notin doubt
  BY <1>1 DEF IInv, Shaped, ResumeInv, ActiveInv
<1> QED
  BY <1>1, <1>2 DEF IInv, TabInv, UploadInv

\* The sequence in slot s ends with answer a.
LEMMA ResumeAnsweredStep ==
  ASSUME IInv, NEW s \in Slots, ws.resuming = s, NEW a,
         NEW d, IsRequest(d), Sound(batches, d), ~Names(d),
         slot' = [slot EXCEPT ![s] = d], UNCHANGED <<batches, keys, visits>>, doubt' \subseteq doubt,
         ws' = ResumeAnswered(ws, slot[s], a)
  PROVE  IInv'
<1>1. /\ s # None /\ ws.active = None /\ IsTab(ws) /\ ws.phase = "upload"
      /\ ws.upload = "none" /\ ws.previewed = "none" /\ ws.attempted = None
      /\ ws.preview = None /\ ws.analysis = NoReview /\ ws.attempt = NoAttempt /\ ws.result = None
      /\ ws.route \in DOMAIN batches /\ slot[s].batch = ws.route /\ slot[s].kind \in Reads
      /\ slot[s].kind # "READ_COMMIT" => slot[s].batch \notin doubt
  BY ResumingIs
<1>2. PICK b : b = ws.route
  OBVIOUS
<1>3. ASSUME IsTab(ws'), ws'.phase \in Phases, ws'.upload = "none", ws'.active = None,
             ws'.resuming = None, ws'.route = b, ws'.attempted = None, TabInv', DoubtInv'
      PROVE  IInv'
  <2>1. ActiveInv' /\ ResumeInv'
    BY <1>3 DEF ActiveInv, ResumeInv
  <2>2. {ws'.route, ws'.attempted} \subseteq {ws.route, ws.attempted, None, None}
    BY <1>1, <1>2, <1>3
  <2> QED
    BY <1>1, <1>3, <2>1, <2>2, AnswerKeeps
<1>4. ASSUME ws' = [AcceptResult(ws, slot[s].batch) EXCEPT !.resuming = None] PROVE IInv'
  <2>1. ws' = [ws EXCEPT !.result = b, !.unknown = "none", !.error = "none", !.phase = "result",
                         !.resume = "COMMITTED", !.attempt = NoAttempt, !.route = b, !.resuming = None]
    BY <1>1, <1>2, <1>4 DEF AcceptResult, IsTab
  <2>2. /\ IsTab(ws') /\ ws'.phase = "result" /\ ws'.upload = "none" /\ ws'.active = None
        /\ ws'.resuming = None /\ ws'.route = b /\ ws'.attempted = None
        /\ ws'.preview = None /\ ws'.result = b /\ ws'.attempt = NoAttempt /\ ws'.analysis = NoReview
    BY <1>1, <2>1 DEF IsTab
  <2>3. TabInv'
    BY <1>1, <1>2, <2>2 DEF TabInv, UploadInv, DisplayInv, Displays, ResultInv, AttemptInv
  <2>4. DoubtInv'
    BY <2>2 DEF DoubtInv, IInv
  <2> QED
    BY <1>3, <2>2, <2>3, <2>4 DEF Phases
<1>5. ASSUME slot[s].kind = "ANALYSE",
             ws' = [AcceptAnalysis(AcceptPreview(ws, slot[s].batch), slot[s].batch, NoSelection)
                     EXCEPT !.resume = "PREVIEWED", !.resuming = None]
      PROVE  IInv'
  <2>1. PICK selection : selection = Selected(File(b), NoSelection)
    OBVIOUS
  <2>2. PICK review : review = [batch |-> b, selection |-> NoSelection]
    OBVIOUS
  <2>3. ws' = [ws EXCEPT !.preview = b, !.analysis = review, !.selection = selection, !.stale = FALSE,
                         !.phase = "mapping", !.unknown = "none", !.attempted = None, !.error = "none",
                         !.previewed = "none", !.route = b, !.resume = "PREVIEWED", !.resuming = None]
    <3>1. ws' = [AcceptAnalysis(AcceptPreview(ws, b), b, NoSelection)
                   EXCEPT !.resume = "PREVIEWED", !.resuming = None]
      BY <1>1, <1>2, <1>5
    <3>2. PICK w : w = AcceptPreview(ws, b)
      OBVIOUS
    <3>3. w = [ws EXCEPT !.preview = b, !.analysis = NoReview, !.selection = NoSelection,
                         !.stale = FALSE, !.phase = "preview", !.unknown = "none",
                         !.attempted = None, !.error = "none", !.previewed = "none", !.route = b]
      BY <3>2 DEF AcceptPreview
    <3>4. AcceptAnalysis(w, b, NoSelection)
            = [w EXCEPT !.analysis = review, !.selection = selection, !.stale = FALSE,
                        !.error = "none", !.phase = "mapping"]
      BY <2>1, <2>2 DEF AcceptAnalysis
    <3>5. ws' = [[w EXCEPT !.analysis = review, !.selection = selection, !.stale = FALSE,
                           !.error = "none", !.phase = "mapping"]
                   EXCEPT !.resume = "PREVIEWED", !.resuming = None]
      BY <3>1, <3>2, <3>4
    <3> QED
      BY <1>1, <3>3, <3>5 DEF IsTab
  <2>4. /\ IsTab(ws') /\ ws'.phase = "mapping" /\ ws'.upload = "none" /\ ws'.active = None
        /\ ws'.resuming = None /\ ws'.route = b /\ ws'.attempted = None
        /\ ws'.preview = b /\ ws'.result = None /\ ws'.attempt = NoAttempt
        /\ ws'.analysis = review /\ ws'.selection = selection
    BY <1>1, <2>3, ZenonT(40) DEF IsTab
  <2>5. TabInv'
    <3>1. UploadInv' /\ ResultInv' /\ AttemptInv'
      BY <2>4 DEF UploadInv, ResultInv, AttemptInv
    <3>2. DisplayInv'
      BY <1>1, <1>2, <2>1, <2>2, <2>4 DEF DisplayInv, Displays, Chosen, File
    <3> QED
      BY <3>1, <3>2 DEF TabInv
  <2>6. DoubtInv'
    BY <1>1, <1>2, <1>5, <2>4 DEF DoubtInv, IInv
  <2> QED
    BY <1>3, <2>4, <2>5, <2>6 DEF Phases
<1>6. ASSUME ws' = FailResume(ws, a) PROVE IInv'
  <2>1. PICK resume : resume = IF a.status \in {"missing", "gone"} THEN "UNAVAILABLE" ELSE "ERROR"
    OBVIOUS
  <2>2. ws' = [ws EXCEPT !.resuming = None, !.resume = resume]
    BY <1>6, <2>1 DEF FailResume
  <2>3. /\ IsTab(ws') /\ ws'.phase = "upload" /\ ws'.upload = "none" /\ ws'.active = None
        /\ ws'.resuming = None /\ ws'.route = b /\ ws'.attempted = None
        /\ ws'.preview = None /\ ws'.result = None /\ ws'.attempt = NoAttempt
        /\ ws'.analysis = NoReview /\ ws'.previewed = "none"
    BY <1>1, <1>2, <2>2 DEF IsTab
  <2>4. TabInv'
    BY <1>1, <1>2, <2>3 DEF TabInv, UploadInv, DisplayInv, Displays, ResultInv, AttemptInv
  <2>5. DoubtInv'
    BY <2>3 DEF DoubtInv, IInv
  <2> QED
    BY <1>3, <2>3, <2>4, <2>5 DEF Phases
<1> QED
  BY <1>4, <1>5, <1>6 DEF ResumeAnswered

\* The answer changes nothing on display.
LEMMA TabIsLeft ==
  ASSUME IInv, NEW s \in Slots, NEW d, IsRequest(d), Sound(batches, d), ~Names(d),
         slot' = [slot EXCEPT ![s] = d], UNCHANGED <<batches, keys, visits, ws>>, doubt' \subseteq doubt,
         ActiveInv', ResumeInv'
  PROVE  IInv'
<1>1. TabInv'
  <2>1. UploadInv'
    BY DEF UploadInv, Chosen, IInv, TabInv
  <2>2. DisplayInv'
    BY DEF DisplayInv, Displays, Chosen, IInv, TabInv, File, Shown, Review
  <2>3. ResultInv' /\ AttemptInv'
    BY DEF ResultInv, AttemptInv, Chosen, IInv, TabInv
  <2> QED
    BY <2>1, <2>2, <2>3 DEF TabInv
<1>2. DoubtInv'
  BY DEF DoubtInv, IInv
<1>3. /\ IsTab(ws') /\ ws'.phase \in Phases /\ ws'.upload = ws.upload
      /\ ws'.active \in {ws.active, None} /\ ws'.resuming \in {ws.resuming, None}
      /\ {ws'.route, ws'.attempted} \subseteq {ws.route, ws.attempted, None, None}
  BY DEF IInv, Shaped
<1> QED
  BY <1>1, <1>2, <1>3, AnswerKeeps

\* Nobody waits for the answer any more.
LEMMA StrayStep ==
  ASSUME IInv, NEW s \in Slots, ws.active # s, ws.resuming # s,
         NEW d, IsRequest(d), Sound(batches, d), ~Names(d),
         slot' = [slot EXCEPT ![s] = d], UNCHANGED <<batches, keys, visits, ws, doubt>>
  PROVE  IInv'
<1>1. \A t \in Slots \ {s} : slot'[t] = slot[t]
  BY DEF IInv, Shaped
<1>2. ActiveInv' /\ ResumeInv'
  BY <1>1 DEF ActiveInv, ResumeInv, IInv, Shaped
<1> QED
  BY <1>2, TabIsLeft

\* The sequence in slot s goes on with the next request.
LEMMA ResumeGoesOn ==
  ASSUME IInv, NEW s \in Slots, ws.resuming = s, NEW a,
         ResumeNext(slot[s], a) # NoRequest,
         NEW d, d = ResumeNext(slot[s], a),
         slot' = [slot EXCEPT ![s] = d], UNCHANGED <<batches, keys, visits, ws>>,
         doubt' = IF Settles(slot[s], a) THEN doubt \ {slot[s].batch} ELSE doubt
  PROVE  IInv'
<1>1. /\ s # None /\ ws.active = None /\ ws.phase = "upload" /\ ws.resume = "LOADING"
      /\ ws.route \in DOMAIN batches /\ slot[s].batch = ws.route
      /\ slot[s].kind # "READ_COMMIT" => slot[s].batch \notin doubt
  BY ResumingIs
<1>2. PICK b : b = ws.route
  OBVIOUS
<1>3. \/ slot[s].kind = "READ_COMMIT" /\ a.status = "missing" /\ d = Sent("READ_PREVIEW", b)
      \/ slot[s].kind = "READ_PREVIEW" /\ d = Sent("ANALYSE", b)
  BY <1>1, <1>2 DEF ResumeNext
<1>4. /\ IsRequest(d) /\ Sound(batches, d) /\ d.state = "sent" /\ d.heard
      /\ d.kind \in {"READ_PREVIEW", "ANALYSE"} /\ d.batch = b
  BY <1>1, <1>2, <1>3, SentIsSound DEF Reads
<1>5. b \notin doubt' /\ doubt' \subseteq doubt
  BY <1>1, <1>2, <1>3 DEF Settles
<1>6. slot'[s] = d /\ ~Names(d)
  BY <1>4 DEF IInv, Shaped, Names
<1>7. ActiveInv'
  BY <1>1 DEF ActiveInv
<1>8. ResumeInv'
  BY <1>1, <1>2, <1>4, <1>5, <1>6 DEF ResumeInv, Reads
<1> QED
  BY <1>4, <1>5, <1>6, <1>7, <1>8, TabIsLeft

LEMMA EndsStep ==
  ASSUME IInv, NEW s \in Slots, NEW a, NEW d, Ends(s, a, d)
  PROVE  IInv'
<1>1. slot[s].kind \in {"PREVIEW", "READ_PREVIEW", "ANALYSE", "COMMIT", "READ_COMMIT"}
  BY ActiveIs DEF Ends
<1> QED
  BY <1>1, PreviewAnsweredStep, PreviewReconciledStep, AnalysisAnsweredStep, CommitAnsweredStep,
     CommitReconciledStep

\* An answer is taken, and nothing further is asked.
LEMMA TakenStep ==
  ASSUME IInv, NEW s \in Slots, NEW a, Hears(slot[s], a), Taken(s, a),
         NEW d, IsRequest(d), Sound(batches, d), ~Names(d), slot' = [slot EXCEPT ![s] = d],
         ws.resuming = s => ResumeNext(slot[s], a) = NoRequest
  PROVE  IInv'
<1>1. s # None
  BY WorkspaceAssumption DEF None
<1>2. /\ UNCHANGED <<batches, keys, visits>>
      /\ doubt' = IF (ws.active = s \/ ws.resuming = s) /\ Settles(slot[s], a)
                  THEN doubt \ {slot[s].batch} ELSE doubt
  BY DEF Taken, IsCurrent
<1>3. ws.active = s => ws.resuming # s
  BY <1>1, ActiveIs
<1>4. CASE ws.active = s
  <2>1. ws' = [Answered(ws, slot[s], a) EXCEPT !.active = None]
    BY <1>3, <1>4 DEF Taken, IsCurrent
  <2>2. Ends(s, a, d)
    BY <1>2, <1>4, <2>1 DEF Ends
  <2> QED
    BY <2>2, EndsStep
<1>5. CASE ws.resuming = s
  <2>1. ws' = ResumeAnswered(ws, slot[s], a) /\ doubt' \subseteq doubt
    BY <1>2, <1>3, <1>5 DEF Taken, IsCurrent
  <2> QED
    BY <1>2, <1>5, <2>1, ResumeAnsweredStep
<1>6. CASE ws.active # s /\ ws.resuming # s
  <2>1. UNCHANGED <<ws, doubt>>
    BY <1>2, <1>6 DEF Taken, IsCurrent
  <2> QED
    BY <1>2, <1>6, <2>1, StrayStep
<1> QED
  BY <1>4, <1>5, <1>6

LEMMA DeliverStep ==
  ASSUME IInv, NEW s \in Slots, Deliver(s)
  PROVE  IInv'
<1>1. PICK a : a = slot[s].answer
  OBVIOUS
<1>2. Hears(slot[s], a) /\ Taken(s, a)
  BY <1>1 DEF Deliver, Hears
<1>3. PICK d : d = IF ws.resuming = s THEN ResumeNext(slot[s], a) ELSE NoRequest
  OBVIOUS
<1>4. slot' = [slot EXCEPT ![s] = d]
  BY <1>1, <1>3 DEF Deliver
<1>5. CASE d = NoRequest
  <2>1. IsRequest(d) /\ Sound(batches, d) /\ ~Names(d)
    BY <1>5 DEF Sound, Names, NoRequest, NoAnswer, IsRequest, Statuses, Reads
  <2> QED
    BY <1>2, <1>3, <1>4, <1>5, <2>1, TakenStep
<1>6. CASE d # NoRequest
  <2>1. ws.resuming = s /\ d = ResumeNext(slot[s], a)
    BY <1>3, <1>6
  <2>2. ws.active # s
    BY <2>1, ResumingIs
  <2>3. /\ UNCHANGED <<batches, keys, visits, ws>>
        /\ doubt' = IF Settles(slot[s], a) THEN doubt \ {slot[s].batch} ELSE doubt
    BY <1>2, <1>6, <2>1, <2>2 DEF Taken, IsCurrent
  <2> QED
    BY <1>4, <1>6, <2>1, <2>3, ResumeGoesOn
<1> QED
  BY <1>5, <1>6

LEMMA LoseStep ==
  ASSUME IInv, NEW s \in Slots, Lose(s)
  PROVE  IInv'
<1>1. PICK a : a = Says("unknown")
  OBVIOUS
<1>2. a.status = "unknown" /\ a.batch = None
  BY <1>1 DEF Says, NoAnswer
<1>3. Hears(slot[s], a) /\ Taken(s, a)
  BY <1>1, <1>2 DEF Lose, Hears
<1>4. PICK d : d = Deserted(s)
  OBVIOUS
<1>5. IsRequest(d) /\ Sound(batches, d) /\ ~Names(d) /\ slot' = [slot EXCEPT ![s] = d]
  BY <1>4, DesertedIs DEF Lose
<1>6. ResumeNext(slot[s], a) = NoRequest
  BY <1>2 DEF ResumeNext
<1> QED
  BY <1>3, <1>5, <1>6, TakenStep

-----------------------------------------------------------------------------
(* The invariant                                                           *)

LEMMA InitHolds ==
  ASSUME Init
  PROVE  IInv
<1>1. PICK w : w = Blank
  OBVIOUS
<1>2. PICK q : q = NoRequest
  OBVIOUS
<1>3. IsRequest(q) /\ Sound(batches, q) /\ ~Names(q)
  BY <1>2 DEF Sound, Names, NoRequest, NoAnswer, IsRequest, Statuses, Reads
<1>4. batches = <<>> /\ slot = [s \in Slots |-> q] /\ ws = w /\ keys = 0 /\ visits = 0 /\ doubt = {}
  BY <1>1, <1>2 DEF Init
<1>5. Shaped
  <2>1. Staging(batches)
    BY <1>4 DEF Staging
  <2> QED
    BY <1>1, <1>3, <1>4, <2>1, BlankTab, WorkspaceAssumption DEF Shaped, Phases
<1>6. SlotInv /\ FreshInv
  BY <1>3, <1>4 DEF SlotInv, FreshInv
<1>7. TabInv
  BY <1>1, <1>4, BlankTab DEF TabInv, UploadInv, DisplayInv, Displays, ResultInv, AttemptInv
<1>8. ActiveInv /\ ResumeInv /\ DoubtInv
  BY <1>1, <1>4, BlankTab DEF ActiveInv, ResumeInv, DoubtInv
<1> QED
  BY <1>5, <1>6, <1>7, <1>8 DEF IInv

LEMMA OperatorStep ==
  ASSUME IInv, NEW s \in Slots, Operator(s)
  PROVE  IInv'
  BY CreatePreviewStep, RetryPreviewStep, ReconcilePreviewStep, ReviewMappingStep,
     RecalculateDataHealthStep, CommitReviewedStep, RetryCommitStep, ReconcileCommitStep,
     RetryResumeStep, Zenon DEF Operator

LEMMA NextKeeps ==
  ASSUME IInv, [Next]_vars
  PROVE  IInv'
<1>1. CASE \E u \in DOMAIN Uploads : ChooseFile(u)
  BY <1>1, ChooseFileStep
<1>2. CASE ws.phase = "mapping" /\ EditMapping
  BY <1>2, EditMappingStep
<1>3. CASE ContinueToConfirmation \/ Confirm \/ ReturnToMapping \/ Reset
  BY <1>3, ContinueStep, ConfirmStep, ReturnToMappingStep, ResetStep
<1>4. CASE \E b \in 0 .. Len(batches) : Mount(b)
  BY <1>4, MountStep
<1>5. CASE \E s \in Slots : Operator(s) \/ Deliver(s) \/ Lose(s)
  BY <1>5, OperatorStep, DeliverStep, LoseStep, Zenon
<1>6. CASE \E s \in Slots : ServePreview(s) \/ ServeRead(s) \/ ServeCommit(s) \/ Deny(s) \/ Drop(s)
  BY <1>6, ServePreviewStep, ServeReadStep, ServeCommitStep, DenyStep, DropStep, Zenon
<1>7. CASE \E b \in Touched \cap DOMAIN batches : CommitElsewhere(b) \/ Expire(b)
  <2>1. PICK b \in DOMAIN batches : CommitElsewhere(b) \/ Expire(b)
    BY <1>7
  <2> QED
    BY <2>1, CommitElsewhereStep, ExpireStep, Zenon
<1>8. CASE UNCHANGED vars
  <2>1. Staging(batches') /\ Keeps(batches, batches')
    BY <1>8 DEF vars, IInv, Shaped, Keeps
  <2> QED
    BY <1>8, <2>1, BatchChanges DEF vars
<1> QED
  BY <1>1, <1>2, <1>3, <1>4, <1>5, <1>6, <1>7, <1>8, Zenon DEF Next

THEOREM Invariance == Spec => []IInv
<1>1. Init => IInv
  BY InitHolds
<1>2. IInv /\ [Next]_vars => IInv'
  BY NextKeeps
<1> QED
  BY <1>1, <1>2, PTL DEF Spec

\* The tab, its requests and the batches have their types.
THEOREM TypeCorrect == Spec => []TypeOK
<1>1. IInv => TypeOK
  <2> SUFFICES ASSUME IInv PROVE TypeOK
    OBVIOUS
  <2>1. \A b \in DOMAIN batches :
          batches[b].upload \in DOMAIN Uploads /\ batches[b].status \in {"NONE", "PREVIEWED", "COMMITTED"}
    BY DEF IInv, Shaped, Staging
  <2>2. \A s \in Slots : /\ slot[s].state \in {"idle", "sent", "answered"}
                         /\ slot[s].answer.status \in Statuses
    BY DEF IInv, SlotInv, Sound
  <2>3. doubt \subseteq DOMAIN batches
    BY DEF IInv, DoubtInv
  <2> QED
    BY <2>1, <2>2, <2>3 DEF IInv, Shaped, TypeOK, Phases
<1> QED
  BY <1>1, Invariance, PTL

\* Whatever answers of earlier operations are on their way, and whatever was
\* lost, all the tab shows and would send concerns one batch, which holds the
\* file the operator chose.
THEOREM OneImport == Spec => []OneImportAtATime
<1>1. IInv => OneImportAtATime
  <2> SUFFICES ASSUME IInv PROVE OneImportAtATime
    OBVIOUS
  <2>1. CASE ws.phase = "upload"
    BY <2>1 DEF IInv, TabInv, UploadInv, OneImportAtATime
  <2>2. CASE ws.phase \in Displays
    <3>1. ws.attempt # NoAttempt => ws.attempt.batch = ws.preview
      BY DEF IInv, TabInv, AttemptInv
    <3>2. ws.analysis # NoReview => ws.analysis.batch = ws.preview
      BY <2>2 DEF IInv, TabInv, DisplayInv, Displays
    <3> QED
      BY <2>2, <3>1, <3>2 DEF IInv, TabInv, DisplayInv, Chosen, OneImportAtATime
  <2>3. CASE ws.phase = "result"
    <3>1. ws.attempt = NoAttempt
      BY <2>3 DEF IInv, TabInv, AttemptInv
    <3> QED
      BY <2>3, <3>1 DEF IInv, TabInv, ResultInv, Chosen, OneImportAtATime
  <2> QED
    BY <2>1, <2>2, <2>3 DEF IInv, Shaped, Phases, Displays
<1> QED
  BY <1>1, Invariance, PTL

-----------------------------------------------------------------------------
(* POSTs of a commit                                                       *)

\* Only a new request may be of another kind than what was in its slot.
LEMMA NoPost ==
  ASSUME IInv, NEW s \in Slots, NEW d, slot' = [slot EXCEPT ![s] = d],
         d.kind # "COMMIT" \/ d.kind = slot[s].kind
  PROVE  \A t \in Slots : ~NewPost(t)
<1>1. slot'[s] = d /\ \A t \in Slots \ {s} : slot'[t] = slot[t]
  BY DEF IInv, Shaped
<1> QED
  BY <1>1 DEF NewPost

LEMMA NoPostUnchanged ==
  ASSUME UNCHANGED slot
  PROVE  \A t \in Slots : ~NewPost(t)
  BY DEF NewPost

LEMMA NoRequestIsNoPost == NoRequest.kind # "COMMIT"
  BY DEF NoRequest

LEMMA SentIsNoPost ==
  ASSUME NEW kind \in Reads \cup {"PREVIEW"}, NEW b
  PROVE  Sent(kind, b).kind # "COMMIT"
<1>1. PICK q : q = Sent(kind, b)
  OBVIOUS
<1>2. q.kind = kind
  BY <1>1 DEF Sent, NoRequest
<1> QED
  BY <1>1, <1>2 DEF Reads

\* What is left of a request, or answers it, is no new POST.
LEMMA RepliesAreNoPosts ==
  ASSUME IInv, NEW s \in Slots, NEW a, Reply(s, a)
  PROVE  \A t \in Slots : ~NewPost(t)
<1>1. IsRequest(slot[s])
  BY DEF IInv, Shaped
<1>2. PICK d : d = IF slot[s].heard THEN [slot[s] EXCEPT !.state = "answered", !.answer = a]
                   ELSE NoRequest
  OBVIOUS
<1>3. d.kind # "COMMIT" \/ d.kind = slot[s].kind
  BY <1>1, <1>2, NoRequestIsNoPost DEF IsRequest
<1>4. slot' = [slot EXCEPT ![s] = d]
  BY <1>2 DEF Reply
<1> QED
  BY <1>3, <1>4, NoPost

LEMMA DesertedIsNoPost ==
  ASSUME IInv, NEW s \in Slots
  PROVE  Deserted(s).kind # "COMMIT" \/ Deserted(s).kind = slot[s].kind
<1>1. PICK d : d = Deserted(s)
  OBVIOUS
<1>2. IsRequest(slot[s])
  BY DEF IInv, Shaped
<1>3. d.kind # "COMMIT" \/ d.kind = slot[s].kind
  BY <1>1, <1>2, NoRequestIsNoPost DEF Deserted, IsRequest
<1> QED
  BY <1>1, <1>3

LEMMA ServerSendsNoPost ==
  ASSUME IInv, NEW s \in Slots,
         ServePreview(s) \/ ServeRead(s) \/ ServeCommit(s) \/ Deny(s) \/ Drop(s)
  PROVE  \A t \in Slots : ~NewPost(t)
<1>1. CASE \E a : Reply(s, a)
  BY <1>1, RepliesAreNoPosts
<1>2. CASE Drop(s)
  <2>1. PICK d : d = NoRequest
    OBVIOUS
  <2>2. d.kind # "COMMIT" /\ slot' = [slot EXCEPT ![s] = d]
    BY <1>2, <2>1, NoRequestIsNoPost DEF Drop
  <2> QED
    BY <2>2, NoPost
<1>3. ServePreview(s) => \E a : Reply(s, a)
  BY DEF ServePreview
<1>4. ServeRead(s) => \E a : Reply(s, a)
  BY DEF ServeRead
<1>5. ServeCommit(s) => \E a : Reply(s, a)
  BY DEF ServeCommit
<1>6. Deny(s) => \E a : Reply(s, a)
  BY DEF Deny
<1> QED
  BY <1>1, <1>2, <1>3, <1>4, <1>5, <1>6, Zenon

LEMMA AnswersAreNoPosts ==
  ASSUME IInv, NEW s \in Slots, Deliver(s) \/ Lose(s)
  PROVE  \A t \in Slots : ~NewPost(t)
<1>1. PICK a : a = slot[s].answer
  OBVIOUS
<1>2. PICK next : next = ResumeNext(slot[s], a)
  OBVIOUS
<1>3. next.kind # "COMMIT"
  BY <1>2, SentIsNoPost, NoRequestIsNoPost DEF ResumeNext, Reads
<1>4. PICK d : \/ Deliver(s) /\ d = IF ws.resuming = s THEN next ELSE NoRequest
               \/ Lose(s) /\ d = Deserted(s)
  OBVIOUS
<1>5. d.kind # "COMMIT" \/ d.kind = slot[s].kind
  BY <1>3, <1>4, NoRequestIsNoPost, DesertedIsNoPost
<1>6. slot' = [slot EXCEPT ![s] = d]
  BY <1>1, <1>2, <1>4 DEF Deliver, Lose
<1> QED
  BY <1>5, <1>6, NoPost

LEMMA MountSendsNoPost ==
  ASSUME IInv, NEW b, Mount(b)
  PROVE  \A t \in Slots : ~NewPost(t)
<1> SUFFICES ASSUME NEW t \in Slots PROVE ~NewPost(t)
  OBVIOUS
<1>1. slot'[t] = Deserted(t) \/ slot'[t] = Sent("READ_COMMIT", b)
  BY DEF Mount
<1>2. Sent("READ_COMMIT", b).kind # "COMMIT"
  BY SentIsNoPost DEF Reads
<1> QED
  BY <1>1, <1>2, DesertedIsNoPost DEF NewPost

\* A request of the operator that is no commit.
LEMMA BeginsNoPost ==
  ASSUME IInv, NEW s \in Slots, NEW d, slot' = [slot EXCEPT ![s] = d], d.kind # "COMMIT"
  PROVE  \A t \in Slots : ~NewPost(t)
  BY NoPost

LEMMA PostsAreSubmitted ==
  ASSUME IInv, Next, NEW t \in Slots, NewPost(t)
  PROVE  CommitReviewed(t) \/ RetryCommit(t)
<1>1. CASE UNCHANGED slot
  BY <1>1, NoPostUnchanged
<1>2. CASE \E b : Mount(b)
  BY <1>2, MountSendsNoPost
<1>3. CASE \E s \in Slots : Deliver(s) \/ Lose(s)
  BY <1>3, AnswersAreNoPosts
<1>4. CASE \E s \in Slots : ServePreview(s) \/ ServeRead(s) \/ ServeCommit(s) \/ Deny(s) \/ Drop(s)
  BY <1>4, ServerSendsNoPost
<1>5. ASSUME NEW s \in Slots, Operator(s) PROVE CommitReviewed(t) \/ RetryCommit(t)
  <2>1. CASE CommitReviewed(s) \/ RetryCommit(s)
    <3>1. PICK d : slot' = [slot EXCEPT ![s] = d]
      BY <2>1 DEF CommitReviewed, RetryCommit, SubmitCommit, Begin
    <3>2. t = s
      BY <3>1 DEF NewPost, IInv, Shaped
    <3> QED
      BY <2>1, <3>2
  <2>2. CASE CreatePreview(s) \/ RetryPreview(s)
    <3>1. PICK u : SubmitPreview(s, u)
      BY <2>2 DEF CreatePreview, RetryPreview
    <3>2. PICK d : d = [Sent("PREVIEW", None) EXCEPT !.upload = u]
      OBVIOUS
    <3>3. d.kind # "COMMIT"
      BY <3>2 DEF Sent, NoRequest
    <3>4. slot' = [slot EXCEPT ![s] = d]
      BY <3>1, <3>2 DEF SubmitPreview, Begin
    <3> QED
      BY <3>3, <3>4, BeginsNoPost
  <2>3. CASE ReconcilePreview(s) \/ ReviewMapping(s) \/ ReconcileCommit(s) \/ RetryResume(s)
    <3>1. PICK kind, b : kind \in Reads /\ slot' = [slot EXCEPT ![s] = Sent(kind, b)]
      BY <2>3 DEF ReconcilePreview, ReviewMapping, ReconcileCommit, RetryResume, Begin, Reads
    <3>2. PICK d : d = Sent(kind, b)
      OBVIOUS
    <3>3. d.kind # "COMMIT" /\ slot' = [slot EXCEPT ![s] = d]
      BY <3>1, <3>2, SentIsNoPost
    <3> QED
      BY <3>3, BeginsNoPost
  <2>4. CASE RecalculateDataHealth(s)
    <3>1. PICK d : d = [Sent("ANALYSE", ws.preview) EXCEPT !.selection = ws.selection]
      OBVIOUS
    <3>2. d.kind # "COMMIT"
      BY <3>1 DEF Sent, NoRequest
    <3>3. slot' = [slot EXCEPT ![s] = d]
      BY <2>4, <3>1 DEF RecalculateDataHealth, Begin
    <3> QED
      BY <3>2, <3>3, BeginsNoPost
  <2> QED
    BY <1>5, <2>1, <2>2, <2>3, <2>4, Zenon DEF Operator
<1>6. (\E u \in DOMAIN Uploads : ChooseFile(u)) => UNCHANGED slot
  BY DEF ChooseFile
<1>7. EditMapping => UNCHANGED slot
  BY DEF EditMapping, UpdateSourceIdentity, UpdateSelection
<1>8. ContinueToConfirmation \/ Confirm \/ ReturnToMapping \/ Reset => UNCHANGED slot
  BY DEF ContinueToConfirmation, Confirm, ReturnToMapping, Reset
<1>9. (\E b \in Touched \cap DOMAIN batches : CommitElsewhere(b) \/ Expire(b)) => UNCHANGED slot
  BY DEF CommitElsewhere, Expire
<1> QED
  BY <1>1, <1>2, <1>3, <1>4, <1>5, <1>6, <1>7, <1>8, <1>9, Zenon DEF Next

\* What a commit is posted with.
LEMMA PostIs ==
  ASSUME IInv, NEW s \in Slots, NewPost(s), CommitReviewed(s) \/ RetryCommit(s)
  PROVE  /\ slot'[s].batch = ws.preview /\ slot'[s].key = ws.key /\ slot'[s].selection = ws.selection
         /\ ws.confirmed /\ ws.active = None
         /\ \/ ws.phase = "confirm"
            \/ /\ ws.phase = "unknown-commit" /\ ws.error = "missing"
               /\ ws.attempt = [batch |-> ws.preview, key |-> ws.key, selection |-> ws.selection]
<1>1. ws.phase = "unknown-commit" =>
        /\ ws.attempt = [batch |-> ws.preview, key |-> ws.key, selection |-> ws.selection]
        /\ ws.confirmed
  BY DEF IInv, TabInv, AttemptInv
<1>2. PICK a : /\ a = [batch |-> ws.preview, key |-> ws.key, selection |-> ws.selection]
               /\ SubmitCommit(s, a)
  BY <1>1 DEF CommitReviewed, RetryCommit
<1>3. PICK q : q = [Sent("COMMIT", a.batch) EXCEPT !.key = a.key, !.selection = a.selection]
  OBVIOUS
<1>4. q.batch = ws.preview /\ q.key = ws.key /\ q.selection = ws.selection
  BY <1>2, <1>3 DEF Sent, NoRequest
<1>5. slot'[s] = q /\ ws.active = None
  BY <1>2, <1>3 DEF SubmitCommit, Begin, Pending, IInv, Shaped
<1> QED
  BY <1>1, <1>4, <1>5 DEF CommitReviewed, RetryCommit

\* No POST is repeated before a lookup found the first one missing, even
\* across a reload, and the repetition is the same.
THEOREM RetryAfterMissing == Spec => RetryOnlyAfterMissing
<1> DEFINE A(s) == NewPost(s) =>
              /\ slot'[s].batch \notin doubt
              /\ ws.phase = "unknown-commit" =>
                  /\ slot'[s].key = ws.attempt.key /\ slot'[s].selection = ws.attempt.selection
<1>1. ASSUME IInv, [Next]_vars, NEW s \in Slots PROVE A(s)
  <2> SUFFICES ASSUME NewPost(s)
               PROVE  /\ slot'[s].batch \notin doubt
                      /\ ws.phase = "unknown-commit" =>
                          /\ slot'[s].key = ws.attempt.key /\ slot'[s].selection = ws.attempt.selection
    OBVIOUS
  <2>1. Next
    BY <1>1, NoPostUnchanged DEF vars
  <2>2. CommitReviewed(s) \/ RetryCommit(s)
    BY <1>1, <2>1, PostsAreSubmitted
  <2>3. /\ slot'[s].batch = ws.preview /\ slot'[s].key = ws.key /\ slot'[s].selection = ws.selection
        /\ ws.active = None
        /\ \/ ws.phase = "confirm"
           \/ /\ ws.phase = "unknown-commit" /\ ws.error = "missing"
              /\ ws.attempt = [batch |-> ws.preview, key |-> ws.key, selection |-> ws.selection]
    BY <1>1, <2>2, PostIs
  <2>4. ws.preview \notin doubt
    BY <1>1, <2>3 DEF IInv, DoubtInv
  <2> QED
    BY <2>3, <2>4
<1>2. IInv /\ [Next]_vars => [\A s \in Slots : A(s)]_vars
  BY <1>1
<1> QED
  BY <1>2, Invariance, PTL DEF Spec, RetryOnlyAfterMissing

\* What is committed is what was reviewed and confirmed.
THEOREM ReviewedConfirmed == Spec => ConfirmedIsReviewed
<1> DEFINE A(s) == NewPost(s) =>
              /\ ws.confirmed /\ ws.analysis.batch = slot'[s].batch
              /\ Confirmable(Shown.health)
              /\ slot'[s].selection = Selected(File(ws.analysis.batch), ws.analysis.selection)
<1>1. ASSUME IInv, [Next]_vars, NEW s \in Slots PROVE A(s)
  <2> SUFFICES ASSUME NewPost(s)
               PROVE  /\ ws.confirmed /\ ws.analysis.batch = slot'[s].batch
                      /\ Confirmable(Shown.health)
                      /\ slot'[s].selection = Selected(File(ws.analysis.batch), ws.analysis.selection)
    OBVIOUS
  <2>1. Next
    BY <1>1, NoPostUnchanged DEF vars
  <2>2. CommitReviewed(s) \/ RetryCommit(s)
    BY <1>1, <2>1, PostsAreSubmitted
  <2>3. /\ slot'[s].batch = ws.preview /\ slot'[s].selection = ws.selection
        /\ ws.confirmed /\ ws.phase \in {"confirm", "unknown-commit"}
    BY <1>1, <2>2, PostIs
  <2>4. /\ ws.analysis.batch = ws.preview /\ Confirmable(Shown.health)
        /\ ws.selection = Selected(File(ws.preview), ws.analysis.selection)
    BY <1>1, <2>3 DEF IInv, TabInv, DisplayInv, Displays
  <2> QED
    BY <2>3, <2>4
<1>2. IInv /\ [Next]_vars => [\A s \in Slots : A(s)]_vars
  BY <1>1
<1> QED
  BY <1>2, Invariance, PTL DEF Spec, ConfirmedIsReviewed

-----------------------------------------------------------------------------
(* Counting                                                                *)

LEMMA MinOf ==
  ASSUME NEW a \in Nat, NEW b \in Nat
  PROVE  Min2(a, b) \in Nat /\ Min2(a, b) \in 0 .. a /\ Min2(a, b) <= b
  BY DEF Min2

LEMMA Part ==
  ASSUME NEW S, IsFiniteSet(S), NEW T, T \subseteq S
  PROVE  /\ IsFiniteSet(T) /\ Cardinality(T) \in Nat
         /\ Cardinality(T) <= Cardinality(S) /\ Cardinality(S) \in Nat
         /\ Cardinality(S) = Cardinality(T) => S = T
<1>1. T \in SUBSET S
  OBVIOUS
<1>2. IsFiniteSet(T) /\ Cardinality(T) <= Cardinality(S) /\ (Cardinality(S) = Cardinality(T) => S = T)
  BY <1>1, FS_Subset, Zenon
<1>3. Cardinality(T) \in Nat /\ Cardinality(S) \in Nat
  BY <1>2, FS_CardinalityType, Zenon
<1> QED
  BY <1>2, <1>3

\* A set of rows, and those of them that are shown.
LEMMA CountShown ==
  ASSUME NEW n \in Nat, NEW k \in 0 .. n, NEW R \in SUBSET (1 .. n)
  PROVE  /\ IsFiniteSet(R) /\ Cardinality(R) \in 0 .. n
         /\ Cardinality(R \cap (1 .. k)) \in 0 .. k
         /\ Cardinality(R \cap (1 .. k)) <= Cardinality(R)
         /\ Cardinality(R) <= Cardinality(R \cap (1 .. k)) + (n - k)
<1> DEFINE T == R \cap (1 .. k)
           U == R \ (1 .. k)
<1>1. /\ IsFiniteSet(1 .. n) /\ Cardinality(1 .. n) = n
      /\ IsFiniteSet(1 .. k) /\ Cardinality(1 .. k) = k
      /\ IsFiniteSet((k + 1) .. n) /\ Cardinality((k + 1) .. n) = n - k
  BY FS_Interval
<1>2. IsFiniteSet(R) /\ Cardinality(R) <= n /\ Cardinality(R) \in Nat
  BY <1>1, Part
<1>3. T \subseteq 1 .. k /\ U \subseteq (k + 1) .. n /\ T \subseteq R
  OBVIOUS
<1> HIDE DEF T, U
<1>4. /\ IsFiniteSet(T) /\ Cardinality(T) <= k /\ Cardinality(T) \in Nat
      /\ Cardinality(T) <= Cardinality(R)
  <2>1. IsFiniteSet(T) /\ Cardinality(T) <= Cardinality(1 .. k) /\ Cardinality(T) \in Nat
    BY <1>1, <1>3, Part, Zenon
  <2>2. Cardinality(T) <= Cardinality(R)
    BY <1>2, <1>3, Part, Zenon
  <2> QED
    BY <1>1, <2>1, <2>2
<1>5. Cardinality(U) <= n - k /\ Cardinality(U) \in Nat
  <2>1. Cardinality(U) <= Cardinality((k + 1) .. n) /\ Cardinality(U) \in Nat
    BY <1>1, <1>3, Part, Zenon
  <2> QED
    BY <1>1, <2>1
<1>6. Cardinality(U) = Cardinality(R) - Cardinality(T)
  BY <1>2, FS_Difference DEF T, U
<1> QED
  BY <1>2, <1>4, <1>5, <1>6 DEF T

\* All rows are counted only when each is.
LEMMA CountAll ==
  ASSUME NEW n \in Nat, NEW R \in SUBSET (1 .. n), Cardinality(R) = n
  PROVE  R = 1 .. n
<1>1. IsFiniteSet(1 .. n) /\ Cardinality(1 .. n) = n
  BY FS_Interval
<1> QED
  BY <1>1, Part

\* Two finite sets that have no element in common.
LEMMA CountUnion ==
  ASSUME NEW R, NEW T, IsFiniteSet(R), IsFiniteSet(T), R \cap T = {}
  PROVE  /\ IsFiniteSet(R \cup T)
         /\ Cardinality(R \cup T) = Cardinality(R) + Cardinality(T)
<1>1. Cardinality(R) \in Nat /\ Cardinality(T) \in Nat /\ Cardinality(R \cap T) = 0
  BY FS_CardinalityType, FS_EmptySet
<1>2. /\ IsFiniteSet(R \cup T)
      /\ Cardinality(R \cup T) = Cardinality(R) + Cardinality(T) - Cardinality(R \cap T)
  BY FS_Union, Zenon
<1> QED
  BY <1>1, <1>2

\* Two sets of rows that have none in common.
LEMMA CountApart ==
  ASSUME NEW n \in Nat, NEW R \in SUBSET (1 .. n), NEW T \in SUBSET (1 .. n), R \cap T = {}
  PROVE  /\ Cardinality(R \cup T) = Cardinality(R) + Cardinality(T)
         /\ Cardinality(R) + Cardinality(T) <= n
<1>1. IsFiniteSet(1 .. n) /\ Cardinality(1 .. n) = n
  BY FS_Interval
<1>2. /\ IsFiniteSet(R) /\ IsFiniteSet(T)
      /\ Cardinality(R \cup T) <= n
  <2>1. R \cup T \subseteq 1 .. n
    OBVIOUS
  <2> QED
    BY <1>1, <2>1, Part
<1> QED
  BY <1>2, CountUnion

\* A set of cells of n rows and m columns, and those of the first k rows.
LEMMA AllCells ==
  ASSUME NEW i \in Int, NEW n \in Int, i <= n + 1, NEW m \in Nat
  PROVE  IsFiniteSet((i .. n) \X (1 .. m)) /\ Cardinality((i .. n) \X (1 .. m)) = (n - i + 1) * m
<1>1. PICK S : S = i .. n
  OBVIOUS
<1>2. PICK T : T = 1 .. m
  OBVIOUS
<1>3. IsFiniteSet(S) /\ Cardinality(S) = n - i + 1 /\ IsFiniteSet(T) /\ Cardinality(T) = m
  BY <1>1, <1>2, FS_Interval
<1>4. IsFiniteSet(S \X T) /\ Cardinality(S \X T) = Cardinality(S) * Cardinality(T)
  BY <1>3, FS_Product, Zenon
<1> QED
  BY <1>1, <1>2, <1>3, <1>4

LEMMA CellsShown ==
  ASSUME NEW n \in Nat, NEW m \in Nat, NEW k \in 0 .. n, NEW R \in SUBSET ((1 .. n) \X (1 .. m))
  PROVE  /\ IsFiniteSet(R) /\ Cardinality(R) \in Nat /\ Cardinality(R) <= n * m
         /\ Cardinality(R \cap ((1 .. k) \X (1 .. m))) \in Nat
         /\ Cardinality(R \cap ((1 .. k) \X (1 .. m))) <= Cardinality(R)
         /\ Cardinality(R) <= Cardinality(R \cap ((1 .. k) \X (1 .. m))) + (n - k) * m
<1> DEFINE A == (1 .. n) \X (1 .. m)
           B == (1 .. k) \X (1 .. m)
           C == ((k + 1) .. n) \X (1 .. m)
           T == R \cap B
           U == R \ B
<1>1. IsFiniteSet(A) /\ Cardinality(A) = n * m /\ IsFiniteSet(C) /\ Cardinality(C) = (n - k) * m
  <2>1. IsFiniteSet(A) /\ Cardinality(A) = (n - 1 + 1) * m
    BY AllCells
  <2>2. IsFiniteSet(C) /\ Cardinality(C) = (n - (k + 1) + 1) * m
    BY AllCells
  <2>3. n - 1 + 1 = n /\ n - (k + 1) + 1 = n - k
    OBVIOUS
  <2> HIDE DEF A, C
  <2> QED
    BY <2>1, <2>2, <2>3
<1>2. R \subseteq A /\ U \subseteq C /\ T \subseteq R
  OBVIOUS
<1>3. IsFiniteSet(R) => Cardinality(U) = Cardinality(R) - Cardinality(T)
  BY FS_Difference, Zenon
<1> HIDE DEF A, B, C, T, U
<1>4. IsFiniteSet(R) /\ Cardinality(R) <= n * m /\ Cardinality(R) \in Nat
  BY <1>1, <1>2, Part
<1>5. Cardinality(T) \in Nat /\ Cardinality(T) <= Cardinality(R)
  BY <1>2, <1>4, Part
<1>6. Cardinality(U) <= (n - k) * m /\ Cardinality(U) \in Nat
  BY <1>1, <1>2, Part
<1>7. (n - k) * m \in Int
  OBVIOUS
<1>8. Cardinality(R) <= Cardinality(T) + (n - k) * m
  <2>1. PICK q \in Int : q = (n - k) * m
    BY <1>7
  <2> QED
    BY <2>1, <1>3, <1>4, <1>5, <1>6
<1> QED
  BY <1>4, <1>5, <1>8 DEF B, T

-----------------------------------------------------------------------------
(* Files                                                                   *)

Cells == {cell \in [kind : Kinds, raw : DOMAIN Literal \cup {NoText}] :
            cell.kind = "MISSING" <=> cell.raw = NoText}

IsFile(file) ==
    /\ file.collection \in DOMAIN Targets \cup {"revenue_actions"}
    /\ ValidHeaders(file.headers)
    /\ DOMAIN file.headers = 1 .. Len(file.headers) /\ Len(file.headers) \in 1 .. MaxColumns
    /\ file.rows \in Seq([1 .. Len(file.headers) -> Cells])

LEMMA TableIs ==
  ASSUME NEW f
  PROVE  Table(f) = f
  BY DEF Table

LEMMA TablesAre ==
  /\ Parsed = [u \in DOMAIN Uploads |-> ParseCsvUpload(Uploads[u])]
  /\ Reviewed = [u \in DOMAIN Uploads |-> [s \in Selections(Parsed[u]) |-> Reviewing(Parsed[u], s)]]
<1>1. Parsed = [u \in DOMAIN Uploads |-> ParseCsvUpload(Uploads[u])]
  BY TableIs DEF Parsed
<1>2. ASSUME NEW u \in DOMAIN Uploads
      PROVE  Table([s \in Selections(Parsed[u]) |-> Reviewing(Parsed[u], s)])
               = [s \in Selections(Parsed[u]) |-> Reviewing(Parsed[u], s)]
  BY TableIs
<1>3. Reviewed = [u \in DOMAIN Uploads |-> Table([s \in Selections(Parsed[u]) |-> Reviewing(Parsed[u], s)])]
  BY TableIs DEF Reviewed
<1> QED
  BY <1>1, <1>2, <1>3, Zenon

\* A file that parses is a table of cells.
LEMMA ParsedIsFile ==
  ASSUME NEW u \in DOMAIN Uploads, Parses(Uploads[u])
  PROVE  IsFile(Parsed[u]) /\ Parsed[u].collection = Uploads[u].collection
<1> DEFINE up == Uploads[u]
           m == Len(up.headers)
           n == Len(up.records)
           file == ParseCsvUpload(up)
           cell(r, c) == IF c \in DOMAIN up.records[r] THEN ClassifyCell(up.records[r][c]) ELSE MissingCell
<1>1. Parsed[u] = file
  BY TablesAre
<1>2. /\ up.collection \in DOMAIN Targets \cup {"revenue_actions"}
      /\ up.headers \in Seq(DOMAIN Normal) /\ up.records \in Seq(Seq(DOMAIN Literal))
  BY UploadAssumption
<1>3. /\ file.collection = up.collection /\ file.headers = up.headers
      /\ file.rows = [r \in DOMAIN up.records |-> [c \in DOMAIN up.headers |-> cell(r, c)]]
  BY DEF ParseCsvUpload
<1>4. ValidHeaders(up.headers)
  BY DEF Parses
<1>5. /\ m \in Nat /\ DOMAIN up.headers = 1 .. m /\ n \in Nat /\ DOMAIN up.records = 1 .. n
  BY <1>2
<1>6. m \in 1 .. MaxColumns
  <2>1. m # 0
    BY <1>2, <1>4 DEF ValidHeaders
  <2>2. MaxColumns \in Nat /\ m <= MaxColumns
    BY <1>4, ContractAssumption DEF ValidHeaders
  <2> QED
    BY <1>5, <2>1, <2>2
<1>7. ASSUME NEW r \in 1 .. n, NEW c \in 1 .. m PROVE cell(r, c) \in Cells
  <2>1. CASE c \in DOMAIN up.records[r]
    <3>1. PICK text \in DOMAIN Literal : text = up.records[r][c]
      BY <1>2, <1>5, <2>1
    <3>2. Literal[text].kind \in Kinds \ {"MISSING"} /\ text # NoText
      BY ContractAssumption
    <3>3. ClassifyCell(text) \in Cells
      BY <3>2 DEF ClassifyCell, Cells
    <3> QED
      BY <2>1, <3>1, <3>3
  <2>2. CASE c \notin DOMAIN up.records[r]
    <3>1. MissingCell \in Cells
      BY DEF MissingCell, Cells, Kinds
    <3> QED
      BY <2>2, <3>1
  <2> QED
    BY <2>1, <2>2
<1>8. file.rows \in Seq([1 .. m -> Cells])
  <2> HIDE DEF file, cell, m, n
  <2>1. file.rows \in [1 .. n -> [1 .. m -> Cells]]
    BY <1>3, <1>5, <1>7
  <2> QED
    BY <1>5, <2>1
<1> QED
  BY <1>1, <1>2, <1>3, <1>4, <1>5, <1>6, <1>8 DEF IsFile

-----------------------------------------------------------------------------
(* A preview is readable                                                   *)

LEMMA ShownRows ==
  ASSUME NEW S, NEW rows \in Seq(S), NEW k \in 0 .. Len(rows)
  PROVE  /\ SubSeq(rows, 1, k) \in Seq(S) /\ Len(SubSeq(rows, 1, k)) = k
         /\ DOMAIN SubSeq(rows, 1, k) = 1 .. k
         /\ \A r \in 1 .. k : SubSeq(rows, 1, k)[r] = rows[r]
<1>1. Len(rows) \in Nat
  OBVIOUS
<1> QED
  BY <1>1, SubSeqProperties

LEMMA CellsAre ==
  ASSUME NEW m \in Nat, m <= MaxColumns, NEW S, NEW rows \in Seq([1 .. m -> S]), NEW kinds
  PROVE  \A x : x \in CellsOfKind(rows, kinds) <=>
                  x \in (1 .. Len(rows)) \X (1 .. m) /\ rows[x[1]][x[2]].kind \in kinds
<1>1. DOMAIN rows = 1 .. Len(rows) /\ MaxColumns \in Nat
  BY ContractAssumption
<1>2. \A r \in 1 .. Len(rows) : DOMAIN rows[r] = 1 .. m
  OBVIOUS
<1>3. CellsOfKind(rows, kinds) =
        {x \in (1 .. Len(rows)) \X (1 .. MaxColumns) :
            x[2] \in DOMAIN rows[x[1]] /\ rows[x[1]][x[2]].kind \in kinds}
  BY <1>1 DEF CellsOfKind
<1> QED
  BY <1>1, <1>2, <1>3

LEMMA CountIsBounded ==
  ASSUME NEW m \in Nat, m <= MaxColumns, NEW S, NEW rows \in Seq([1 .. m -> S]), NEW kinds
  PROVE  /\ CellsOfKind(rows, kinds) \in SUBSET ((1 .. Len(rows)) \X (1 .. m))
         /\ IsFiniteSet(CellsOfKind(rows, kinds))
         /\ Count(CellsOfKind(rows, kinds)) \in Nat
         /\ Count(CellsOfKind(rows, kinds)) <= Len(rows) * m
<1> DEFINE R == CellsOfKind(rows, kinds)
<1>1. R \in SUBSET ((1 .. Len(rows)) \X (1 .. m))
  BY CellsAre
<1>2. PICK n \in Nat : n = Len(rows)
  OBVIOUS
<1>3. n \in 0 .. n
  OBVIOUS
<1> HIDE DEF R
<1>4. IsFiniteSet(R) /\ Cardinality(R) \in Nat /\ Cardinality(R) <= n * m
  BY <1>1, <1>2, <1>3, CellsShown
<1> QED
  BY <1>1, <1>2, <1>4 DEF R, Count

\* Cells of different kinds are different cells.
LEMMA KindsApart ==
  ASSUME NEW m \in Nat, m <= MaxColumns, NEW S, NEW rows \in Seq([1 .. m -> S]),
         NEW K, NEW L, K \cap L = {}
  PROVE  Count(CellsOfKind(rows, K \cup L)) = Count(CellsOfKind(rows, K)) + Count(CellsOfKind(rows, L))
<1>1. IsFiniteSet(CellsOfKind(rows, K)) /\ IsFiniteSet(CellsOfKind(rows, L))
  BY CountIsBounded
<1>2. CellsOfKind(rows, K \cup L) = CellsOfKind(rows, K) \cup CellsOfKind(rows, L)
  <2>1. ASSUME NEW x
        PROVE  x \in CellsOfKind(rows, K \cup L) <=> x \in CellsOfKind(rows, K) \/ x \in CellsOfKind(rows, L)
    <3>1. x \in CellsOfKind(rows, K \cup L) <=>
            x \in (1 .. Len(rows)) \X (1 .. m) /\ rows[x[1]][x[2]].kind \in K \cup L
      BY CellsAre, Zenon
    <3>2. x \in CellsOfKind(rows, K) <=> x \in (1 .. Len(rows)) \X (1 .. m) /\ rows[x[1]][x[2]].kind \in K
      BY CellsAre, Zenon
    <3>3. x \in CellsOfKind(rows, L) <=> x \in (1 .. Len(rows)) \X (1 .. m) /\ rows[x[1]][x[2]].kind \in L
      BY CellsAre, Zenon
    <3> QED
      BY <3>1, <3>2, <3>3
  <2> QED
    BY <2>1
<1>3. CellsOfKind(rows, K) \cap CellsOfKind(rows, L) = {}
  BY CellsAre
<1> QED
  BY <1>1, <1>2, <1>3, CountUnion DEF Count

\* Every cell is of one kind.
LEMMA KindsAddUp ==
  ASSUME NEW m \in Nat, m <= MaxColumns, NEW rows \in Seq([1 .. m -> Cells])
  PROVE  /\ Count(CellsOfKind(rows, Kinds)) = Len(rows) * m
         /\ LET of(k) == Count(CellsOfKind(rows, {k}))
            IN of("MISSING") + of("BLANK") + of("NULL") + of("UNKNOWN") + of("NUMERIC")
               + of("KNOWN_ZERO") + of("NONNUMERIC") = Len(rows) * m
         /\ Count(CellsOfKind(rows, {"UNKNOWN", "NULL"}))
              = Count(CellsOfKind(rows, {"UNKNOWN"})) + Count(CellsOfKind(rows, {"NULL"}))
<1> DEFINE C(K) == Count(CellsOfKind(rows, K))
<1>1. C(Kinds) = Len(rows) * m
  <2>1. CellsOfKind(rows, Kinds) = (1 .. Len(rows)) \X (1 .. m)
    <3>1. ASSUME NEW x \in (1 .. Len(rows)) \X (1 .. m) PROVE rows[x[1]][x[2]].kind \in Kinds
      <4>1. rows[x[1]][x[2]] \in Cells
        OBVIOUS
      <4> QED
        BY <4>1 DEF Cells
    <3> QED
      BY <3>1, CellsAre
  <2>2. PICK n \in Nat : n = Len(rows)
    OBVIOUS
  <2>3. Cardinality((1 .. n) \X (1 .. m)) = (n - 1 + 1) * m
    <3>1. 1 \in Int /\ n \in Int /\ 1 <= n + 1
      OBVIOUS
    <3> QED
      BY <3>1, AllCells
  <2>4. n - 1 + 1 = n
    OBVIOUS
  <2> QED
    BY <2>1, <2>2, <2>3, <2>4 DEF Count
<1>2. \A K, L : K \cap L = {} => C(K \cup L) = C(K) + C(L)
  BY KindsApart
<1>3. \A K : C(K) \in Nat
  BY CountIsBounded
<1> HIDE DEF C
<1>4. C({"MISSING", "BLANK"}) = C({"MISSING"}) + C({"BLANK"})
  <2>1. {"MISSING"} \cup {"BLANK"} = {"MISSING", "BLANK"} /\ {"MISSING"} \cap {"BLANK"} = {}
    OBVIOUS
  <2> QED
    BY <1>2, <2>1
<1>5. C({"MISSING", "BLANK", "NULL"}) = C({"MISSING", "BLANK"}) + C({"NULL"})
  <2>1. /\ {"MISSING", "BLANK"} \cup {"NULL"} = {"MISSING", "BLANK", "NULL"}
        /\ {"MISSING", "BLANK"} \cap {"NULL"} = {}
    OBVIOUS
  <2> QED
    BY <1>2, <2>1
<1>6. C({"MISSING", "BLANK", "NULL", "UNKNOWN"}) = C({"MISSING", "BLANK", "NULL"}) + C({"UNKNOWN"})
  <2>1. /\ {"MISSING", "BLANK", "NULL"} \cup {"UNKNOWN"} = {"MISSING", "BLANK", "NULL", "UNKNOWN"}
        /\ {"MISSING", "BLANK", "NULL"} \cap {"UNKNOWN"} = {}
    OBVIOUS
  <2> QED
    BY <1>2, <2>1
<1>7. C({"MISSING", "BLANK", "NULL", "UNKNOWN", "NUMERIC"})
        = C({"MISSING", "BLANK", "NULL", "UNKNOWN"}) + C({"NUMERIC"})
  <2>1. /\ {"MISSING", "BLANK", "NULL", "UNKNOWN"} \cup {"NUMERIC"}
             = {"MISSING", "BLANK", "NULL", "UNKNOWN", "NUMERIC"}
        /\ {"MISSING", "BLANK", "NULL", "UNKNOWN"} \cap {"NUMERIC"} = {}
    OBVIOUS
  <2> QED
    BY <1>2, <2>1
<1>8. C({"MISSING", "BLANK", "NULL", "UNKNOWN", "NUMERIC", "KNOWN_ZERO"})
        = C({"MISSING", "BLANK", "NULL", "UNKNOWN", "NUMERIC"}) + C({"KNOWN_ZERO"})
  <2>1. /\ {"MISSING", "BLANK", "NULL", "UNKNOWN", "NUMERIC"} \cup {"KNOWN_ZERO"}
             = {"MISSING", "BLANK", "NULL", "UNKNOWN", "NUMERIC", "KNOWN_ZERO"}
        /\ {"MISSING", "BLANK", "NULL", "UNKNOWN", "NUMERIC"} \cap {"KNOWN_ZERO"} = {}
    OBVIOUS
  <2> QED
    BY <1>2, <2>1
<1>9. C(Kinds) = C({"MISSING", "BLANK", "NULL", "UNKNOWN", "NUMERIC", "KNOWN_ZERO"}) + C({"NONNUMERIC"})
  <2>1. /\ {"MISSING", "BLANK", "NULL", "UNKNOWN", "NUMERIC", "KNOWN_ZERO"} \cup {"NONNUMERIC"} = Kinds
        /\ {"MISSING", "BLANK", "NULL", "UNKNOWN", "NUMERIC", "KNOWN_ZERO"} \cap {"NONNUMERIC"} = {}
    BY DEF Kinds
  <2> QED
    BY <1>2, <2>1
<1>10. C({"MISSING"}) + C({"BLANK"}) + C({"NULL"}) + C({"UNKNOWN"}) + C({"NUMERIC"})
        + C({"KNOWN_ZERO"}) + C({"NONNUMERIC"}) = Len(rows) * m
  BY <1>1, <1>4, <1>5, <1>6, <1>7, <1>8, <1>9
<1>11. C({"UNKNOWN", "NULL"}) = C({"UNKNOWN"}) + C({"NULL"})
  <2>1. {"UNKNOWN"} \cup {"NULL"} = {"UNKNOWN", "NULL"} /\ {"UNKNOWN"} \cap {"NULL"} = {}
    OBVIOUS
  <2> QED
    BY <1>2, <2>1
<1> QED
  BY <1>1, <1>10, <1>11 DEF C

\* The cells of some kinds that are shown are those of the rows shown.
LEMMA KindsAgree ==
  ASSUME NEW m \in Nat, m <= MaxColumns, NEW S, NEW rows \in Seq([1 .. m -> S]), NEW kinds,
         NEW k \in 0 .. Len(rows)
  PROVE  CountMatchesRows(Count(CellsOfKind(rows, kinds)), Count(CellsOfKind(SubSeq(rows, 1, k), kinds)),
                          Len(rows) - k, m)
<1>1. PICK shown : shown = SubSeq(rows, 1, k)
  OBVIOUS
<1>2. /\ shown \in Seq([1 .. m -> S]) /\ Len(shown) = k
      /\ \A r \in 1 .. k : shown[r] = rows[r]
  BY <1>1, ShownRows
<1>3. PICK T : T = CellsOfKind(shown, kinds)
  OBVIOUS
<1>4. \A x : x \in T <=> x \in (1 .. k) \X (1 .. m) /\ shown[x[1]][x[2]].kind \in kinds
  BY <1>2, <1>3, CellsAre
<1>5. PICK R : R = CellsOfKind(rows, kinds)
  OBVIOUS
<1>6. \A x : x \in R <=> x \in (1 .. Len(rows)) \X (1 .. m) /\ rows[x[1]][x[2]].kind \in kinds
  BY <1>5, CellsAre
<1>7. PICK n \in Nat : n = Len(rows)
  OBVIOUS
<1>8. ASSUME NEW x \in (1 .. k) \X (1 .. m)
      PROVE  shown[x[1]][x[2]] = rows[x[1]][x[2]] /\ x \in (1 .. Len(rows)) \X (1 .. m)
  BY <1>2, <1>7
<1>9. R \in SUBSET ((1 .. n) \X (1 .. m)) /\ T = R \cap ((1 .. k) \X (1 .. m))
  BY <1>4, <1>6, <1>7, <1>8
<1>10. /\ Cardinality(R \cap ((1 .. k) \X (1 .. m))) <= Cardinality(R)
       /\ Cardinality(R) <= Cardinality(R \cap ((1 .. k) \X (1 .. m))) + (n - k) * m
  BY <1>7, <1>9, CellsShown
<1> QED
  BY <1>1, <1>3, <1>5, <1>7, <1>9, <1>10 DEF Count, CountMatchesRows

\* The browser can read the preview of every file that was staged.
LEMMA PreviewIsReadable ==
  ASSUME NEW file, IsFile(file)
  PROVE  IsPreview(PreviewOf(file))
<1>1. PICK m \in 1 .. MaxColumns : m = Len(file.headers)
  BY DEF IsFile
<1>2. PICK rows \in Seq([1 .. m -> Cells]) : rows = file.rows
  BY <1>1 DEF IsFile
<1>3. PICK n \in Nat : n = Len(rows)
  OBVIOUS
<1>4. PICK k \in 0 .. n : k = Min2(n, RowSampleLimit)
  BY MinOf, ContractAssumption
<1>5. PICK shown : shown = SubSeq(rows, 1, k)
  OBVIOUS
<1>6. /\ shown \in Seq([1 .. m -> Cells]) /\ Len(shown) = k /\ DOMAIN shown = 1 .. k
  BY <1>3, <1>5, ShownRows
<1>7. PICK p : p = PreviewOf(file)
  OBVIOUS
<1>8. /\ p.headers = file.headers /\ p.total = n /\ p.records = shown
      /\ p.kinds = [x \in Kinds |-> Count(CellsOfKind(rows, {x}))]
  BY <1>2, <1>3, <1>4, <1>5, <1>7 DEF PreviewOf, ValueKindCounts
<1>9. m \in Nat /\ m <= MaxColumns
  BY ContractAssumption
<1>10. ASSUME NEW r \in DOMAIN p.records PROVE IsRawPayload(p.records[r], Len(p.headers))
  <2>1. PICK row \in [1 .. m -> Cells] : row = p.records[r]
    BY <1>6, <1>8
  <2>2. Len(row) = m
    BY <1>9, LenProperties
  <2>3. \A c \in 1 .. m : IsCellEvidence(row[c])
    BY DEF Cells, IsCellEvidence
  <2> QED
    BY <1>1, <1>8, <2>1, <2>2, <2>3 DEF IsRawPayload
<1>11. Count(CellsOfKind(p.records, Kinds)) = Len(p.records) * Len(p.headers)
  BY <1>1, <1>6, <1>8, <1>9, KindsAddUp
<1>12. p.kinds["MISSING"] + p.kinds["BLANK"] + p.kinds["NULL"] + p.kinds["UNKNOWN"] + p.kinds["NUMERIC"]
         + p.kinds["KNOWN_ZERO"] + p.kinds["NONNUMERIC"] = p.total * Len(p.headers)
  <2>1. \A x \in Kinds : p.kinds[x] = Count(CellsOfKind(rows, {x}))
    BY <1>8
  <2>2. Count(CellsOfKind(rows, {"MISSING"})) + Count(CellsOfKind(rows, {"BLANK"}))
          + Count(CellsOfKind(rows, {"NULL"})) + Count(CellsOfKind(rows, {"UNKNOWN"}))
          + Count(CellsOfKind(rows, {"NUMERIC"})) + Count(CellsOfKind(rows, {"KNOWN_ZERO"}))
          + Count(CellsOfKind(rows, {"NONNUMERIC"})) = Len(rows) * m
    BY <1>9, KindsAddUp
  <2>3. /\ "MISSING" \in Kinds /\ "BLANK" \in Kinds /\ "NULL" \in Kinds /\ "UNKNOWN" \in Kinds
        /\ "NUMERIC" \in Kinds /\ "KNOWN_ZERO" \in Kinds /\ "NONNUMERIC" \in Kinds
    BY DEF Kinds
  <2>4. p.total * Len(p.headers) = Len(rows) * m
    BY <1>1, <1>3, <1>8
  <2> QED
    BY <2>1, <2>2, <2>3, <2>4
<1>13. ASSUME NEW x \in Kinds
       PROVE  CountMatchesRows(p.kinds[x], Count(CellsOfKind(p.records, {x})),
                               p.total - Len(p.records), Len(p.headers))
  <2>1. k \in 0 .. Len(rows)
    BY <1>3
  <2>2. CountMatchesRows(Count(CellsOfKind(rows, {x})), Count(CellsOfKind(SubSeq(rows, 1, k), {x})),
                         Len(rows) - k, m)
    BY <1>9, <2>1, KindsAgree
  <2> QED
    BY <1>1, <1>3, <1>5, <1>6, <1>8, <2>2
<1>14. ValidHeaders(p.headers)
  BY <1>8 DEF IsFile
<1> QED
  BY <1>4, <1>6, <1>7, <1>8, <1>10, <1>11, <1>12, <1>13, <1>14 DEF IsPreview

-----------------------------------------------------------------------------
(* Mappings                                                                *)

IsMapping(file, columns, identity) ==
    /\ columns = [f \in FieldsOf(file.collection) |-> columns[f]]
    /\ \A f \in FieldsOf(file.collection) : columns[f] \in (1 .. Len(file.headers)) \cup {0}
    /\ \A f, g \in FieldsOf(file.collection) : columns[f] = columns[g] => f = g \/ columns[f] = 0
    /\ identity \in (1 .. Len(file.headers)) \cup {0}

LEMMA SuggestedIs ==
  ASSUME NEW headers, NEW f
  PROVE  Suggested(headers, f) \in DOMAIN headers \cup {0}
<1> DEFINE exact == {i \in DOMAIN headers : headers[i] = f}
           matches == IF exact # {} THEN exact ELSE AliasMatches(headers, Aliases[f])
<1>1. Suggested(headers, f) = IF Count(matches) = 1 THEN CHOOSE i \in matches : TRUE ELSE 0
  BY DEF Suggested
<1>2. matches \subseteq DOMAIN headers
  BY DEF AliasMatches
<1> HIDE DEF matches
<1>3. Count(matches) = 1 => \E i : i \in matches
  <2> SUFFICES ASSUME ~\E i : i \in matches PROVE Count(matches) # 1
    OBVIOUS
  <2>1. matches = {}
    OBVIOUS
  <2> QED
    BY <2>1, FS_EmptySet DEF Count
<1> QED
  BY <1>1, <1>2, <1>3

LEMMA WithoutReuseIs ==
  ASSUME NEW columns, NEW F, F = DOMAIN columns, NEW C, 0 \in C, \A f \in F : columns[f] \in C
  PROVE  /\ WithoutReuse(columns) = [f \in F |-> WithoutReuse(columns)[f]]
         /\ \A f \in F : WithoutReuse(columns)[f] \in C
         /\ \A f, g \in F : WithoutReuse(columns)[f] = WithoutReuse(columns)[g]
                            => f = g \/ WithoutReuse(columns)[f] = 0
         /\ (\A f, g \in F : columns[f] = columns[g] => f = g \/ columns[f] = 0)
            => \A f \in F : WithoutReuse(columns)[f] = columns[f]
<1>1. PICK w : w = WithoutReuse(columns)
  OBVIOUS
<1>2. w = [f \in F |-> IF \E g \in F \ {f} : columns[g] = columns[f] THEN 0 ELSE columns[f]]
  BY <1>1 DEF WithoutReuse
<1>3. w = [f \in F |-> w[f]]
  BY <1>2
<1>4. \A f \in F : w[f] \in C
  BY <1>2
<1>5. ASSUME NEW f \in F, NEW g \in F, w[f] = w[g], f # g PROVE w[f] = 0
  BY <1>2, <1>5
<1>6. ASSUME \A f, g \in F : columns[f] = columns[g] => f = g \/ columns[f] = 0, NEW f \in F
      PROVE  w[f] = columns[f]
  BY <1>2, <1>6
<1> QED
  BY <1>1, <1>3, <1>4, <1>5, <1>6

LEMMA ValidIsSupported ==
  ASSUME NEW file, file.collection \in DOMAIN Targets, NEW s, DOMAIN s.columns = FieldsOf(file.collection)
  PROVE  s # NoSelection /\ s.columns # <<>>
<1>1. DOMAIN s.columns # {}
  BY ContractAssumption DEF FieldsOf
<1>2. s.columns # <<>>
  BY <1>1
<1>3. NoSelection.columns = <<>>
  BY DEF NoSelection
<1> QED
  BY <1>2, <1>3

\* The mapping of an analysis draws each field from a column of its own.
LEMMA MappingIs ==
  ASSUME NEW file, IsFile(file), file.collection \in DOMAIN Targets,
         NEW s, s = NoSelection \/ ValidSelection(file, s)
  PROVE  IsMapping(file, MapFields(file, s), MapSourceIdentity(file, s))
<1> DEFINE F == FieldsOf(file.collection)
           c == [f \in F |-> IF s = NoSelection THEN Suggested(file.headers, f) ELSE s.columns[f]]
<1>1. DOMAIN file.headers = 1 .. Len(file.headers)
  BY DEF IsFile
<1>2. \A f \in F : c[f] \in (1 .. Len(file.headers)) \cup {0}
  <2>1. CASE s = NoSelection
    BY <1>1, <2>1, SuggestedIs
  <2>2. CASE ValidSelection(file, s)
    BY <1>1, <2>2, SuggestedIs DEF ValidSelection, ColumnsOf
  <2> QED
    BY <2>1, <2>2
<1>3. MapSourceIdentity(file, s) \in (1 .. Len(file.headers)) \cup {0}
  <2>1. CASE s = NoSelection
    BY <1>1, <2>1, SuggestedIs DEF MapSourceIdentity
  <2>2. CASE ValidSelection(file, s)
    BY <1>1, <2>2, SuggestedIs DEF MapSourceIdentity, ValidSelection, ColumnsOf
  <2> QED
    BY <2>1, <2>2
<1>4. MapFields(file, s) = WithoutReuse(c)
  BY DEF MapFields
<1>5. DOMAIN c = F
  OBVIOUS
<1> HIDE DEF c
<1>6. /\ WithoutReuse(c) = [f \in F |-> WithoutReuse(c)[f]]
      /\ \A f \in F : WithoutReuse(c)[f] \in (1 .. Len(file.headers)) \cup {0}
      /\ \A f, g \in F : WithoutReuse(c)[f] = WithoutReuse(c)[g] => f = g \/ WithoutReuse(c)[f] = 0
  <2>1. PICK C : C = (1 .. Len(file.headers)) \cup {0}
    OBVIOUS
  <2>2. 0 \in C /\ F = DOMAIN c /\ \A f \in F : c[f] \in C
    BY <1>2, <1>5, <2>1
  <2> HIDE DEF F
  <2>3. /\ WithoutReuse(c) = [f \in F |-> WithoutReuse(c)[f]]
        /\ \A f \in F : WithoutReuse(c)[f] \in C
        /\ \A f, g \in F : WithoutReuse(c)[f] = WithoutReuse(c)[g] => f = g \/ WithoutReuse(c)[f] = 0
    BY <2>2, WithoutReuseIs
  <2> QED
    BY <2>1, <2>3
<1> QED
  BY <1>3, <1>4, <1>6 DEF IsMapping

\* A selection the server accepts is analysed as it is.
LEMMA ValidIsKept ==
  ASSUME NEW file, IsFile(file), file.collection \in DOMAIN Targets,
         NEW s, ValidSelection(file, s), s.columns = [f \in FieldsOf(file.collection) |-> s.columns[f]]
  PROVE  s # NoSelection /\ MapFields(file, s) = s.columns /\ MapSourceIdentity(file, s) = s.identity
<1> DEFINE F == FieldsOf(file.collection)
<1>1. s # NoSelection
  BY ValidIsSupported DEF ValidSelection
<1>2. MapFields(file, s) = WithoutReuse(s.columns)
  BY <1>1 DEF MapFields
<1>3. \A f \in F : WithoutReuse(s.columns)[f] = s.columns[f]
  <2>1. /\ DOMAIN s.columns = F
        /\ \A f \in F : s.columns[f] \in (1 .. Len(file.headers)) \cup {0}
        /\ \A f, g \in F : s.columns[f] = s.columns[g] => f = g \/ s.columns[f] = 0
    BY DEF ValidSelection, IsFile, ColumnsOf
  <2> HIDE DEF F
  <2>2. PICK C : C = (1 .. Len(file.headers)) \cup {0}
    OBVIOUS
  <2>3. 0 \in C /\ F = DOMAIN s.columns /\ \A f \in F : s.columns[f] \in C
    BY <2>1, <2>2
  <2> QED
    BY <2>1, <2>3, WithoutReuseIs
<1>4. WithoutReuse(s.columns) = [f \in F |-> WithoutReuse(s.columns)[f]]
  BY DEF WithoutReuse, ValidSelection
<1>5. WithoutReuse(s.columns) = s.columns
  <2> HIDE DEF F
  <2>1. s.columns = [f \in F |-> s.columns[f]]
    BY DEF F
  <2>2. [f \in F |-> WithoutReuse(s.columns)[f]] = [f \in F |-> s.columns[f]]
    BY <1>3
  <2> QED
    BY <1>4, <2>1, <2>2
<1> QED
  BY <1>1, <1>2, <1>5 DEF MapSourceIdentity

-----------------------------------------------------------------------------
(* The data health of a file                                               *)

RowsOf(file) == 1 .. Len(file.rows)
Valid(file, columns, identity) == {r \in RowsOf(file) : RowErrors(file, columns, identity, r) = {}}
Repeated(file, columns, identity) ==
    {r \in RowsOf(file) : RowErrors(file, columns, identity, r) \cap Duplicates # {}}
AbsentAt(file, column) == {r \in RowsOf(file) : Absent(At(file.rows[r], column))}
Present(file, column) == {r \in RowsOf(file) : ~Absent(At(file.rows[r], column))}
Lacking(file, column) == {r \in RowsOf(file) : MissingForCount(At(file.rows[r], column))}
Stamped(file, column) ==
    {r \in RowsOf(file) : ~Absent(At(file.rows[r], column)) /\ Is(At(file.rows[r], column), "timestamp")}
Contactable(file, columns) ==
    {r \in RowsOf(file) : \E f \in Targets[file.collection].contact : ~Absent(At(file.rows[r], columns[f]))}

LEMMA RowsAre ==
  ASSUME NEW file, IsFile(file), NEW columns, NEW identity
  PROVE  /\ Len(file.rows) \in Nat /\ DOMAIN file.rows = RowsOf(file)
         /\ ValidateRows(file, columns, identity)
              \in Seq({[cells |-> file.rows[r], errors |-> RowErrors(file, columns, identity, r)] :
                          r \in RowsOf(file)})
         /\ Len(ValidateRows(file, columns, identity)) = Len(file.rows)
         /\ DOMAIN ValidateRows(file, columns, identity) = RowsOf(file)
         /\ \A r \in RowsOf(file) : /\ ValidateRows(file, columns, identity)[r].cells = file.rows[r]
                                    /\ ValidateRows(file, columns, identity)[r].errors
                                         = RowErrors(file, columns, identity, r)
<1> DEFINE S == {[cells |-> file.rows[r], errors |-> RowErrors(file, columns, identity, r)] : r \in RowsOf(file)}
<1>1. PICK rows : rows = ValidateRows(file, columns, identity)
  OBVIOUS
<1>2. Len(file.rows) \in Nat /\ DOMAIN file.rows = RowsOf(file)
  BY DEF IsFile, RowsOf
<1>3. rows = [r \in RowsOf(file) |-> [cells |-> file.rows[r], errors |-> RowErrors(file, columns, identity, r)]]
  BY <1>1, <1>2 DEF ValidateRows
<1>4. rows \in [1 .. Len(file.rows) -> S] /\ DOMAIN rows = RowsOf(file)
  BY <1>3 DEF RowsOf
<1>5. rows \in Seq(S) /\ Len(rows) = Len(file.rows)
  <2> HIDE DEF S
  <2> QED
    BY <1>2, <1>4
<1>6. \A r \in RowsOf(file) : /\ rows[r].cells = file.rows[r]
                              /\ rows[r].errors = RowErrors(file, columns, identity, r)
  BY <1>3
<1> QED
  BY <1>1, <1>2, <1>4, <1>5, <1>6

\* What the health counts are counts of.
HealthOf(file, columns, identity) ==
    [total |-> Len(file.rows), valid |-> Cardinality(Valid(file, columns, identity)),
     blocking |-> Len(file.rows) - Cardinality(Valid(file, columns, identity)),
     duplicates |-> Cardinality(Repeated(file, columns, identity)),
     missing |-> [f \in Targets[file.collection].important |->
         IF columns[f] = 0 THEN Len(file.rows) ELSE Cardinality(Lacking(file, columns[f]))],
     unknown |-> Count(CellsOfKind(file.rows, {"UNKNOWN", "NULL"})),
     unmappedFields |-> {f \in DOMAIN columns : columns[f] = 0},
     unmappedColumns |-> Unmapped(columns, file.headers, identity),
     timestamps |-> [f \in TimestampFields(file.collection) |->
         [covered |-> Cardinality(Stamped(file, columns[f])),
          missing |-> Cardinality(AbsentAt(file, columns[f])),
          invalid |-> Len(file.rows) - Cardinality(Stamped(file, columns[f]))
                        - Cardinality(AbsentAt(file, columns[f]))]],
     identified |-> Cardinality(Present(file, identity)),
     contactable |-> Cardinality(Contactable(file, columns))]

LEMMA HealthIs ==
  ASSUME NEW file, IsFile(file), NEW columns, NEW identity
  PROVE  BuildDataHealth(file, ValidateRows(file, columns, identity), columns, identity)
           = HealthOf(file, columns, identity)
<1>1. PICK rows : rows = ValidateRows(file, columns, identity)
  OBVIOUS
<1>2. PICK R : R = RowsOf(file)
  OBVIOUS
<1>3. /\ Len(rows) = Len(file.rows) /\ DOMAIN rows = R
      /\ \A r \in R : /\ rows[r].cells = file.rows[r]
                      /\ rows[r].errors = RowErrors(file, columns, identity, r)
  BY <1>1, <1>2, RowsAre
<1>4. {r \in DOMAIN rows : rows[r].errors = {}} = Valid(file, columns, identity)
  BY <1>2, <1>3 DEF Valid
<1>5. {r \in DOMAIN rows : rows[r].errors \cap Duplicates # {}} = Repeated(file, columns, identity)
  BY <1>2, <1>3 DEF Repeated
<1>6. {r \in DOMAIN rows : ~Absent(At(rows[r].cells, identity))} = Present(file, identity)
  BY <1>2, <1>3 DEF Present
<1>7. {r \in DOMAIN rows : \E f \in Targets[file.collection].contact : ~Absent(At(rows[r].cells, columns[f]))}
        = Contactable(file, columns)
  BY <1>2, <1>3 DEF Contactable
<1>8. ASSUME NEW c
      PROVE  /\ {r \in DOMAIN rows : MissingForCount(At(rows[r].cells, c))} = Lacking(file, c)
             /\ {r \in DOMAIN rows : ~Absent(At(rows[r].cells, c)) /\ Is(At(rows[r].cells, c), "timestamp")}
                  = Stamped(file, c)
             /\ {r \in DOMAIN rows : Absent(At(rows[r].cells, c))} = AbsentAt(file, c)
  BY <1>2, <1>3 DEF Lacking, Stamped, AbsentAt
<1>9. ASSUME NEW c
      PROVE  TimestampCoverage(rows, c) =
               [covered |-> Cardinality(Stamped(file, c)), missing |-> Cardinality(AbsentAt(file, c)),
                invalid |-> Len(file.rows) - Cardinality(Stamped(file, c)) - Cardinality(AbsentAt(file, c))]
  BY <1>3, <1>8, Zenon DEF TimestampCoverage, RowsWhere, Count
<1>10. [f \in TimestampFields(file.collection) |-> TimestampCoverage(rows, columns[f])]
         = [f \in TimestampFields(file.collection) |->
                [covered |-> Cardinality(Stamped(file, columns[f])),
                 missing |-> Cardinality(AbsentAt(file, columns[f])),
                 invalid |-> Len(file.rows) - Cardinality(Stamped(file, columns[f]))
                               - Cardinality(AbsentAt(file, columns[f]))]]
  BY <1>9, Zenon
<1>11. [f \in Targets[file.collection].important |->
            IF columns[f] = 0 THEN Len(rows)
            ELSE Cardinality({r \in DOMAIN rows : MissingForCount(At(rows[r].cells, columns[f]))})]
         = [f \in Targets[file.collection].important |->
                IF columns[f] = 0 THEN Len(file.rows) ELSE Cardinality(Lacking(file, columns[f]))]
  BY <1>3, <1>8, Zenon
<1>12. BuildDataHealth(file, rows, columns, identity) =
      [total |-> Len(rows), valid |-> Cardinality({r \in DOMAIN rows : rows[r].errors = {}}),
            blocking |-> Len(rows) - Cardinality({r \in DOMAIN rows : rows[r].errors = {}}),
            duplicates |-> Cardinality({r \in DOMAIN rows : rows[r].errors \cap Duplicates # {}}),
            missing |-> [f \in Targets[file.collection].important |->
                IF columns[f] = 0 THEN Len(rows)
                ELSE Cardinality({r \in DOMAIN rows : MissingForCount(At(rows[r].cells, columns[f]))})],
            unknown |-> Count(CellsOfKind(file.rows, {"UNKNOWN", "NULL"})),
            unmappedFields |-> {f \in DOMAIN columns : columns[f] = 0},
            unmappedColumns |-> Unmapped(columns, file.headers, identity),
            timestamps |-> [f \in TimestampFields(file.collection) |-> TimestampCoverage(rows, columns[f])],
            identified |-> Cardinality({r \in DOMAIN rows : ~Absent(At(rows[r].cells, identity))}),
            contactable |-> Cardinality({r \in DOMAIN rows : \E f \in Targets[file.collection].contact :
                                            ~Absent(At(rows[r].cells, columns[f]))})]
  BY Zenon DEF BuildDataHealth, RowsWhere, Count
<1> QED
  BY <1>1, <1>3, <1>4, <1>5, <1>6, <1>7, <1>10, <1>11, <1>12, Zenon DEF HealthOf

AnalysisOf(file, columns, identity) ==
    [status |-> "DRAFT", collection |-> file.collection, columns |-> columns, identity |-> identity,
     samples |-> [f \in DOMAIN columns |-> Samples(file.rows, columns[f])],
     unmapped |-> Unmapped(columns, file.headers, identity),
     rows |-> SubSeq(ValidateRows(file, columns, identity), 1, Min2(Len(file.rows), RowSampleLimit)),
     health |-> HealthOf(file, columns, identity)]

LEMMA AnalyzeIs ==
  ASSUME NEW file, IsFile(file), file.collection \in DOMAIN Targets, NEW s
  PROVE  Analyze(file, s) = AnalysisOf(file, MapFields(file, s), MapSourceIdentity(file, s))
<1>1. PICK columns : columns = MapFields(file, s)
  OBVIOUS
<1>2. PICK identity : identity = MapSourceIdentity(file, s)
  OBVIOUS
<1>3. Len(ValidateRows(file, columns, identity)) = Len(file.rows)
  BY RowsAre
<1>4. BuildDataHealth(file, ValidateRows(file, columns, identity), columns, identity)
        = HealthOf(file, columns, identity)
  BY HealthIs
<1>5. Analyze(file, s) = AnalysisOf(file, columns, identity)
  BY <1>1, <1>2, <1>3, <1>4 DEF Analyze, BuildImportAnalysis, AnalysisOf
<1> QED
  BY <1>1, <1>2, <1>5

LEMMA RowsAgree ==
  ASSUME NEW n \in Nat, NEW k \in 0 .. n, NEW R \in SUBSET (1 .. n)
  PROVE  /\ CountMatchesRows(Cardinality(R), Cardinality(R \cap (1 .. k)), n - k, 1)
         /\ CountMatchesRows(n - Cardinality(R), k - Cardinality(R \cap (1 .. k)), n - k, 1)
         /\ Cardinality(R) \in 0 .. n
<1>1. PICK x \in 0 .. n : x = Cardinality(R)
  BY CountShown
<1>2. PICK y \in 0 .. k : y = Cardinality(R \cap (1 .. k))
  BY CountShown
<1>3. y <= x /\ x <= y + (n - k)
  BY <1>1, <1>2, CountShown
<1>4. CountMatchesRows(x, y, n - k, 1) /\ CountMatchesRows(n - x, k - y, n - k, 1)
  BY <1>3 DEF CountMatchesRows
<1> QED
  BY <1>1, <1>2, <1>4

\* The rows that are in neither of two sets.
LEMMA RestAgrees ==
  ASSUME NEW n \in Nat, NEW k \in 0 .. n, NEW R \in SUBSET (1 .. n), NEW T \in SUBSET (1 .. n),
         R \cap T = {}
  PROVE  CountMatchesRows(n - Cardinality(R) - Cardinality(T),
             k - Cardinality(R \cap (1 .. k)) - Cardinality(T \cap (1 .. k)), n - k, 1)
<1>1. PICK U \in SUBSET (1 .. n) : U = R \cup T
  OBVIOUS
<1>2. Cardinality(U) = Cardinality(R) + Cardinality(T)
  BY <1>1, CountApart
<1>3. Cardinality(U \cap (1 .. k)) = Cardinality(R \cap (1 .. k)) + Cardinality(T \cap (1 .. k))
  <2>1. PICK X \in SUBSET (1 .. k) : X = R \cap (1 .. k)
    OBVIOUS
  <2>2. PICK Y \in SUBSET (1 .. k) : Y = T \cap (1 .. k)
    OBVIOUS
  <2>3. U \cap (1 .. k) = X \cup Y /\ X \cap Y = {}
    BY <1>1, <2>1, <2>2
  <2>4. k \in Nat
    OBVIOUS
  <2> QED
    BY <2>1, <2>2, <2>3, <2>4, CountApart
<1>4. CountMatchesRows(n - Cardinality(U), k - Cardinality(U \cap (1 .. k)), n - k, 1)
  BY RowsAgree
<1>5. /\ Cardinality(R) \in Nat /\ Cardinality(T) \in Nat
      /\ Cardinality(R \cap (1 .. k)) \in Nat /\ Cardinality(T \cap (1 .. k)) \in Nat
  <2>1. Cardinality(R) \in 0 .. n /\ Cardinality(R \cap (1 .. k)) \in 0 .. k
    BY CountShown
  <2>2. Cardinality(T) \in 0 .. n /\ Cardinality(T \cap (1 .. k)) \in 0 .. k
    BY CountShown
  <2> QED
    BY <2>1, <2>2
<1>6. /\ n - Cardinality(U) = n - Cardinality(R) - Cardinality(T)
      /\ k - Cardinality(U \cap (1 .. k)) = k - Cardinality(R \cap (1 .. k)) - Cardinality(T \cap (1 .. k))
  BY <1>2, <1>3, <1>5
<1> QED
  BY <1>4, <1>6

\* The counts of an analysis are consistent with each other.
LEMMA HealthIsCoherent ==
  ASSUME NEW file, IsFile(file), NEW columns, NEW identity, NEW h, h = HealthOf(file, columns, identity)
  PROVE  IsDataHealth(h, Len(file.headers))
<1>1. PICK n \in Nat : n = Len(file.rows)
  BY RowsAre
<1>2. /\ Valid(file, columns, identity) \in SUBSET (1 .. n)
      /\ Repeated(file, columns, identity) \in SUBSET (1 .. n)
      /\ Present(file, identity) \in SUBSET (1 .. n)
      /\ Contactable(file, columns) \in SUBSET (1 .. n)
  BY <1>1 DEF Valid, Repeated, Present, Contactable, RowsOf
<1>3. \A R \in SUBSET (1 .. n) : Cardinality(R) \in 0 .. n
  BY <1>1, RowsAgree
<1>4. h.valid + h.blocking = h.total
  <2>1. Cardinality(Valid(file, columns, identity)) \in 0 .. n
    BY <1>2, <1>3
  <2> QED
    BY <1>1, <2>1 DEF HealthOf
<1>5. h.duplicates <= h.blocking
  <2>1. Valid(file, columns, identity) \cap Repeated(file, columns, identity) = {}
    BY DEF Valid, Repeated
  <2>2. Cardinality(Valid(file, columns, identity)) + Cardinality(Repeated(file, columns, identity)) <= n
    BY <1>2, <2>1, CountApart
  <2>3. /\ Cardinality(Valid(file, columns, identity)) \in 0 .. n
        /\ Cardinality(Repeated(file, columns, identity)) \in 0 .. n
    BY <1>2, <1>3
  <2> QED
    BY <1>1, <2>2, <2>3 DEF HealthOf
<1>6. h.identified <= h.total /\ h.contactable <= h.total
  <2>1. Cardinality(Present(file, identity)) \in 0 .. n /\ Cardinality(Contactable(file, columns)) \in 0 .. n
    BY <1>2, <1>3
  <2> QED
    BY <1>1, <2>1 DEF HealthOf
<1>7. h.unknown <= h.total * Len(file.headers)
  <2>1. PICK m \in Nat : m = Len(file.headers) /\ m <= MaxColumns /\ file.rows \in Seq([1 .. m -> Cells])
    <3>1. Len(file.headers) \in Nat /\ Len(file.headers) <= MaxColumns
      BY ContractAssumption DEF IsFile
    <3> QED
      BY <3>1 DEF IsFile
  <2>2. Count(CellsOfKind(file.rows, {"UNKNOWN", "NULL"})) <= Len(file.rows) * m
    BY <2>1, CountIsBounded
  <2> QED
    BY <2>1, <2>2 DEF HealthOf
<1>8. ASSUME NEW f \in DOMAIN h.missing PROVE h.missing[f] <= h.total
  <2>1. Lacking(file, columns[f]) \in SUBSET (1 .. n)
    BY <1>1 DEF Lacking, RowsOf
  <2>2. Cardinality(Lacking(file, columns[f])) \in 0 .. n
    BY <1>3, <2>1
  <2>3. h.missing[f] = IF columns[f] = 0 THEN Len(file.rows) ELSE Cardinality(Lacking(file, columns[f]))
    BY DEF HealthOf
  <2> QED
    BY <1>1, <2>2, <2>3 DEF HealthOf
<1>9. ASSUME NEW f \in DOMAIN h.timestamps
      PROVE  h.timestamps[f].covered + h.timestamps[f].invalid + h.timestamps[f].missing = h.total
  <2>1. Stamped(file, columns[f]) \in SUBSET (1 .. n) /\ AbsentAt(file, columns[f]) \in SUBSET (1 .. n)
    BY <1>1 DEF Stamped, AbsentAt, RowsOf
  <2>2. /\ Cardinality(Stamped(file, columns[f])) \in 0 .. n
        /\ Cardinality(AbsentAt(file, columns[f])) \in 0 .. n
    BY <1>3, <2>1
  <2>3. h.timestamps[f] = [covered |-> Cardinality(Stamped(file, columns[f])),
                           missing |-> Cardinality(AbsentAt(file, columns[f])),
                           invalid |-> Len(file.rows) - Cardinality(Stamped(file, columns[f]))
                                         - Cardinality(AbsentAt(file, columns[f]))]
    BY DEF HealthOf
  <2>4. h.total = n
    BY <1>1 DEF HealthOf
  <2> QED
    BY <1>1, <2>2, <2>3, <2>4
<1> QED
  BY <1>4, <1>5, <1>6, <1>7, <1>8, <1>9 DEF IsDataHealth

-----------------------------------------------------------------------------
(* An analysis is readable                                                 *)

\* The rows of an analysis are the first rows of the file.
LEMMA AnalysedRows ==
  ASSUME NEW file, IsFile(file), NEW columns, NEW identity, NEW a, a = AnalysisOf(file, columns, identity)
  PROVE  \E k \in 0 .. Len(file.rows) :
           /\ k = Min2(Len(file.rows), RowSampleLimit)
           /\ Len(a.rows) = k /\ DOMAIN a.rows = 1 .. k
           /\ \A r \in 1 .. k : /\ r \in RowsOf(file)
                                /\ a.rows[r].cells = file.rows[r]
                                /\ a.rows[r].errors = RowErrors(file, columns, identity, r)
           /\ DOMAIN PreviewOf(file).records = 1 .. k
           /\ \A r \in 1 .. k : PreviewOf(file).records[r] = file.rows[r]
<1>1. PICK n \in Nat : n = Len(file.rows)
  BY RowsAre
<1>2. PICK k \in 0 .. n : k = Min2(n, RowSampleLimit)
  BY MinOf, ContractAssumption
<1>3. PICK rows : rows = ValidateRows(file, columns, identity)
  OBVIOUS
<1>4. PICK S : rows \in Seq(S)
  BY <1>3, RowsAre
<1>5. /\ Len(rows) = n
      /\ \A r \in RowsOf(file) : /\ rows[r].cells = file.rows[r]
                                 /\ rows[r].errors = RowErrors(file, columns, identity, r)
  BY <1>1, <1>3, RowsAre
<1>6. PICK shown : shown = SubSeq(rows, 1, k)
  OBVIOUS
<1>7. Len(shown) = k /\ DOMAIN shown = 1 .. k /\ \A r \in 1 .. k : shown[r] = rows[r]
  BY <1>4, <1>5, <1>6, ShownRows
<1>8. a.rows = shown
  BY <1>1, <1>2, <1>3, <1>6 DEF AnalysisOf
<1>9. \A r \in 1 .. k : r \in RowsOf(file)
  BY <1>1 DEF RowsOf
<1>10. PICK T : file.rows \in Seq(T)
  BY DEF IsFile
<1>11. PICK records : records = SubSeq(file.rows, 1, k)
  OBVIOUS
<1>12. DOMAIN records = 1 .. k /\ \A r \in 1 .. k : records[r] = file.rows[r]
  BY <1>1, <1>10, <1>11, ShownRows
<1>13. PreviewOf(file).records = records
  BY <1>1, <1>2, <1>11 DEF PreviewOf
<1> QED
  BY <1>1, <1>2, <1>5, <1>7, <1>8, <1>9, <1>12, <1>13

LEMMA MappingIsRead ==
  ASSUME NEW file, IsFile(file), file.collection \in DOMAIN Targets, NEW columns, NEW identity,
         IsMapping(file, columns, identity), NEW a, a = AnalysisOf(file, columns, identity)
  PROVE  MappingIsWhole(a, file.headers)
<1>1. PICK n \in Nat : n = Len(file.rows)
  BY RowsAre
<1>2. PICK k \in 0 .. n :
        /\ k = Min2(n, RowSampleLimit) /\ DOMAIN a.rows = 1 .. k
        /\ \A r \in 1 .. k : a.rows[r].cells = file.rows[r]
  BY <1>1, AnalysedRows
<1>3. PICK l \in 0 .. k : l = Min2(n, FieldSampleLimit)
  <2>1. FieldSampleLimit \in Nat /\ FieldSampleLimit <= RowSampleLimit /\ RowSampleLimit \in Nat
    BY ContractAssumption
  <2> QED
    BY <1>2, <2>1 DEF Min2
<1>4. /\ DOMAIN columns = FieldsOf(file.collection)
      /\ \A f \in DOMAIN columns : columns[f] \in (1 .. Len(file.headers)) \cup {0}
  BY DEF IsMapping
<1>5. /\ a.collection = file.collection /\ a.columns = columns /\ a.identity = identity
      /\ a.samples = [f \in DOMAIN columns |-> Samples(file.rows, columns[f])]
      /\ a.unmapped = Unmapped(columns, file.headers, identity)
      /\ a.health = HealthOf(file, columns, identity)
  BY DEF AnalysisOf
<1>6. DOMAIN file.headers = 1 .. Len(file.headers)
  BY DEF IsFile
<1>7. a.health.total = n
  BY <1>1, <1>5 DEF HealthOf
<1>8. ASSUME NEW f \in DOMAIN columns PROVE IsMappingField(a, f)
  <2>1. a.samples[f] = Samples(file.rows, columns[f])
    BY <1>5
  <2>2. CASE columns[f] = 0
    <3>1. a.samples[f] = <<>>
      BY <2>1, <2>2 DEF Samples
    <3> QED
      BY <1>5, <2>2, <3>1 DEF IsMappingField, SamplesMatchRows
  <2>3. CASE columns[f] # 0
    <3>1. a.samples[f] = [r \in 1 .. l |-> file.rows[r][columns[f]]]
      BY <1>1, <1>3, <2>1, <2>3 DEF Samples
    <3>2. Len(a.samples[f]) = l
      <4>1. PICK q : q = a.samples[f]
        OBVIOUS
      <4>2. q \in Seq({file.rows[r][columns[f]] : r \in 1 .. l})
        BY <1>3, <3>1, <4>1
      <4>3. DOMAIN q = 1 .. l /\ l \in Nat
        BY <1>3, <3>1, <4>1
      <4> QED
        BY <4>1, <4>2, <4>3, LenProperties
    <3>3. ASSUME NEW r \in DOMAIN a.samples[f]
          PROVE  r \in DOMAIN a.rows /\ a.samples[f][r] = a.rows[r].cells[columns[f]]
      BY <1>2, <1>3, <3>1
    <3> QED
      BY <1>3, <1>5, <1>7, <2>3, <3>2, <3>3 DEF IsMappingField, SamplesMatchRows
  <2> QED
    BY <2>2, <2>3
<1>9. \A f, g \in DOMAIN columns : columns[f] = columns[g] => f = g \/ columns[f] = 0
  BY <1>4 DEF IsMapping
<1>10. identity \in (1 .. Len(file.headers)) \cup {0}
  BY DEF IsMapping
<1>11. a.unmapped = (DOMAIN file.headers) \ ({columns[f] : f \in DOMAIN columns} \cup {identity})
  BY <1>5 DEF Unmapped
<1>12. /\ a.health.unmappedColumns = a.unmapped
       /\ a.health.unmappedFields = {f \in DOMAIN columns : columns[f] = 0}
       /\ DOMAIN a.health.missing = Targets[file.collection].important
       /\ DOMAIN a.health.timestamps = TimestampFields(file.collection)
  BY <1>5 DEF HealthOf
<1>13. TimestampFields(file.collection) = {f \in DOMAIN columns : Def(file.collection, f).type = "TIMESTAMP"}
  BY <1>4 DEF TimestampFields
<1>14. DOMAIN columns = DOMAIN Targets[file.collection].fields
  BY <1>4 DEF FieldsOf
<1> QED
  BY <1>4, <1>5, <1>6, <1>8, <1>9, <1>10, <1>11, <1>12, <1>13, <1>14 DEF MappingIsWhole

\* The browser looks at a cell as the server does.
LEMMA SameLook ==
  ASSUME NEW row, NEW c
  PROVE  /\ IsAbsent(CellAt(row, c)) <=> Absent(At(row.cells, c))
         /\ IsMissingForCount(CellAt(row, c)) <=> MissingForCount(At(row.cells, c))
         /\ CellAt(row, c) = At(row.cells, c)
  BY DEF IsAbsent, CellAt, Absent, At, IsMissingForCount, MissingForCount

\* A field that is not mapped is absent everywhere.
LEMMA Unmapped0 ==
  ASSUME NEW file
  PROVE  /\ AbsentAt(file, 0) = RowsOf(file) /\ Present(file, 0) = {} /\ Stamped(file, 0) = {}
<1>1. \A row : Absent(At(row, 0))
  BY DEF Absent, At, MissingCell
<1> QED
  BY <1>1 DEF AbsentAt, Present, Stamped

\* What the browser counts in the rows shown, of the sets the server counts.
Counted(file, columns, identity, rows, k) ==
    /\ {r \in DOMAIN rows : rows[r].errors = {}} = Valid(file, columns, identity) \cap (1 .. k)
    /\ {r \in DOMAIN rows : rows[r].errors \cap Duplicates # {}}
         = Repeated(file, columns, identity) \cap (1 .. k)
    /\ \A c : /\ {r \in DOMAIN rows : IsMissingForCount(CellAt(rows[r], c))} = Lacking(file, c) \cap (1 .. k)
              /\ {r \in DOMAIN rows : IsAbsent(CellAt(rows[r], c))} = AbsentAt(file, c) \cap (1 .. k)
              /\ {r \in DOMAIN rows : ~IsAbsent(CellAt(rows[r], c))} = Present(file, c) \cap (1 .. k)
              /\ {r \in DOMAIN rows : ~IsAbsent(CellAt(rows[r], c)) /\ Is(CellAt(rows[r], c), "timestamp")}
                   = Stamped(file, c) \cap (1 .. k)
    /\ {r \in DOMAIN rows : \E f \in Targets[file.collection].contact : ~IsAbsent(CellAt(rows[r], columns[f]))}
         = Contactable(file, columns) \cap (1 .. k)

LEMMA ShownCounts ==
  ASSUME NEW file, IsFile(file), NEW columns, NEW identity, NEW rows, NEW k \in 0 .. Len(file.rows),
         DOMAIN rows = 1 .. k,
         \A r \in 1 .. k : /\ r \in RowsOf(file) /\ rows[r].cells = file.rows[r]
                           /\ rows[r].errors = RowErrors(file, columns, identity, r)
  PROVE  Counted(file, columns, identity, rows, k)
<1>1. {r \in DOMAIN rows : rows[r].errors = {}} = Valid(file, columns, identity) \cap (1 .. k)
  BY DEF Valid
<1>2. {r \in DOMAIN rows : rows[r].errors \cap Duplicates # {}} = Repeated(file, columns, identity) \cap (1 .. k)
  BY DEF Repeated
<1>3. ASSUME NEW r \in 1 .. k, NEW c
      PROVE  /\ IsAbsent(CellAt(rows[r], c)) <=> Absent(At(file.rows[r], c))
             /\ IsMissingForCount(CellAt(rows[r], c)) <=> MissingForCount(At(file.rows[r], c))
             /\ CellAt(rows[r], c) = At(file.rows[r], c)
  BY SameLook
<1>4. ASSUME NEW c
      PROVE  /\ {r \in DOMAIN rows : IsMissingForCount(CellAt(rows[r], c))} = Lacking(file, c) \cap (1 .. k)
             /\ {r \in DOMAIN rows : IsAbsent(CellAt(rows[r], c))} = AbsentAt(file, c) \cap (1 .. k)
             /\ {r \in DOMAIN rows : ~IsAbsent(CellAt(rows[r], c))} = Present(file, c) \cap (1 .. k)
             /\ {r \in DOMAIN rows : ~IsAbsent(CellAt(rows[r], c)) /\ Is(CellAt(rows[r], c), "timestamp")}
                  = Stamped(file, c) \cap (1 .. k)
  BY <1>3 DEF Lacking, AbsentAt, Present, Stamped
<1>5. {r \in DOMAIN rows : \E f \in Targets[file.collection].contact : ~IsAbsent(CellAt(rows[r], columns[f]))}
        = Contactable(file, columns) \cap (1 .. k)
  BY <1>3 DEF Contactable
<1> QED
  BY <1>1, <1>2, <1>4, <1>5, Zenon DEF Counted

LEMMA EvidenceIsCoherent ==
  ASSUME NEW file, IsFile(file), file.collection \in DOMAIN Targets, NEW columns, NEW identity,
         IsMapping(file, columns, identity), NEW a, a = AnalysisOf(file, columns, identity)
  PROVE  AnalysisEvidenceIsCoherent(a, PreviewOf(file))
<1>1. PICK n \in Nat : n = Len(file.rows)
  BY RowsAre
<1>2. PICK k \in 0 .. n :
        /\ DOMAIN a.rows = 1 .. k /\ Len(a.rows) = k
        /\ \A r \in 1 .. k : /\ r \in RowsOf(file)
                             /\ a.rows[r].cells = file.rows[r]
                             /\ a.rows[r].errors = RowErrors(file, columns, identity, r)
        /\ DOMAIN PreviewOf(file).records = 1 .. k
        /\ \A r \in 1 .. k : PreviewOf(file).records[r] = file.rows[r]
  BY <1>1, AnalysedRows
<1>3. PICK rows : rows = a.rows
  OBVIOUS
<1>4. Counted(file, columns, identity, rows, k)
  <2>1. /\ k \in 0 .. Len(file.rows) /\ DOMAIN rows = 1 .. k
        /\ \A r \in 1 .. k : /\ r \in RowsOf(file) /\ rows[r].cells = file.rows[r]
                             /\ rows[r].errors = RowErrors(file, columns, identity, r)
    BY <1>1, <1>2, <1>3
  <2> QED
    BY <2>1, ShownCounts
<1>5. /\ a.collection = file.collection /\ a.columns = columns /\ a.identity = identity
      /\ a.health = HealthOf(file, columns, identity)
  BY DEF AnalysisOf
<1>6. /\ Valid(file, columns, identity) \in SUBSET (1 .. n) /\ Repeated(file, columns, identity) \in SUBSET (1 .. n)
      /\ Contactable(file, columns) \in SUBSET (1 .. n)
      /\ \A c : /\ Lacking(file, c) \in SUBSET (1 .. n) /\ AbsentAt(file, c) \in SUBSET (1 .. n)
                /\ Present(file, c) \in SUBSET (1 .. n) /\ Stamped(file, c) \in SUBSET (1 .. n)
                /\ Stamped(file, c) \cap AbsentAt(file, c) = {}
  BY <1>1 DEF Valid, Repeated, Contactable, Lacking, AbsentAt, Present, Stamped, RowsOf
<1> DEFINE agrees(count, shown) == CountMatchesRows(count, shown, n - k, 1)
<1>7. \A R \in SUBSET (1 .. n) :
        /\ agrees(Cardinality(R), Cardinality(R \cap (1 .. k)))
        /\ agrees(n - Cardinality(R), k - Cardinality(R \cap (1 .. k)))
  BY <1>1, RowsAgree
<1>8. a.health.total = n
  BY <1>1, <1>5 DEF HealthOf
<1>9. \A r \in DOMAIN a.rows : r \in DOMAIN PreviewOf(file).records /\ a.rows[r].cells = PreviewOf(file).records[r]
  BY <1>2
<1>10. agrees(a.health.valid, Cardinality({r \in DOMAIN a.rows : a.rows[r].errors = {}}))
  BY <1>3, <1>4, <1>5, <1>6, <1>7 DEF HealthOf, Counted
<1>11. agrees(a.health.blocking, Len(a.rows) - Cardinality({r \in DOMAIN a.rows : a.rows[r].errors = {}}))
  <2>1. a.health.blocking = n - Cardinality(Valid(file, columns, identity))
    BY <1>1, <1>5 DEF HealthOf
  <2>2. {r \in DOMAIN a.rows : a.rows[r].errors = {}} = Valid(file, columns, identity) \cap (1 .. k)
    BY <1>3, <1>4, Zenon DEF Counted
  <2>3. agrees(n - Cardinality(Valid(file, columns, identity)),
               k - Cardinality(Valid(file, columns, identity) \cap (1 .. k)))
    BY <1>6, <1>7
  <2> HIDE DEF agrees
  <2> QED
    BY <1>2, <2>1, <2>2, <2>3, Zenon
<1>12. agrees(a.health.duplicates, Cardinality({r \in DOMAIN a.rows : a.rows[r].errors \cap Duplicates # {}}))
  BY <1>3, <1>4, <1>5, <1>6, <1>7 DEF HealthOf, Counted
<1>13. a.health.unknown = PreviewOf(file).kinds["UNKNOWN"] + PreviewOf(file).kinds["NULL"]
  <2>1. PICK m \in Nat : m = Len(file.headers) /\ m <= MaxColumns /\ file.rows \in Seq([1 .. m -> Cells])
    <3>1. Len(file.headers) \in Nat /\ Len(file.headers) <= MaxColumns
      BY ContractAssumption DEF IsFile
    <3> QED
      BY <3>1 DEF IsFile
  <2>3. Count(CellsOfKind(file.rows, {"UNKNOWN", "NULL"}))
          = Count(CellsOfKind(file.rows, {"UNKNOWN"})) + Count(CellsOfKind(file.rows, {"NULL"}))
    <3>1. PICK cells \in Seq([1 .. m -> Cells]) : cells = file.rows
      BY <2>1
    <3>2. Count(CellsOfKind(cells, {"UNKNOWN", "NULL"}))
            = Count(CellsOfKind(cells, {"UNKNOWN"})) + Count(CellsOfKind(cells, {"NULL"}))
      BY <2>1, KindsAddUp
    <3> QED
      BY <3>1, <3>2
  <2>4. /\ PreviewOf(file).kinds["UNKNOWN"] = Count(CellsOfKind(file.rows, {"UNKNOWN"}))
        /\ PreviewOf(file).kinds["NULL"] = Count(CellsOfKind(file.rows, {"NULL"}))
    BY DEF PreviewOf, ValueKindCounts, Kinds
  <2>5. a.health.unknown = Count(CellsOfKind(file.rows, {"UNKNOWN", "NULL"}))
    BY <1>5 DEF HealthOf
  <2> QED
    BY <2>3, <2>4, <2>5, Zenon
<1>14. ASSUME NEW f \in DOMAIN a.health.missing
       PROVE  IF a.columns[f] # 0
              THEN agrees(a.health.missing[f],
                          Cardinality({r \in DOMAIN a.rows : IsMissingForCount(CellAt(a.rows[r], a.columns[f]))}))
              ELSE a.health.missing[f] = a.health.total
  <2>1. a.health.missing[f] = IF columns[f] = 0 THEN n ELSE Cardinality(Lacking(file, columns[f]))
    BY <1>1, <1>5 DEF HealthOf
  <2>2. {r \in DOMAIN rows : IsMissingForCount(CellAt(rows[r], columns[f]))} = Lacking(file, columns[f]) \cap (1 .. k)
    BY <1>4, Zenon DEF Counted
  <2>3. agrees(Cardinality(Lacking(file, columns[f])), Cardinality(Lacking(file, columns[f]) \cap (1 .. k)))
    BY <1>6, <1>7
  <2> QED
    BY <1>3, <1>5, <1>8, <2>1, <2>2, <2>3
<1>15. IF a.identity # 0
       THEN agrees(a.health.identified,
                   Cardinality({r \in DOMAIN a.rows : ~IsAbsent(CellAt(a.rows[r], a.identity))}))
       ELSE a.health.identified = 0
  <2>1. a.health.identified = Cardinality(Present(file, identity))
    BY <1>5 DEF HealthOf
  <2>2. identity = 0 => a.health.identified = 0
    BY <2>1, Unmapped0, FS_EmptySet
  <2>3. {r \in DOMAIN rows : ~IsAbsent(CellAt(rows[r], identity))} = Present(file, identity) \cap (1 .. k)
    BY <1>4, Zenon DEF Counted
  <2>4. agrees(Cardinality(Present(file, identity)), Cardinality(Present(file, identity) \cap (1 .. k)))
    BY <1>6, <1>7
  <2> QED
    BY <1>3, <1>5, <2>1, <2>2, <2>3, <2>4
<1>16. ASSUME NEW f \in DOMAIN a.health.timestamps, NEW x \in {"covered", "missing", "invalid"}
       PROVE  LET count == a.health.timestamps[f][x]
                  shown == ShownTimestamps(a, a.columns[f])[x]
              IN IF a.columns[f] # 0 THEN agrees(count, shown)
                 ELSE count = IF x = "missing" THEN a.health.total ELSE 0
  <2>1. PICK c : c = columns[f]
    OBVIOUS
  <2>2. PICK X \in SUBSET (1 .. n) : X = Stamped(file, c)
    BY <1>6
  <2>3. PICK Y \in SUBSET (1 .. n) : Y = AbsentAt(file, c)
    BY <1>6
  <2>4. X \cap Y = {}
    BY <1>6, <2>2, <2>3
  <2>5. a.health.timestamps[f] = [covered |-> Cardinality(X), missing |-> Cardinality(Y),
                                  invalid |-> n - Cardinality(X) - Cardinality(Y)]
    BY <1>1, <1>5, <2>1, <2>2, <2>3 DEF HealthOf
  <2>6. /\ {r \in DOMAIN a.rows : IsAbsent(CellAt(a.rows[r], c))} = Y \cap (1 .. k)
        /\ {r \in DOMAIN a.rows : ~IsAbsent(CellAt(a.rows[r], c)) /\ Is(CellAt(a.rows[r], c), "timestamp")}
             = X \cap (1 .. k)
    <3>1. /\ {r \in DOMAIN rows : IsAbsent(CellAt(rows[r], c))} = AbsentAt(file, c) \cap (1 .. k)
          /\ {r \in DOMAIN rows : ~IsAbsent(CellAt(rows[r], c)) /\ Is(CellAt(rows[r], c), "timestamp")}
               = Stamped(file, c) \cap (1 .. k)
      BY <1>4, Zenon DEF Counted
    <3> QED
      BY <1>3, <2>2, <2>3, <3>1, Zenon
  <2>7. ShownTimestamps(a, c) =
          [covered |-> Cardinality({r \in DOMAIN a.rows :
                          ~IsAbsent(CellAt(a.rows[r], c)) /\ Is(CellAt(a.rows[r], c), "timestamp")}),
           missing |-> Cardinality({r \in DOMAIN a.rows : IsAbsent(CellAt(a.rows[r], c))}),
           invalid |-> Len(a.rows)
             - Cardinality({r \in DOMAIN a.rows :
                          ~IsAbsent(CellAt(a.rows[r], c)) /\ Is(CellAt(a.rows[r], c), "timestamp")})
             - Cardinality({r \in DOMAIN a.rows : IsAbsent(CellAt(a.rows[r], c))})]
    BY Zenon DEF ShownTimestamps, RowsWhere, Count
  <2>8. ShownTimestamps(a, c) =
          [covered |-> Cardinality(X \cap (1 .. k)), missing |-> Cardinality(Y \cap (1 .. k)),
           invalid |-> k - Cardinality(X \cap (1 .. k)) - Cardinality(Y \cap (1 .. k))]
    BY <1>2, <2>6, <2>7, Zenon
  <2>9. /\ agrees(Cardinality(X), Cardinality(X \cap (1 .. k)))
        /\ agrees(Cardinality(Y), Cardinality(Y \cap (1 .. k)))
    BY <1>7
  <2>10. agrees(n - Cardinality(X) - Cardinality(Y), k - Cardinality(X \cap (1 .. k)) - Cardinality(Y \cap (1 .. k)))
    BY <1>2, <2>4, RestAgrees
  <2>11. ASSUME c = 0 PROVE Cardinality(X) = 0 /\ Cardinality(Y) = n /\ n - Cardinality(X) - Cardinality(Y) = 0
    <3>1. X = {} /\ Y = 1 .. n
      BY <1>1, <2>2, <2>3, <2>11, Unmapped0 DEF RowsOf
    <3>2. Cardinality(X) = 0 /\ Cardinality(Y) = n
      BY <3>1, FS_EmptySet, FS_Interval
    <3> QED
      BY <3>2
  <2> HIDE DEF agrees
  <2> QED
    BY <1>5, <1>8, <2>1, <2>5, <2>8, <2>9, <2>10, <2>11
<1>17. ASSUME a.collection = "prospects"
       PROVE  IF \E f \in Targets[a.collection].contact : a.columns[f] # 0
              THEN agrees(a.health.contactable,
                          Cardinality({r \in DOMAIN a.rows :
                              \E f \in Targets[a.collection].contact : ~IsAbsent(CellAt(a.rows[r], a.columns[f]))}))
              ELSE a.health.contactable = 0
  <2>1. a.health.contactable = Cardinality(Contactable(file, columns))
    BY <1>5 DEF HealthOf
  <2>2. agrees(Cardinality(Contactable(file, columns)), Cardinality(Contactable(file, columns) \cap (1 .. k)))
    BY <1>6, <1>7
  <2>3. {r \in DOMAIN a.rows : \E f \in Targets[a.collection].contact : ~IsAbsent(CellAt(a.rows[r], a.columns[f]))}
          = Contactable(file, columns) \cap (1 .. k)
    BY <1>3, <1>4, <1>5, Zenon DEF Counted
  <2>4. ASSUME \A f \in Targets[a.collection].contact : columns[f] = 0 PROVE Contactable(file, columns) = {}
    <3>1. \A row : Absent(At(row, 0))
      BY DEF Absent, At, MissingCell
    <3> QED
      BY <1>5, <2>4, <3>1 DEF Contactable
  <2> HIDE DEF agrees
  <2> QED
    BY <1>5, <2>1, <2>2, <2>3, <2>4, FS_EmptySet
<1>18. a.health.total - Len(a.rows) = n - k
  BY <1>2, <1>8
<1> QED
  BY <1>9, <1>10, <1>11, <1>12, <1>13, <1>14, <1>15, <1>16, <1>17, <1>18, Zenon
     DEF AnalysisEvidenceIsCoherent, RowsWhere, Count

\* The cells of a file are evidence the browser can read.
LEMMA RowsAreRead ==
  ASSUME NEW file, IsFile(file), NEW r \in RowsOf(file)
  PROVE  IsRawPayload(file.rows[r], Len(file.headers))
<1>1. PICK m \in Nat : m = Len(file.headers)
  BY DEF IsFile
<1>2. PICK row \in [1 .. m -> Cells] : row = file.rows[r]
  BY <1>1 DEF IsFile, RowsOf
<1>3. Len(row) = m
  BY LenProperties
<1>4. \A c \in 1 .. m : IsCellEvidence(row[c])
  BY DEF Cells, IsCellEvidence
<1> QED
  BY <1>1, <1>2, <1>3, <1>4 DEF IsRawPayload

LEMMA PreviewIs ==
  ASSUME NEW file
  PROVE  /\ PreviewOf(file).collection = file.collection /\ PreviewOf(file).headers = file.headers
         /\ PreviewOf(file).total = Len(file.rows)
  BY DEF PreviewOf

LEMMA SupportedIsReadable ==
  ASSUME NEW file, IsFile(file), file.collection \in DOMAIN Targets, NEW columns, NEW identity,
         IsMapping(file, columns, identity), NEW a, a = AnalysisOf(file, columns, identity)
  PROVE  IsAnalysis(a, PreviewOf(file))
<1>1. /\ a.collection = file.collection /\ a.status = "DRAFT"
      /\ a.health = HealthOf(file, columns, identity)
  BY DEF AnalysisOf
<1>2. a.health.total = Len(file.rows)
  BY <1>1 DEF HealthOf
<1>3. IsDataHealth(a.health, Len(file.headers))
  BY <1>1, HealthIsCoherent
<1>4. /\ Len(a.rows) = Min2(Len(file.rows), RowSampleLimit)
      /\ \A r \in DOMAIN a.rows : r \in RowsOf(file) /\ a.rows[r].cells = file.rows[r]
  BY AnalysedRows
<1>5. \A r \in DOMAIN a.rows : IsRawPayload(a.rows[r].cells, Len(file.headers))
  BY <1>4, RowsAreRead
<1>6. MappingIsWhole(a, file.headers)
  BY MappingIsRead
<1>7. AnalysisEvidenceIsCoherent(a, PreviewOf(file))
  BY EvidenceIsCoherent
<1>8. a.status # "UNSUPPORTED_TARGET"
  BY <1>1
<1> QED
  BY <1>1, <1>2, <1>3, <1>4, <1>5, <1>6, <1>7, <1>8, PreviewIs DEF IsAnalysis

\* Of a collection that cannot be imported, too.
LEMMA UnsupportedIsReadable ==
  ASSUME NEW file, IsFile(file), file.collection \notin DOMAIN Targets, NEW a, a = UnsupportedAnalysis(file)
  PROVE  IsAnalysis(a, PreviewOf(file))
<1>1. PICK n \in Nat : n = Len(file.rows)
  BY RowsAre
<1>2. PICK k \in 0 .. n : k = Min2(n, RowSampleLimit)
  BY MinOf, ContractAssumption
<1>3. file.collection = "revenue_actions"
  BY DEF IsFile
<1>4. /\ a.status = "UNSUPPORTED_TARGET" /\ a.collection = file.collection /\ a.columns = <<>> /\ a.identity = 0
      /\ a.unmapped = DOMAIN file.headers
      /\ a.rows = [r \in 1 .. k |-> [cells |-> file.rows[r], errors |-> {"IMPORT_TARGET_UNSUPPORTED"}]]
  BY <1>1, <1>2 DEF UnsupportedAnalysis
<1>5. PICK h : h = a.health
  OBVIOUS
<1>6. /\ h.total = n /\ h.valid = 0 /\ h.blocking = n /\ h.duplicates = 0 /\ h.missing = <<>>
      /\ h.unknown = Count(CellsOfKind(file.rows, {"UNKNOWN", "NULL"})) /\ h.unmappedFields = {}
      /\ h.unmappedColumns = DOMAIN file.headers /\ h.timestamps = <<>>
      /\ h.identified = 0 /\ h.contactable = 0
  BY <1>1, <1>5 DEF UnsupportedAnalysis
<1>7. DOMAIN h.missing = {} /\ DOMAIN h.timestamps = {}
  BY <1>6
<1>8. PICK m \in Nat : m = Len(file.headers) /\ m <= MaxColumns /\ file.rows \in Seq([1 .. m -> Cells])
  <2>1. Len(file.headers) \in Nat /\ Len(file.headers) <= MaxColumns
    BY ContractAssumption DEF IsFile
  <2> QED
    BY <2>1 DEF IsFile
<1>9. IsDataHealth(h, Len(file.headers))
  <2>1. h.unknown <= n * m
    <3>1. PICK cells \in Seq([1 .. m -> Cells]) : cells = file.rows
      BY <1>8
    <3>2. Count(CellsOfKind(cells, {"UNKNOWN", "NULL"})) <= Len(cells) * m
      BY <1>8, CountIsBounded
    <3> QED
      BY <1>1, <1>6, <3>1, <3>2
  <2> QED
    BY <1>6, <1>7, <1>8, <2>1 DEF IsDataHealth
<1>10. DOMAIN a.rows = 1 .. k /\ Len(a.rows) = k
  <2>1. PICK q : q = a.rows
    OBVIOUS
  <2>3. DOMAIN q = 1 .. k /\ k \in Nat
    BY <1>4, <2>1
  <2>4. q = [r \in 1 .. k |-> q[r]]
    BY <1>4, <2>1
  <2> DEFINE S == {q[r] : r \in 1 .. k}
  <2>5. q \in [1 .. k -> S]
    BY <2>4
  <2> HIDE DEF S
  <2>2. q \in Seq(S)
    BY <2>3, <2>5
  <2> QED
    BY <2>1, <2>2, <2>3, LenProperties
<1>11. \A r \in DOMAIN a.rows : /\ a.rows[r].cells = file.rows[r] /\ r \in RowsOf(file)
                                /\ a.rows[r].errors = {"IMPORT_TARGET_UNSUPPORTED"}
  BY <1>1, <1>4 DEF RowsOf
<1>12. \A r \in DOMAIN a.rows : IsRawPayload(a.rows[r].cells, Len(file.headers))
  BY <1>11, RowsAreRead
<1>13. UnsupportedIsEmpty(a, file.headers)
  BY <1>3, <1>4, <1>5, <1>6 DEF UnsupportedIsEmpty
<1>14. AnalysisEvidenceIsCoherent(a, PreviewOf(file))
  <2>1. {r \in DOMAIN a.rows : a.rows[r].errors = {}} = {}
    BY <1>11
  <2>2. {r \in DOMAIN a.rows : a.rows[r].errors \cap Duplicates # {}} = {}
    BY <1>11 DEF Duplicates
  <2>3. /\ CountMatchesRows(0, 0, n - k, 1) /\ CountMatchesRows(n, k, n - k, 1)
    BY DEF CountMatchesRows
  <2>4. /\ DOMAIN PreviewOf(file).records = 1 .. k
        /\ \A r \in 1 .. k : PreviewOf(file).records[r] = file.rows[r]
    <3>1. PICK S : file.rows \in Seq(S)
      BY <1>8
    <3>2. PICK records : records = SubSeq(file.rows, 1, k)
      OBVIOUS
    <3>3. DOMAIN records = 1 .. k /\ \A r \in 1 .. k : records[r] = file.rows[r]
      BY <1>1, <3>1, <3>2, ShownRows
    <3> QED
      BY <1>1, <1>2, <3>2, <3>3 DEF PreviewOf
  <2>5. h.unknown = PreviewOf(file).kinds["UNKNOWN"] + PreviewOf(file).kinds["NULL"]
    <3>1. PICK cells \in Seq([1 .. m -> Cells]) : cells = file.rows
      BY <1>8
    <3>2. Count(CellsOfKind(cells, {"UNKNOWN", "NULL"}))
            = Count(CellsOfKind(cells, {"UNKNOWN"})) + Count(CellsOfKind(cells, {"NULL"}))
      BY <1>8, KindsAddUp
    <3>3. /\ PreviewOf(file).kinds["UNKNOWN"] = Count(CellsOfKind(file.rows, {"UNKNOWN"}))
          /\ PreviewOf(file).kinds["NULL"] = Count(CellsOfKind(file.rows, {"NULL"}))
      BY DEF PreviewOf, ValueKindCounts, Kinds
    <3> QED
      BY <1>6, <3>1, <3>2, <3>3
  <2>6. Cardinality({}) = 0
    BY FS_EmptySet
  <2>7. a.collection # "prospects"
    BY <1>3, <1>4
  <2>8. \A r \in DOMAIN a.rows : r \in DOMAIN PreviewOf(file).records /\ a.rows[r].cells = PreviewOf(file).records[r]
    BY <1>10, <1>11, <2>4
  <2>9. h.total - Len(a.rows) = n - k /\ k - 0 = k /\ a.health = h
    BY <1>5, <1>6, <1>10
  <2>10. CountMatchesRows(h.valid, Cardinality({r \in DOMAIN a.rows : a.rows[r].errors = {}}),
                          h.total - Len(a.rows), 1)
    BY <1>6, <2>1, <2>3, <2>6, <2>9
  <2>11. CountMatchesRows(h.blocking, Len(a.rows) - Cardinality({r \in DOMAIN a.rows : a.rows[r].errors = {}}),
                          h.total - Len(a.rows), 1)
    BY <1>6, <1>10, <2>1, <2>3, <2>6, <2>9
  <2>12. CountMatchesRows(h.duplicates, Cardinality({r \in DOMAIN a.rows : a.rows[r].errors \cap Duplicates # {}}),
                          h.total - Len(a.rows), 1)
    BY <1>6, <2>2, <2>3, <2>6, <2>9
  <2> QED
    BY <1>4, <1>6, <1>7, <2>5, <2>7, <2>8, <2>9, <2>10, <2>11, <2>12, Zenon
       DEF AnalysisEvidenceIsCoherent, RowsWhere, Count
<1> QED
  BY <1>1, <1>2, <1>4, <1>5, <1>6, <1>9, <1>10, <1>12, <1>13, <1>14, PreviewIs DEF IsAnalysis

\* Whatever mapping of a file the server accepts, the browser can read the
\* analysis it answers with (isAnalysis in importContracts.mjs against
\* buildImportAnalysis in importMapping.js).
THEOREM AnalysisIsReadable ==
  ASSUME NEW file, IsFile(file), NEW s, s = NoSelection \/ ValidSelection(file, s)
  PROVE  IsAnalysis(Analyze(file, s), PreviewOf(file))
<1>1. CASE file.collection \in DOMAIN Targets
  <2>1. IsMapping(file, MapFields(file, s), MapSourceIdentity(file, s))
    BY <1>1, MappingIs
  <2> QED
    BY <1>1, <2>1, AnalyzeIs, SupportedIsReadable
<1>2. CASE file.collection \notin DOMAIN Targets
  BY <1>2, UnsupportedIsReadable DEF Analyze
<1> QED
  BY <1>1, <1>2

-----------------------------------------------------------------------------
(* Selections                                                              *)

\* What an analysis is asked for, and what the tab holds to be committed.
Wanted(file, s) == s \in Selections(file) /\ (s = NoSelection \/ ValidSelection(file, s))
Held(file, s) ==
    IF file.collection \in DOMAIN Targets
    THEN s \in Selections(file) /\ s # NoSelection /\ ValidSelection(file, s) ELSE s = NoSelection

\* What the server would commit, but for the length of a source identity.
Committable(file, s) ==
    /\ s \in Selections(file)
    /\ \/ Reviewing(file, s).outcome = "READY"
       \/ \E r \in DOMAIN file.rows : Is(file.rows[r][s.identity], "overlong")

LEMMA HeldIsWanted ==
  ASSUME NEW file, NEW s, Held(file, s)
  PROVE  Wanted(file, s)
<1>1. NoSelection \in Selections(file)
  BY DEF Selections
<1> QED
  BY <1>1 DEF Held, Wanted

\* The draft of a collection that can be imported has a column or none for
\* each field.
LEMMA DraftIs ==
  ASSUME NEW file, IsFile(file), file.collection \in DOMAIN Targets
  PROVE  /\ Selected(file, NoSelection) = [columns |-> MapFields(file, NoSelection),
                                           identity |-> MapSourceIdentity(file, NoSelection)]
         /\ MapFields(file, NoSelection) \in [FieldsOf(file.collection) -> 0 .. Len(file.headers)]
         /\ MapSourceIdentity(file, NoSelection) \in 0 .. Len(file.headers)
         /\ DOMAIN Selected(file, NoSelection).columns = FieldsOf(file.collection)
<1>1. PICK c : c = MapFields(file, NoSelection)
  OBVIOUS
<1>2. PICK i : i = MapSourceIdentity(file, NoSelection)
  OBVIOUS
<1>3. IsMapping(file, c, i)
  BY <1>1, <1>2, MappingIs
<1>4. Len(file.headers) \in Nat
  BY DEF IsFile
<1>5. c \in [FieldsOf(file.collection) -> 0 .. Len(file.headers)] /\ i \in 0 .. Len(file.headers)
  BY <1>3, <1>4 DEF IsMapping
<1>6. Selected(file, NoSelection) = [columns |-> c, identity |-> i]
  BY <1>1, <1>2 DEF Selected
<1> QED
  BY <1>1, <1>2, <1>5, <1>6

LEMMA SelectionsAre ==
  ASSUME NEW file, IsFile(file), file.collection \in DOMAIN Targets, NEW s
  PROVE  s \in Selections(file) <=>
           \/ s = NoSelection
           \/ /\ s \in [columns : [FieldsOf(file.collection) -> 0 .. Len(file.headers)],
                        identity : 0 .. Len(file.headers)]
              /\ s.columns # <<>>
              /\ \A f \in FieldsOf(file.collection) :
                    \/ s.columns[f] = Selected(file, NoSelection).columns[f]
                    \/ <<f, s.columns[f]>> \in Edits[file.collection]
              /\ \/ s.identity = Selected(file, NoSelection).identity
                 \/ <<"source_id", s.identity>> \in Edits[file.collection]
<1>1. PICK d : d = Selected(file, NoSelection)
  OBVIOUS
<1>2. DOMAIN d.columns = FieldsOf(file.collection)
  BY <1>1, DraftIs
<1>3. PICK F : F = FieldsOf(file.collection)
  OBVIOUS
<1>4. PICK C : C = 0 .. Len(file.headers)
  OBVIOUS
<1>5. s \in Selections(file) <=>
        \/ s = NoSelection
        \/ /\ s \in [columns : [F -> C], identity : C]
           /\ s.columns # <<>>
           /\ \A f \in DOMAIN s.columns :
                s.columns[f] \in {d.columns[f]} \cup {column \in C : <<f, column>> \in Edits[file.collection]}
           /\ s.identity \in {d.identity} \cup {column \in C : <<"source_id", column>> \in Edits[file.collection]}
  BY <1>1, <1>2, <1>3, <1>4, Zenon DEF Selections
<1>6. s \in [columns : [F -> C], identity : C] =>
        DOMAIN s.columns = F /\ s.identity \in C /\ \A f \in F : s.columns[f] \in C
  OBVIOUS
<1> QED
  BY <1>1, <1>3, <1>4, <1>5, <1>6

LEMMA UnsupportedSelections ==
  ASSUME NEW file, file.collection \notin DOMAIN Targets, NEW s \in Selections(file)
  PROVE  s = NoSelection
<1>1. Selected(file, NoSelection).columns = <<>>
  BY DEF Selected, NoSelection
<1>2. PICK d : d = Selected(file, NoSelection) /\ DOMAIN d.columns = {}
  BY <1>1
<1>3. PICK C : C = 0 .. Len(file.headers)
  OBVIOUS
<1>4. s = NoSelection \/ (s \in [columns : [{} -> C], identity : C] /\ s.columns # <<>>)
  BY <1>2, <1>3, Zenon DEF Selections
<1>5. s \in [columns : [{} -> C], identity : C] => s.columns = <<>>
  OBVIOUS
<1> QED
  BY <1>4, <1>5

\* What an analysis answers with can be held, and a held selection is answered
\* with as it is.
LEMMA SelectedIsHeld ==
  ASSUME NEW file, IsFile(file), NEW s, Wanted(file, s)
  PROVE  Held(file, Selected(file, s)) /\ (Held(file, s) => Selected(file, s) = s)
<1>1. CASE file.collection \notin DOMAIN Targets
  BY <1>1 DEF Held, Selected
<1>2. CASE file.collection \in DOMAIN Targets /\ s = NoSelection
  <2>1. PICK d : d = Selected(file, NoSelection)
    OBVIOUS
  <2>2. /\ d = [columns |-> MapFields(file, NoSelection), identity |-> MapSourceIdentity(file, NoSelection)]
        /\ d.columns \in [FieldsOf(file.collection) -> 0 .. Len(file.headers)]
        /\ d.identity \in 0 .. Len(file.headers)
        /\ DOMAIN d.columns = FieldsOf(file.collection)
    BY <1>2, <2>1, DraftIs
  <2>3. d.columns # <<>> /\ d # NoSelection
    BY <1>2, <2>2, ValidIsSupported
  <2>4. d \in Selections(file)
    BY <1>2, <2>1, <2>2, <2>3, SelectionsAre
  <2>5. ValidSelection(file, d)
    <3>1. IsMapping(file, MapFields(file, NoSelection), MapSourceIdentity(file, NoSelection))
      BY <1>2, MappingIs
    <3>2. IsMapping(file, d.columns, d.identity)
      BY <2>2, <3>1
    <3> QED
      BY <2>2, <3>2 DEF IsMapping, ValidSelection, IsFile, ColumnsOf
  <2> QED
    BY <1>2, <2>1, <2>3, <2>4, <2>5 DEF Held
<1>3. CASE file.collection \in DOMAIN Targets /\ s # NoSelection
  <2>1. ValidSelection(file, s) /\ s \in Selections(file)
    BY <1>3 DEF Wanted
  <2>2. s \in [columns : [FieldsOf(file.collection) -> 0 .. Len(file.headers)], identity : 0 .. Len(file.headers)]
    BY <1>3, <2>1, SelectionsAre
  <2>3. s = [columns |-> s.columns, identity |-> s.identity]
          /\ s.columns = [f \in FieldsOf(file.collection) |-> s.columns[f]]
    BY <2>2
  <2>4. MapFields(file, s) = s.columns /\ MapSourceIdentity(file, s) = s.identity
    BY <1>3, <2>1, <2>3, ValidIsKept
  <2>5. Selected(file, s) = s
    BY <1>3, <2>3, <2>4 DEF Selected
  <2> QED
    BY <1>3, <2>1, <2>5 DEF Held
<1> QED
  BY <1>1, <1>2, <1>3

\* An edit of a field or of the source identity leaves a selection to hold.
LEMMA FieldEditIsHeld ==
  ASSUME NEW file, IsFile(file), NEW s, Held(file, s), NEW f \in DOMAIN s.columns, NEW c \in Nat,
         <<f, c>> \in Edits[file.collection], c <= Len(file.headers),
         \A g \in (DOMAIN s.columns) \ {f} : s.columns[g] # c \/ c = 0
  PROVE  Held(file, [s EXCEPT !.columns[f] = c])
<1>1. file.collection \in DOMAIN Targets
  BY DEF Held, NoSelection
<1>2. PICK F : F = FieldsOf(file.collection)
  OBVIOUS
<1>3. PICK C : C = 0 .. Len(file.headers)
  OBVIOUS
<1>4. c \in C /\ Len(file.headers) \in Nat
  BY <1>3 DEF IsFile
<1>5. PICK d : d = Selected(file, NoSelection)
  OBVIOUS
<1>6. /\ s \in Selections(file) /\ s # NoSelection /\ ValidSelection(file, s)
  BY <1>1 DEF Held
<1>7. /\ s \in [columns : [F -> C], identity : C]
      /\ \A g \in F : s.columns[g] = d.columns[g] \/ <<g, s.columns[g]>> \in Edits[file.collection]
      /\ s.identity = d.identity \/ <<"source_id", s.identity>> \in Edits[file.collection]
  BY <1>1, <1>2, <1>3, <1>5, <1>6, SelectionsAre
<1>8. PICK t : t = [s EXCEPT !.columns[f] = c]
  OBVIOUS
<1>9. /\ t \in [columns : [F -> C], identity : C] /\ t.identity = s.identity
      /\ t.columns[f] = c /\ \A g \in F \ {f} : t.columns[g] = s.columns[g]
      /\ DOMAIN t.columns = F /\ DOMAIN s.columns = F
  BY <1>4, <1>7, <1>8
<1>10. t.columns # <<>> /\ t # NoSelection
  BY <1>1, <1>2, <1>9, ValidIsSupported
<1>11. \A g \in F : t.columns[g] = d.columns[g] \/ <<g, t.columns[g]>> \in Edits[file.collection]
  BY <1>7, <1>9
<1>12. t \in Selections(file)
  BY <1>1, <1>2, <1>3, <1>5, <1>7, <1>9, <1>10, <1>11, SelectionsAre
<1>13. ValidSelection(file, t)
  <2>1. DOMAIN file.headers \cup {0} = C
    BY <1>3, <1>4 DEF IsFile
  <2>2. \A g, h \in F : s.columns[g] = s.columns[h] => g = h \/ s.columns[g] = 0
    BY <1>6, <1>9 DEF ValidSelection
  <2>3. \A g, h \in F : t.columns[g] = t.columns[h] => g = h \/ t.columns[g] = 0
    BY <1>9, <2>2
  <2> QED
    BY <1>2, <1>9, <2>1, <2>3 DEF ValidSelection, ColumnsOf
<1> QED
  BY <1>1, <1>8, <1>10, <1>12, <1>13 DEF Held

LEMMA IdentityEditIsHeld ==
  ASSUME NEW file, IsFile(file), NEW s, Held(file, s), s.columns # <<>>, NEW c \in Nat,
         <<"source_id", c>> \in Edits[file.collection], c <= Len(file.headers)
  PROVE  Held(file, [s EXCEPT !.identity = c])
<1>1. file.collection \in DOMAIN Targets
  BY DEF Held, NoSelection
<1>2. PICK F : F = FieldsOf(file.collection)
  OBVIOUS
<1>3. PICK C : C = 0 .. Len(file.headers)
  OBVIOUS
<1>4. c \in C /\ Len(file.headers) \in Nat
  BY <1>3 DEF IsFile
<1>5. PICK d : d = Selected(file, NoSelection)
  OBVIOUS
<1>6. /\ s \in Selections(file) /\ s # NoSelection /\ ValidSelection(file, s)
  BY <1>1 DEF Held
<1>7. /\ s \in [columns : [F -> C], identity : C]
      /\ \A g \in F : s.columns[g] = d.columns[g] \/ <<g, s.columns[g]>> \in Edits[file.collection]
  BY <1>1, <1>2, <1>3, <1>5, <1>6, SelectionsAre
<1>8. PICK t : t = [s EXCEPT !.identity = c]
  OBVIOUS
<1>9. /\ t \in [columns : [F -> C], identity : C] /\ t.identity = c /\ t.columns = s.columns
      /\ DOMAIN t.columns = F
  BY <1>4, <1>7, <1>8
<1>10. t # NoSelection
  BY <1>1, <1>2, <1>9, ValidIsSupported
<1>12. t \in Selections(file)
  BY <1>1, <1>2, <1>3, <1>5, <1>7, <1>9, <1>10, SelectionsAre
<1>13. ValidSelection(file, t)
  <2>1. DOMAIN file.headers \cup {0} = C
    BY <1>3, <1>4 DEF IsFile
  <2> QED
    BY <1>4, <1>6, <1>9, <2>1 DEF ValidSelection, ColumnsOf
<1> QED
  BY <1>1, <1>8, <1>10, <1>12, <1>13 DEF Held

-----------------------------------------------------------------------------
(* Commits                                                                 *)

LEMMA UnsupportedBlocks ==
  ASSUME NEW file, IsFile(file), file.collection \notin DOMAIN Targets, NEW s
  PROVE  ~Confirmable(Analyze(file, s).health)
<1>1. PICK h : h = Analyze(file, s).health
  OBVIOUS
<1>2. h.total = Len(file.rows) /\ h.blocking = Len(file.rows)
  BY <1>1 DEF Analyze, UnsupportedAnalysis
<1>3. Len(file.rows) \in Nat
  BY DEF IsFile
<1> QED
  BY <1>1, <1>2, <1>3 DEF Confirmable

\* The health on display is that of the selection the tab holds.
LEMMA ShownHealth ==
  ASSUME NEW file, IsFile(file), NEW s, file.collection \in DOMAIN Targets,
         NEW sel, sel = Selected(file, s)
  PROVE  Analyze(file, s).health = HealthOf(file, sel.columns, sel.identity)
<1>1. PICK columns : columns = MapFields(file, s)
  OBVIOUS
<1>2. PICK identity : identity = MapSourceIdentity(file, s)
  OBVIOUS
<1>3. sel.columns = columns /\ sel.identity = identity
  BY <1>1, <1>2 DEF Selected
<1>4. Analyze(file, s) = AnalysisOf(file, columns, identity)
  BY <1>1, <1>2, AnalyzeIs
<1>5. AnalysisOf(file, columns, identity).health = HealthOf(file, columns, identity)
  BY DEF AnalysisOf
<1> QED
  BY <1>3, <1>4, <1>5

\* When no row blocks and each has an identity, each is the first with its own.
LEMMA EachIsFirst ==
  ASSUME NEW file, IsFile(file), NEW identity, identity # 0, NEW r \in RowsOf(file),
         DuplicateErrors(file.rows, identity, r) = {}, ~Absent(At(file.rows[r], identity))
  PROVE  FirstWithIdentity(file.rows, identity, r) = r
<1>1. r \in Nat /\ r \in 1 .. r
  BY DEF RowsOf
<1>2. PICK rows : rows = file.rows
  OBVIOUS
<1>3. \A q \in 1 .. r : At(rows[q], identity) = rows[q][identity]
  BY DEF At
<1>4. \A q \in 1 .. (r - 1) : At(rows[q], identity) # At(rows[r], identity)
  BY <1>2 DEF DuplicateErrors, When
<1>5. \A q \in 1 .. (r - 1) : rows[q][identity] # rows[r][identity]
  BY <1>1, <1>3, <1>4
<1>6. \A q \in 1 .. r : rows[q][identity] = rows[r][identity] => q = r
  BY <1>1, <1>5
<1> DEFINE First(q) == /\ rows[q][identity] = rows[r][identity]
                       /\ \A p \in 1 .. (q - 1) : rows[p][identity] # rows[r][identity]
<1>7. First(r)
  BY <1>5
<1>8. \A q \in 1 .. r : First(q) => q = r
  BY <1>6
<1>9. FirstWithIdentity(rows, identity, r) = CHOOSE q \in 1 .. r : First(q)
  BY DEF FirstWithIdentity
<1> HIDE DEF First
<1> QED
  BY <1>1, <1>2, <1>7, <1>8, <1>9

LEMMA ConfirmableIs ==
  ASSUME NEW file, IsFile(file), NEW columns, NEW identity, Confirmable(HealthOf(file, columns, identity))
  PROVE  /\ identity # 0
         /\ \A r \in RowsOf(file) : /\ RowErrors(file, columns, identity, r) = {}
                                    /\ ~Absent(At(file.rows[r], identity))
<1>1. PICK h : h = HealthOf(file, columns, identity)
  OBVIOUS
<1>2. PICK n \in Nat : n = Len(file.rows)
  BY DEF IsFile
<1>3. PICK V : V = Valid(file, columns, identity)
  OBVIOUS
<1>4. PICK P : P = Present(file, identity)
  OBVIOUS
<1>5. V \in SUBSET (1 .. n) /\ P \in SUBSET (1 .. n)
  BY <1>2, <1>3, <1>4 DEF Valid, Present, RowsOf
<1>6. h.total = n /\ h.blocking = n - Cardinality(V) /\ h.identified = Cardinality(P)
  BY <1>1, <1>2, <1>3, <1>4 DEF HealthOf
<1>7. n > 0 /\ n - Cardinality(V) = 0 /\ Cardinality(P) = n
  BY <1>1, <1>6 DEF Confirmable, HasCompleteSourceIdentity
<1>8. Cardinality(V) \in 0 .. n
  BY <1>5, n \in 0 .. n, CountShown
<1>9. Cardinality(V) = n
  BY <1>7, <1>8
<1>10. V = 1 .. n /\ P = 1 .. n
  BY <1>5, <1>7, <1>9, CountAll
<1>11. \A r \in RowsOf(file) : RowErrors(file, columns, identity, r) = {}
  BY <1>2, <1>3, <1>10 DEF Valid, RowsOf
<1>12. \A r \in RowsOf(file) : ~Absent(At(file.rows[r], identity))
  BY <1>2, <1>4, <1>10 DEF Present, RowsOf
<1>13. identity # 0
  <2>1. 1 \in RowsOf(file)
    BY <1>2, <1>7 DEF RowsOf
  <2>2. identity = 0 => Absent(At(file.rows[1], identity))
    BY DEF At, MissingCell, Absent
  <2> QED
    BY <1>12, <2>1, <2>2
<1> QED
  BY <1>11, <1>12, <1>13

\* A mapping whose data health the browser lets the operator confirm is one
\* the server can commit, but for a source identity longer than it takes
\* (canContinue in ImportWorkspace.jsx against buildCanonicalCommitPlan).
THEOREM ConfirmedIsCommittable ==
  ASSUME NEW file, IsFile(file), NEW s, Wanted(file, s), Confirmable(Analyze(file, s).health),
         NEW sel, sel = Selected(file, s)
  PROVE  Committable(file, sel)
<1>1. file.collection \in DOMAIN Targets
  BY UnsupportedBlocks
<1>2. Held(file, sel)
  BY SelectedIsHeld
<1>3. sel \in Selections(file)
  BY <1>1, <1>2 DEF Held
<1>4. PICK columns, identity : columns = sel.columns /\ identity = sel.identity
  OBVIOUS
<1>5. Confirmable(HealthOf(file, columns, identity))
  BY <1>1, <1>4, ShownHealth
<1>6. /\ identity # 0
      /\ \A r \in RowsOf(file) : /\ RowErrors(file, columns, identity, r) = {}
                                 /\ ~Absent(At(file.rows[r], identity))
  BY <1>5, ConfirmableIs
<1>7. PICK rows : rows = ValidateRows(file, columns, identity)
  OBVIOUS
<1>8. DOMAIN rows = RowsOf(file) /\ DOMAIN file.rows = RowsOf(file)
        /\ \A r \in RowsOf(file) : rows[r].errors = RowErrors(file, columns, identity, r)
  BY <1>7, RowsAre
<1>9. \A r \in RowsOf(file) : rows[r].errors \ Duplicates = {} /\ ~Absent(file.rows[r][identity])
  BY <1>6, <1>8 DEF At
<1>10. ASSUME NEW r \in RowsOf(file) PROVE FirstWithIdentity(file.rows, identity, r) = r
  <2>1. DuplicateErrors(file.rows, identity, r) = {}
    <3>1. ASSUME NEW e \in DuplicateErrors(file.rows, identity, r)
          PROVE  e \in RowErrors(file, columns, identity, r)
      BY Zenon DEF RowErrors
    <3> QED
      BY <1>6, <3>1
  <2> QED
    BY <1>6, <2>1, EachIsFirst
<1>11. \/ CommitOutcome(file, sel) = "READY"
       \/ \E r \in DOMAIN file.rows : Is(file.rows[r][sel.identity], "overlong")
  <2> SUFFICES ASSUME \A r \in RowsOf(file) : ~Is(file.rows[r][identity], "overlong")
               PROVE  CommitOutcome(file, sel) = "READY"
    BY <1>4, <1>8
  <2>1. ~\E r \in DOMAIN rows : file.rows[FirstWithIdentity(file.rows, identity, r)] # file.rows[r]
    BY <1>8, <1>10
  <2>2. ~\E r \in DOMAIN rows : \/ rows[r].errors \ Duplicates # {}
                                \/ Absent(file.rows[r][identity])
                                \/ Is(file.rows[r][identity], "overlong")
    BY <1>8, <1>9
  <2> QED
    BY <1>1, <1>4, <1>7, <2>1, <2>2, Zenon DEF CommitOutcome
<1>12. Reviewing(file, sel).outcome = CommitOutcome(file, sel)
  BY <1>4, <1>6 DEF Reviewing, Answering
<1> QED
  BY <1>3, <1>11, <1>12 DEF Committable

-----------------------------------------------------------------------------
(* Results and facts                                                       *)

LEMMA SummaryAddsUp ==
  ASSUME NEW file, IsFile(file), NEW s
  PROVE  /\ Summarize(file, s).total = Len(file.rows)
         /\ Summarize(file, s).total = Summarize(file, s).committed + Summarize(file, s).skipped
         /\ file.rows # <<>> => Summarize(file, s).total # 0
<1>1. PICK n \in Nat : n = Len(file.rows) /\ DOMAIN file.rows = 1 .. n /\ (file.rows # <<>> => n # 0)
  BY DEF IsFile
<1>2. PICK k : k = Skipped(file, s.identity)
  OBVIOUS
<1>3. k \in Nat
  <2>1. {r \in DOMAIN file.rows : FirstWithIdentity(file.rows, s.identity, r) # r} \in SUBSET (1 .. n)
    BY <1>1
  <2>2. PICK R \in SUBSET (1 .. n) : R = {r \in DOMAIN file.rows : FirstWithIdentity(file.rows, s.identity, r) # r}
    BY <2>1
  <2>3. Cardinality(R) \in 0 .. n
    BY <2>2, n \in 0 .. n, CountShown
  <2> QED
    BY <1>2, <2>2, <2>3 DEF Skipped, Count
<1>4. Summarize(file, s) = [total |-> n, skipped |-> k, committed |-> n - k]
  BY <1>1, <1>2 DEF Summarize
<1> QED
  BY <1>1, <1>3, <1>4

\* Both sides derive their facts from the same health.
LEMMA FactsAre ==
  ASSUME NEW file, IsFile(file), NEW s, file.collection \in DOMAIN Targets,
         NEW sel, sel = Selected(file, s)
  PROVE  CommittedFactsFromAnalysis([summary |-> Summarize(file, sel)], Analyze(file, s), file.collection)
           = BuildImportPilotEvidenceFacts(file, sel)
<1>1. PICK h : h = HealthOf(file, sel.columns, sel.identity)
  OBVIOUS
<1>2. PICK a : a = Analyze(file, s)
  OBVIOUS
<1>3. a.health = h
  BY <1>1, <1>2, ShownHealth
<1>4. BuildDataHealth(file, ValidateRows(file, sel.columns, sel.identity), sel.columns, sel.identity) = h
  BY <1>1, HealthIs
<1>5. PICK summary : summary = Summarize(file, sel)
  OBVIOUS
<1>6. PICK result : result = [summary |-> summary]
  OBVIOUS
<1>7. result.summary = summary
  BY <1>6
<1>8. CommittedFactsFromAnalysis(result, a, file.collection) = BuildImportPilotEvidenceFacts(file, sel)
  BY <1>3, <1>4, <1>5, <1>7, Zenon DEF CommittedFactsFromAnalysis, BuildImportPilotEvidenceFacts
<1> QED
  BY <1>2, <1>5, <1>6, <1>8

-----------------------------------------------------------------------------
(* What requests ask and answers tell                                      *)

Asks(bs, q) ==
    /\ q.kind = "ANALYSE" => q.selection \in Selections(Parsed[bs[q.batch].upload])
    /\ q.kind = "COMMIT" => Committable(Parsed[bs[q.batch].upload], q.selection)

Tells(bs, q, a) ==
    /\ q.kind = "ANALYSE" /\ a.status = "ok" => Wanted(Parsed[bs[q.batch].upload], q.selection)
    /\ a.status = "unreadable" => q.kind \in Reads /\ bs[q.batch].status = "COMMITTED"
    /\ q.kind \in {"COMMIT", "READ_COMMIT"} /\ a.status = "ok" => bs[q.batch].status = "COMMITTED"
    /\ a.cleaned => a.reconciled

Consistent(bs, q) == Asks(bs, q) /\ Tells(bs, q, q.answer)

FilesInv == \A b \in DOMAIN batches : Parses(Uploads[batches[b].upload])

AnswersInv == \A s \in Slots : Consistent(batches, slot[s])

\* The tab holds a selection the server would take, and shows what it asked for.
Maps == {"mapping", "confirm", "conflict", "unknown-commit"}
ReviewInv ==
    /\ ws.phase \in Maps => /\ Wanted(File(ws.preview), ws.analysis.selection)
                            /\ Held(File(ws.preview), ws.selection)
    /\ ws.phase = "result" /\ ws.analysis # NoReview =>
         /\ ws.preview \in DOMAIN batches
         /\ Wanted(File(ws.preview), ws.analysis.selection)
         /\ ws.selection = Selected(File(ws.preview), ws.analysis.selection)
         /\ Confirmable(Shown.health)

AgreeInv == FilesInv /\ AnswersInv /\ ReviewInv

LEMMA FileIs ==
  ASSUME IInv, FilesInv, NEW b \in DOMAIN batches
  PROVE  IsFile(File(b)) /\ batches[b].upload \in DOMAIN Uploads
<1>1. batches[b].upload \in DOMAIN Uploads /\ Parses(Uploads[batches[b].upload])
  BY DEF IInv, Shaped, Staging, FilesInv
<1> QED
  BY <1>1, ParsedIsFile DEF File

LEMMA ReviewIs ==
  ASSUME IInv, NEW b \in DOMAIN batches, NEW s \in Selections(File(b))
  PROVE  Review(b, s) = Reviewing(File(b), s)
<1>1. PICK u : u = batches[b].upload
  OBVIOUS
<1>2. u \in DOMAIN Uploads
  BY <1>1 DEF IInv, Shaped, Staging
<1>3. Reviewed[u] = [x \in Selections(Parsed[u]) |-> Reviewing(Parsed[u], x)]
  BY <1>2, TablesAre
<1>4. s \in Selections(Parsed[u])
  BY <1>1 DEF File
<1> QED
  BY <1>1, <1>3, <1>4 DEF Review, File

LEMMA ShownIs ==
  ASSUME IInv, NEW b \in DOMAIN batches, ws.analysis.batch = b,
         Wanted(File(b), ws.analysis.selection)
  PROVE  Shown = Analyze(File(b), ws.analysis.selection)
<1>1. PICK s : s = ws.analysis.selection
  OBVIOUS
<1>2. Review(b, s) = Reviewing(File(b), s)
  BY <1>1, ReviewIs DEF Wanted
<1>3. Reviewing(File(b), s).analysis = Analyze(File(b), s)
  BY DEF Reviewing, Answering
<1> QED
  BY <1>1, <1>2, <1>3 DEF Shown

-----------------------------------------------------------------------------
(* Batches                                                                 *)

Grows(bs, cs) ==
    Keeps(bs, cs) /\ \A b \in DOMAIN bs : bs[b].status = "COMMITTED" => cs[b].status = "COMMITTED"

LEMMA SameGrows ==
  ASSUME AgreeInv, UNCHANGED batches
  PROVE  FilesInv' /\ Grows(batches, batches')
  BY DEF AgreeInv, FilesInv, Grows, Keeps

LEMMA AppendGrows ==
  ASSUME IInv, AgreeInv, NEW e, Storable(e), Parses(Uploads[e.upload]), batches' = Append(batches, e)
  PROVE  FilesInv' /\ Grows(batches, batches')
<1>0. Staging(batches) /\ Len(batches) \in Nat
  BY DEF IInv, Shaped, Staging
<1>1. /\ Keeps(batches, batches') /\ DOMAIN batches = 1 .. Len(batches)
      /\ DOMAIN batches' = 1 .. Len(batches) + 1 /\ Len(batches) \in Nat
      /\ batches'[Len(batches) + 1] = e /\ \A b \in DOMAIN batches : batches'[b] = batches[b]
  BY <1>0, AppendStaging
<1>2. Grows(batches, batches')
  BY <1>1 DEF Grows
<1>3. ASSUME NEW b \in DOMAIN batches' PROVE Parses(Uploads[batches'[b].upload])
  BY <1>1 DEF AgreeInv, FilesInv
<1> QED
  BY <1>2, <1>3 DEF FilesInv

LEMMA ExceptGrows ==
  ASSUME IInv, AgreeInv, NEW b \in DOMAIN batches, NEW e, e.upload = batches[b].upload,
         batches[b].status = "COMMITTED" => e.status = "COMMITTED",
         batches' = [batches EXCEPT ![b] = e]
  PROVE  FilesInv' /\ Grows(batches, batches')
<1>1. DOMAIN batches' = DOMAIN batches /\ batches'[b] = e
        /\ \A c \in DOMAIN batches \ {b} : batches'[c] = batches[c]
  OBVIOUS
<1> QED
  BY <1>1 DEF AgreeInv, FilesInv, Grows, Keeps

-----------------------------------------------------------------------------
(* What a step leaves alone                                                *)

LEMMA AnswersStay ==
  ASSUME IInv, AgreeInv, Grows(batches, batches'),
         \A t \in Slots : slot'[t] = slot[t] \/ Consistent(batches', slot'[t])
  PROVE  AnswersInv'
<1> SUFFICES ASSUME NEW t \in Slots, slot'[t] = slot[t] PROVE Consistent(batches', slot[t])
  BY DEF AnswersInv
<1>1. PICK q : q = slot[t]
  OBVIOUS
<1>2. Consistent(batches, q) /\ Sound(batches, q)
  BY <1>1 DEF AgreeInv, AnswersInv, IInv, SlotInv
<1>3. CASE q.kind \in {"COMMIT"} \cup Reads
  <2>1. q.batch \in DOMAIN batches
    BY <1>2, <1>3 DEF Sound
  <2>2. /\ Parsed[batches'[q.batch].upload] = Parsed[batches[q.batch].upload]
        /\ batches[q.batch].status = "COMMITTED" => batches'[q.batch].status = "COMMITTED"
    BY <2>1 DEF Grows, Keeps
  <2> QED
    BY <1>1, <1>2, <2>2, Zenon DEF Consistent, Asks, Tells
<1>4. CASE q.kind \notin {"COMMIT"} \cup Reads
  BY <1>1, <1>2, <1>4 DEF Consistent, Asks, Tells, Reads
<1> QED
  BY <1>3, <1>4

LEMMA AnswerStays ==
  ASSUME IInv, AgreeInv, Grows(batches, batches'), NEW s \in Slots, NEW q,
         slot' = [slot EXCEPT ![s] = q], Consistent(batches', q)
  PROVE  AnswersInv'
<1>1. \A t \in Slots : slot'[t] = slot[t] \/ Consistent(batches', slot'[t])
  BY DEF IInv, Shaped
<1> QED
  BY <1>1, AnswersStay

LEMMA ReviewStays ==
  ASSUME IInv, AgreeInv, Keeps(batches, batches'),
         ws'.preview = ws.preview, ws'.analysis = ws.analysis, ws'.selection = ws.selection,
         ws'.phase \in Maps => ws.phase \in Maps, ws'.phase = "result" => ws.phase = "result"
  PROVE  ReviewInv'
<1>1. CASE ws'.phase \in Maps
  <2>1. ws.preview \in DOMAIN batches
    BY <1>1 DEF IInv, TabInv, DisplayInv, Displays, Maps, Chosen
  <2>2. File(ws.preview)' = File(ws.preview)
    BY <2>1 DEF Keeps, File
  <2>3. ws'.phase # "result"
    BY <1>1 DEF Maps
  <2> QED
    BY <1>1, <2>2, <2>3, Zenon DEF AgreeInv, ReviewInv
<1>2. CASE ws'.phase = "result" /\ ws.analysis # NoReview
  <2>1. ws.preview \in DOMAIN batches /\ ws.analysis.batch = ws.preview
    BY <1>2 DEF AgreeInv, ReviewInv, IInv, TabInv, ResultInv
  <2>2. File(ws.preview)' = File(ws.preview) /\ ws.preview \in DOMAIN batches'
    BY <2>1 DEF Keeps, File
  <2>3. Shown' = Shown
    BY <2>1 DEF Keeps, Shown, Review
  <2>4. ws'.phase \notin Maps
    BY <1>2 DEF Maps
  <2> QED
    BY <1>2, <2>2, <2>3, <2>4, Zenon DEF AgreeInv, ReviewInv
<1> QED
  BY <1>1, <1>2 DEF ReviewInv

\* A tab that shows no mapping.
LEMMA NothingShown ==
  ASSUME ws'.phase \in {"upload", "preview"}
  PROVE  ReviewInv'
  BY DEF ReviewInv, Maps

-----------------------------------------------------------------------------
(* The server                                                              *)

LEMMA ServerAgrees ==
  ASSUME IInv, AgreeInv, FilesInv', Grows(batches, batches'), NEW s \in Slots, NEW a, Reply(s, a),
         Tells(batches', slot[s], a), UNCHANGED ws
  PROVE  AgreeInv'
<1>1. PICK q : q = IF slot[s].heard THEN [slot[s] EXCEPT !.state = "answered", !.answer = a] ELSE NoRequest
  OBVIOUS
<1>2. IsRequest(slot[s]) /\ Consistent(batches, slot[s]) /\ Sound(batches, slot[s])
  BY DEF IInv, Shaped, SlotInv, AgreeInv, AnswersInv
<1>3. ASSUME slot[s].heard PROVE Consistent(batches', q)
  <2>1. q.kind = slot[s].kind /\ q.batch = slot[s].batch /\ q.selection = slot[s].selection /\ q.answer = a
    BY <1>1, <1>2, <1>3 DEF IsRequest
  <2>2. slot[s].kind \in {"ANALYSE", "COMMIT"} =>
          Parsed[batches'[slot[s].batch].upload] = Parsed[batches[slot[s].batch].upload]
    BY <1>2 DEF Sound, Grows, Keeps, Reads
  <2>3. Asks(batches', q)
    BY <1>2, <2>1, <2>2, Zenon DEF Consistent, Asks
  <2>4. Tells(batches', q, q.answer)
    BY <2>1, Zenon DEF Tells
  <2> QED
    BY <2>3, <2>4, <1>1 DEF Consistent
<1>4. ASSUME ~slot[s].heard PROVE Consistent(batches', q)
  BY <1>1, <1>4 DEF Consistent, Asks, Tells, NoRequest, NoAnswer
<1>5. slot' = [slot EXCEPT ![s] = q]
  BY <1>1 DEF Reply
<1>6. AnswersInv'
  BY <1>3, <1>4, <1>5, AnswerStays
<1>7. ReviewInv'
  BY ReviewStays DEF Grows
<1> QED
  BY <1>6, <1>7 DEF AgreeInv

\* An answer that says neither that a preview could not be read nor that rows
\* were cleaned away.
LEMMA PlainTells ==
  ASSUME NEW bs, NEW q, NEW a, q.kind # "ANALYSE" \/ a.status # "ok", a.status # "unreadable", a.cleaned = FALSE,
         q.kind \notin {"COMMIT", "READ_COMMIT"} \/ a.status # "ok" \/ bs[q.batch].status = "COMMITTED"
  PROVE  Tells(bs, q, a)
  BY DEF Tells

LEMMA SaysIs ==
  ASSUME NEW status, NEW a, a = Says(status)
  PROVE  a.status = status /\ a.cleaned = FALSE
  BY DEF Says, NoAnswer

LEMMA ServePreviewAgrees ==
  ASSUME IInv, AgreeInv, NEW s \in Slots, ServePreview(s)
  PROVE  AgreeInv'
<1> DEFINE b == Len(batches) + 1
           u == slot[s].upload
<1>1. slot[s].kind = "PREVIEW" /\ slot[s].state = "sent" /\ u \in DOMAIN Uploads /\ UNCHANGED ws
  BY DEF ServePreview, IInv, SlotInv, Sound
<1>2. CASE Reply(s, Says("refused")) /\ UNCHANGED batches
  <2>1. PICK a : a = Says("refused")
    OBVIOUS
  <2>2. Tells(batches', slot[s], a)
    BY <1>1, <2>1, SaysIs, PlainTells
  <2> QED
    BY <1>1, <1>2, <2>1, <2>2, SameGrows, ServerAgrees
<1>3. ASSUME NEW status \in {"ok", "unconfirmed"}, NEW new, Storable(new), new.upload = u, Parses(Uploads[u]),
             batches' = Append(batches, new), Reply(s, [Says(status) EXCEPT !.batch = b])
      PROVE  AgreeInv'
  <2>1. PICK a : a = [Says(status) EXCEPT !.batch = b]
    OBVIOUS
  <2>2. a.status = status /\ a.cleaned = FALSE
    BY <2>1 DEF Says, NoAnswer
  <2>3. Tells(batches', slot[s], a)
    BY <1>1, <2>2, PlainTells
  <2>4. FilesInv' /\ Grows(batches, batches')
    BY <1>3, AppendGrows
  <2> QED
    BY <1>1, <1>3, <2>1, <2>3, <2>4, ServerAgrees
<1>4. PICK staged : staged = Staged(u)
  OBVIOUS
<1>5. Storable(staged) /\ staged.upload = u
  BY <1>1, <1>4 DEF Storable, IsBatch, Staged
<1>6. PICK spoilt : spoilt = [staged EXCEPT !.status = "NONE"]
  OBVIOUS
<1>7. Storable(spoilt) /\ spoilt.upload = u
  BY <1>5, <1>6 DEF Storable, IsBatch
<1> QED
  BY <1>2, <1>3, <1>4, <1>5, <1>6, <1>7 DEF ServePreview

\* A preview is refused by the browser only when the batch was committed.
LEMMA ReadPreviewTells ==
  ASSUME IInv, AgreeInv, NEW q, Sound(batches, q), q.kind = "READ_PREVIEW", NEW a, a = ReadPreview(q.batch)
  PROVE  Tells(batches, q, a)
<1>1. q.batch \in DOMAIN batches /\ q.kind \in Reads
  BY DEF Sound, Reads
<1>2. IsPreview(PreviewOf(File(q.batch)))
  BY <1>1, FileIs, PreviewIsReadable DEF AgreeInv
<1>3. a.status = "unreadable" => batches[q.batch].status = "COMMITTED"
  BY <1>2 DEF ReadPreview, Says, NoAnswer
<1>4. a.cleaned = FALSE
  BY DEF ReadPreview, Says, NoAnswer
<1> QED
  BY <1>1, <1>3, <1>4 DEF Tells

\* So is an analysis, and one that is given is for a selection the server takes.
LEMMA AnalyzePreviewTells ==
  ASSUME IInv, AgreeInv, NEW q, Sound(batches, q), Asks(batches, q), q.kind = "ANALYSE",
         NEW a, a = AnalyzePreview(q.batch, Review(q.batch, q.selection))
  PROVE  Tells(batches, q, a)
<1>1. q.batch \in DOMAIN batches /\ q.kind \in Reads
  BY DEF Sound, Reads
<1>2. PICK file : file = File(q.batch)
  OBVIOUS
<1>3. IsFile(file) /\ q.selection \in Selections(file) /\ file = Parsed[batches[q.batch].upload]
  BY <1>1, <1>2, FileIs DEF AgreeInv, Asks, File
<1>4. PICK s : s = q.selection
  OBVIOUS
<1>5. PICK review : review = Review(q.batch, s)
  OBVIOUS
<1>6. review = Reviewing(file, s)
  BY <1>1, <1>2, <1>3, <1>4, <1>5, ReviewIs
<1>7. /\ review.accepted <=> s = NoSelection \/ ValidSelection(file, s)
      /\ review.readable = IsAnalysis(Analyze(file, s), PreviewOf(file))
  BY <1>6 DEF Reviewing, Answering
<1>8. review.accepted => review.readable /\ Wanted(file, s)
  BY <1>3, <1>4, <1>7, AnalysisIsReadable DEF Wanted
<1>9. batches[q.batch].status \in {"NONE", "PREVIEWED", "COMMITTED"}
  BY <1>1 DEF IInv, Shaped, Staging
<1>10. a = AnalyzePreview(q.batch, review)
  BY <1>4, <1>5
<1>11. /\ a.status = "ok" => review.accepted
       /\ a.status = "unreadable" => batches[q.batch].status = "COMMITTED"
       /\ a.cleaned = FALSE
  BY <1>8, <1>9, <1>10 DEF AnalyzePreview, Says, NoAnswer
<1> QED
  BY <1>1, <1>3, <1>4, <1>8, <1>11 DEF Tells

LEMMA ServeReadAgrees ==
  ASSUME IInv, AgreeInv, NEW s \in Slots, ServeRead(s)
  PROVE  AgreeInv'
<1> DEFINE b == slot[s].batch
<1>1. /\ UNCHANGED <<batches, ws>> /\ FilesInv' /\ Grows(batches, batches')
      /\ Sound(batches, slot[s]) /\ Asks(batches, slot[s])
  BY SameGrows DEF ServeRead, IInv, SlotInv, AgreeInv, AnswersInv, Consistent
<1>2. ASSUME NEW a, Reply(s, a), Tells(batches, slot[s], a) PROVE AgreeInv'
  BY <1>1, <1>2, ServerAgrees
<1>3. CASE slot[s].kind = "READ_PREVIEW" /\ Reply(s, ReadPreview(b))
  <2>1. PICK a : a = ReadPreview(b)
    OBVIOUS
  <2> QED
    BY <1>1, <1>2, <1>3, <2>1, ReadPreviewTells
<1>4. CASE slot[s].kind = "ANALYSE" /\ Reply(s, AnalyzePreview(b, Review(b, slot[s].selection)))
  <2>1. PICK a : a = AnalyzePreview(b, Review(b, slot[s].selection))
    OBVIOUS
  <2> QED
    BY <1>1, <1>2, <1>4, <2>1, AnalyzePreviewTells
<1>5. ASSUME slot[s].kind = "READ_COMMIT", NEW cleaned, Reply(s, ReadCommit(b, cleaned)) PROVE AgreeInv'
  <2>1. PICK a : a = ReadCommit(b, cleaned)
    OBVIOUS
  <2>2. /\ a.status # "unreadable" /\ (a.cleaned = FALSE \/ a.reconciled = TRUE)
        /\ a.status = "ok" => batches[b].status = "COMMITTED"
    BY <2>1 DEF ReadCommit, Says, NoAnswer
  <2>3. Tells(batches, slot[s], a)
    BY <1>5, <2>2 DEF Tells
  <2> QED
    BY <1>2, <1>5, <2>1, <2>3
<1> QED
  BY <1>3, <1>4, <1>5 DEF ServeRead

LEMMA ServeCommitAgrees ==
  ASSUME IInv, AgreeInv, NEW s \in Slots, ServeCommit(s)
  PROVE  AgreeInv'
<1> DEFINE b == slot[s].batch
<1>1. slot[s].kind = "COMMIT" /\ b \in DOMAIN batches /\ UNCHANGED ws
  BY DEF ServeCommit, IInv, SlotInv, Sound
<1>2. PICK outcome : outcome = Review(b, slot[s].selection).outcome
  OBVIOUS
<1>3. ASSUME NEW a, Reply(s, a), a.status # "unreadable", a.cleaned = FALSE,
             a.status # "ok" \/ batches'[b].status = "COMMITTED", FilesInv', Grows(batches, batches')
      PROVE  AgreeInv'
  <2>1. Tells(batches', slot[s], a)
    BY <1>1, <1>3, PlainTells
  <2> QED
    BY <1>1, <1>3, <2>1, ServerAgrees
<1>4. ASSUME NEW status \in {"missing", "conflict", "failed"}, Reply(s, Says(status)), UNCHANGED batches
      PROVE  AgreeInv'
  <2>1. PICK a : a = Says(status)
    OBVIOUS
  <2>2. a.status \notin {"unreadable", "ok"} /\ a.cleaned = FALSE
    BY <2>1, <1>4, SaysIs
  <2> QED
    BY <1>3, <1>4, <2>1, <2>2, SameGrows
<1>5. ASSUME Reply(s, [Says("ok") EXCEPT !.batch = b, !.reconciled = TRUE]), UNCHANGED batches,
             batches[b].status = "COMMITTED"
      PROVE  AgreeInv'
  <2>1. PICK a : a = [Says("ok") EXCEPT !.batch = b, !.reconciled = TRUE]
    OBVIOUS
  <2>2. a.status # "unreadable" /\ a.cleaned = FALSE
    BY <2>1 DEF Says, NoAnswer
  <2> QED
    BY <1>3, <1>5, <2>1, <2>2, SameGrows
<1>6. ASSUME Reply(s, [Says("ok") EXCEPT !.batch = b]),
             batches' = [batches EXCEPT ![b].status = "COMMITTED", ![b].commit = Input(slot[s])]
      PROVE  AgreeInv'
  <2>1. PICK a : a = [Says("ok") EXCEPT !.batch = b]
    OBVIOUS
  <2>2. a.status # "unreadable" /\ a.cleaned = FALSE
    BY <2>1 DEF Says, NoAnswer
  <2>3. PICK input : input = Input(slot[s])
    OBVIOUS
  <2>4. PICK e : e = [batches[b] EXCEPT !.status = "COMMITTED", !.commit = input]
    OBVIOUS
  <2>5. IsBatch(batches[b])
    BY <1>1 DEF IInv, Shaped, Staging
  <2>6. e.upload = batches[b].upload /\ e.status = "COMMITTED"
    BY <2>4, <2>5 DEF IsBatch
  <2>7. batches' = [batches EXCEPT ![b] = e] /\ batches'[b].status = "COMMITTED"
    BY <1>1, <1>6, <2>3, <2>4, <2>6
  <2>8. FilesInv' /\ Grows(batches, batches')
    BY <1>1, <2>6, <2>7, ExceptGrows
  <2> QED
    BY <1>3, <1>6, <2>1, <2>2, <2>7, <2>8
<1>7. CASE Reply(s, Says("missing")) /\ UNCHANGED batches
  BY <1>4, <1>7
<1>8. CASE /\ Reply(s, IF batches[b].commit = Input(slot[s])
                       THEN [Says("ok") EXCEPT !.batch = b, !.reconciled = TRUE]
                       ELSE Says("conflict"))
           /\ batches[b].status = "COMMITTED" /\ UNCHANGED batches
  <2>1. CASE batches[b].commit = Input(slot[s])
    BY <1>5, <1>8, <2>1
  <2>2. CASE batches[b].commit # Input(slot[s])
    BY <1>4, <1>8, <2>2
  <2> QED
    BY <2>1, <2>2
<1>9. CASE Reply(s, Says(IF outcome = "FAILED" THEN "failed" ELSE "conflict")) /\ UNCHANGED batches
  BY <1>4, <1>9
<1> QED
  BY <1>2, <1>6, <1>7, <1>8, <1>9 DEF ServeCommit

LEMMA DenyAgrees ==
  ASSUME IInv, AgreeInv, NEW s \in Slots, Deny(s)
  PROVE  AgreeInv'
<1>1. PICK a : a = Says("denied")
  OBVIOUS
<1>2. Tells(batches', slot[s], a)
  BY <1>1, SaysIs, PlainTells
<1> QED
  BY <1>1, <1>2, SameGrows, ServerAgrees DEF Deny

\* A step that leaves the tab alone, and at most puts a request away.
LEMMA TabAlone ==
  ASSUME IInv, AgreeInv, FilesInv', Grows(batches, batches'), UNCHANGED ws,
         \A t \in Slots : slot'[t] = slot[t] \/ Consistent(batches', slot'[t])
  PROVE  AgreeInv'
<1>1. AnswersInv' /\ ReviewInv'
  BY AnswersStay, ReviewStays DEF Grows
<1> QED
  BY <1>1 DEF AgreeInv

LEMMA NothingAsked ==
  ASSUME NEW bs
  PROVE  Consistent(bs, NoRequest)
  BY DEF Consistent, Asks, Tells, NoRequest, NoAnswer

LEMMA DropAgrees ==
  ASSUME IInv, AgreeInv, NEW s \in Slots, Drop(s)
  PROVE  AgreeInv'
<1>1. \A t \in Slots : slot'[t] = slot[t] \/ slot'[t] = NoRequest
  BY DEF Drop, IInv, Shaped
<1>2. UNCHANGED <<batches, ws>>
  BY DEF Drop
<1> QED
  BY <1>1, <1>2, NothingAsked, SameGrows, TabAlone

LEMMA CommitElsewhereAgrees ==
  ASSUME IInv, AgreeInv, NEW b \in DOMAIN batches, CommitElsewhere(b)
  PROVE  AgreeInv'
<1>1. PICK selection : batches' = [batches EXCEPT ![b].status = "COMMITTED",
                                   ![b].commit = [key |-> Nobody, selection |-> selection]]
  BY DEF CommitElsewhere
<1>2. IsBatch(batches[b])
  BY DEF IInv, Shaped, Staging
<1>3. PICK e : e = [batches[b] EXCEPT !.status = "COMMITTED",
                                      !.commit = [key |-> Nobody, selection |-> selection]]
  OBVIOUS
<1>4. e.upload = batches[b].upload /\ e.status = "COMMITTED" /\ batches' = [batches EXCEPT ![b] = e]
  BY <1>1, <1>2, <1>3 DEF IsBatch
<1>5. FilesInv' /\ Grows(batches, batches')
  BY <1>4, ExceptGrows
<1>6. UNCHANGED <<slot, ws>>
  BY DEF CommitElsewhere
<1> QED
  BY <1>5, <1>6, TabAlone

LEMMA ExpireAgrees ==
  ASSUME IInv, AgreeInv, NEW b \in DOMAIN batches, Expire(b)
  PROVE  AgreeInv'
<1>1. IsBatch(batches[b])
  BY DEF IInv, Shaped, Staging
<1>2. PICK e : e = [batches[b] EXCEPT !.expired = TRUE]
  OBVIOUS
<1>3. e.upload = batches[b].upload /\ e.status = batches[b].status /\ batches' = [batches EXCEPT ![b] = e]
  BY <1>1, <1>2 DEF IsBatch, Expire
<1>4. FilesInv' /\ Grows(batches, batches')
  BY <1>3, ExceptGrows
<1>5. UNCHANGED <<slot, ws>>
  BY DEF Expire
<1> QED
  BY <1>4, <1>5, TabAlone

-----------------------------------------------------------------------------
(* The operator                                                            *)

LEMMA BeginAgrees ==
  ASSUME IInv, AgreeInv, NEW s \in Slots, NEW q, Consistent(batches, q), NEW w, IsTab(w), Begin(s, q, w),
         w.preview = ws.preview, w.analysis = ws.analysis, w.selection = ws.selection, w.phase = ws.phase
  PROVE  AgreeInv'
<1>1. UNCHANGED batches /\ slot' = [slot EXCEPT ![s] = q]
  BY DEF Begin
<1>2. FilesInv' /\ Grows(batches, batches')
  BY <1>1, SameGrows
<1>3. AnswersInv'
  BY <1>1, <1>2, AnswerStays
<1>4. /\ ws'.preview = ws.preview /\ ws'.analysis = ws.analysis /\ ws'.selection = ws.selection
      /\ ws'.phase = ws.phase
  BY DEF Begin, IsTab
<1>5. ReviewInv'
  BY <1>2, <1>4, ReviewStays DEF Grows
<1> QED
  BY <1>2, <1>3, <1>5 DEF AgreeInv

\* A request that asks for no mapping and commits none.
LEMMA SentAsks ==
  ASSUME NEW bs, NEW b, NEW kind \in Reads, NEW q, q = Sent(kind, b)
  PROVE  Consistent(bs, q)
<1>1. q.kind = kind /\ q.answer = NoAnswer /\ q.selection = NoSelection
  BY DEF Sent, NoRequest
<1>2. kind # "COMMIT"
  BY DEF Reads
<1>3. NoSelection \in Selections(Parsed[bs[q.batch].upload])
  BY DEF Selections
<1>4. Asks(bs, q)
  BY <1>1, <1>2, <1>3 DEF Asks
<1>5. Tells(bs, q, q.answer)
  BY <1>1 DEF Tells, NoAnswer
<1> QED
  BY <1>4, <1>5 DEF Consistent

LEMMA PreviewSubmitted ==
  ASSUME IInv, AgreeInv, NEW s \in Slots, NEW u, SubmitPreview(s, u)
  PROVE  AgreeInv'
<1>1. PICK q : q = [Sent("PREVIEW", None) EXCEPT !.upload = u]
  OBVIOUS
<1>2. PICK w : w = [ws EXCEPT !.previewed = u]
  OBVIOUS
<1>3. Begin(s, q, w)
  BY <1>1, <1>2 DEF SubmitPreview
<1>4. q.kind = "PREVIEW" /\ q.answer = NoAnswer
  BY <1>1 DEF Sent, NoRequest
<1>5. Consistent(batches, q)
  BY <1>4 DEF Consistent, Asks, Tells, NoAnswer
<1>6. IsTab(ws)
  BY DEF IInv, Shaped
<1>7. /\ IsTab(w) /\ w.preview = ws.preview /\ w.analysis = ws.analysis /\ w.selection = ws.selection
      /\ w.phase = ws.phase
  BY <1>2, <1>6 DEF IsTab
<1> QED
  BY <1>3, <1>5, <1>7, BeginAgrees

LEMMA LookedUp ==
  ASSUME IInv, AgreeInv, NEW s \in Slots, NEW b, NEW kind \in Reads, Begin(s, Sent(kind, b), ws)
  PROVE  AgreeInv'
<1>1. PICK q : q = Sent(kind, b)
  OBVIOUS
<1>2. PICK w : w = ws
  OBVIOUS
<1>3. Consistent(batches, q)
  BY <1>1, SentAsks
<1>4. IsTab(w)
  BY <1>2 DEF IInv, Shaped
<1> QED
  BY <1>1, <1>2, <1>3, <1>4, BeginAgrees

LEMMA RecalculateAgrees ==
  ASSUME IInv, AgreeInv, NEW s \in Slots, RecalculateDataHealth(s)
  PROVE  AgreeInv'
<1>1. PICK q : q = [Sent("ANALYSE", ws.preview) EXCEPT !.selection = ws.selection]
  OBVIOUS
<1>2. PICK w : w = ws
  OBVIOUS
<1>3. Begin(s, q, w) /\ ws.phase = "mapping"
  BY <1>1, <1>2 DEF RecalculateDataHealth
<1>4. q.kind = "ANALYSE" /\ q.batch = ws.preview /\ q.answer = NoAnswer /\ q.selection = ws.selection
  BY <1>1 DEF Sent, NoRequest
<1>5. Held(File(ws.preview), ws.selection)
  BY <1>3 DEF AgreeInv, ReviewInv, Maps
<1>6. ws.selection \in Selections(File(ws.preview))
  BY <1>5, HeldIsWanted DEF Wanted
<1>7. Asks(batches, q)
  BY <1>4, <1>6 DEF Asks, File
<1>8. Tells(batches, q, q.answer)
  BY <1>4 DEF Tells, NoAnswer
<1>9. IsTab(w)
  BY <1>2 DEF IInv, Shaped
<1> QED
  BY <1>2, <1>3, <1>7, <1>8, <1>9, BeginAgrees DEF Consistent

\* What is posted was reviewed, and can be committed.
LEMMA CommitSubmitted ==
  ASSUME IInv, AgreeInv, NEW s \in Slots, ws.phase \in {"confirm", "unknown-commit"},
         NEW a, a = [batch |-> ws.preview, key |-> ws.key, selection |-> ws.selection],
         SubmitCommit(s, a)
  PROVE  AgreeInv'
<1>1. PICK q : q = [Sent("COMMIT", a.batch) EXCEPT !.key = a.key, !.selection = a.selection]
  OBVIOUS
<1>2. PICK w : w = [ws EXCEPT !.attempt = a]
  OBVIOUS
<1>3. Begin(s, q, w)
  BY <1>1, <1>2 DEF SubmitCommit
<1>4. q.kind = "COMMIT" /\ q.batch = ws.preview /\ q.answer = NoAnswer /\ q.selection = ws.selection
  BY <1>1 DEF Sent, NoRequest
<1>5. PICK b : b = ws.preview
  OBVIOUS
<1>6. PICK file : file = File(b)
  OBVIOUS
<1>7. PICK asked : asked = ws.analysis.selection
  OBVIOUS
<1>8. /\ b \in DOMAIN batches /\ ws.analysis.batch = b /\ Confirmable(Shown.health)
      /\ ws.selection = Selected(file, asked)
  BY <1>5, <1>6, <1>7 DEF IInv, TabInv, DisplayInv, Displays, Chosen
<1>9. Wanted(file, asked) /\ IsFile(file)
  BY <1>5, <1>6, <1>7, <1>8, FileIs DEF AgreeInv, ReviewInv, Maps
<1>10. Shown = Analyze(file, asked)
  BY <1>6, <1>7, <1>8, <1>9, ShownIs
<1>11. Confirmable(Analyze(file, asked).health)
  BY <1>8, <1>10
<1>12. PICK sel : sel = Selected(file, asked)
  OBVIOUS
<1>13. Committable(file, sel)
  BY <1>9, <1>11, <1>12, ConfirmedIsCommittable
<1>14. Asks(batches, q)
  BY <1>4, <1>5, <1>6, <1>8, <1>12, <1>13 DEF Asks, File
<1>15. Tells(batches, q, q.answer)
  BY <1>4 DEF Tells, NoAnswer
<1>16. IsTab(ws)
  BY DEF IInv, Shaped
<1>17. /\ IsTab(w) /\ w.preview = ws.preview /\ w.analysis = ws.analysis /\ w.selection = ws.selection
       /\ w.phase = ws.phase
  BY <1>2, <1>16 DEF IsTab
<1> QED
  BY <1>3, <1>14, <1>15, <1>17, BeginAgrees DEF Consistent

LEMMA RetryResumeAgrees ==
  ASSUME IInv, AgreeInv, NEW s \in Slots, RetryResume(s)
  PROVE  AgreeInv'
<1>1. PICK q : q = Sent("READ_COMMIT", ws.route)
  OBVIOUS
<1>2. UNCHANGED batches /\ slot' = [slot EXCEPT ![s] = q] /\ ws.phase = "upload"
        /\ ws' = [ws EXCEPT !.resume = "LOADING", !.resuming = s]
  BY <1>1 DEF RetryResume
<1>3. Consistent(batches, q)
  BY <1>1, SentAsks DEF Reads
<1>4. FilesInv' /\ Grows(batches, batches')
  BY <1>2, SameGrows
<1>5. AnswersInv'
  BY <1>2, <1>3, <1>4, AnswerStays
<1>6. ws'.phase = "upload"
  BY <1>2 DEF IInv, Shaped, IsTab
<1>7. ReviewInv'
  BY <1>6, NothingShown
<1> QED
  BY <1>4, <1>5, <1>7 DEF AgreeInv

LEMMA OperatorAgrees ==
  ASSUME IInv, AgreeInv, NEW s \in Slots, Operator(s)
  PROVE  AgreeInv'
<1>1. CASE CreatePreview(s) \/ RetryPreview(s)
  BY <1>1, PreviewSubmitted DEF CreatePreview, RetryPreview
<1>2. CASE ReconcilePreview(s) \/ ReviewMapping(s) \/ ReconcileCommit(s)
  BY <1>2, LookedUp DEF ReconcilePreview, ReviewMapping, ReconcileCommit, Reads
<1>3. CASE CommitReviewed(s)
  <2>1. PICK a : a = [batch |-> ws.preview, key |-> ws.key, selection |-> ws.selection]
    OBVIOUS
  <2> QED
    BY <1>3, <2>1, CommitSubmitted DEF CommitReviewed
<1>4. CASE RetryCommit(s)
  <2>1. PICK a : a = ws.attempt
    OBVIOUS
  <2>2. a = [batch |-> ws.preview, key |-> ws.key, selection |-> ws.selection]
    BY <1>4, <2>1 DEF RetryCommit, IInv, TabInv, AttemptInv
  <2> QED
    BY <1>4, <2>1, <2>2, CommitSubmitted DEF RetryCommit
<1> QED
  BY <1>1, <1>2, <1>3, <1>4, RecalculateAgrees, RetryResumeAgrees, Zenon DEF Operator

-----------------------------------------------------------------------------
(* What the operator does without the server                               *)

\* A step of the tab that asks for nothing.
LEMMA TabSteps ==
  ASSUME IInv, AgreeInv, UNCHANGED <<batches, slot>>, ReviewInv'
  PROVE  AgreeInv'
<1>1. FilesInv' /\ Grows(batches, batches')
  BY SameGrows
<1>2. AnswersInv'
  BY <1>1, AnswersStay
<1> QED
  BY <1>1, <1>2 DEF AgreeInv

LEMMA EditMappingAgrees ==
  ASSUME IInv, AgreeInv, EditMapping, ws.phase = "mapping"
  PROVE  AgreeInv'
<1>1. PICK file : file = File(ws.preview)
  OBVIOUS
<1>2. /\ IsTab(ws) /\ ws.preview \in DOMAIN batches /\ ws.analysis.batch = ws.preview
      /\ Wanted(file, ws.analysis.selection) /\ Held(file, ws.selection) /\ IsFile(file)
  BY <1>1, FileIs DEF AgreeInv, ReviewInv, Maps, IInv, Shaped, TabInv, DisplayInv, Displays, Chosen
<1>3. PICK edit \in Edits[file.collection] :
        /\ edit[2] <= Len(file.headers)
        /\ IF edit[1] = "source_id" THEN UpdateSourceIdentity(edit[2]) ELSE UpdateSelection(edit[1], edit[2])
  BY <1>1 DEF EditMapping
<1>4. ASSUME NEW selection, Held(file, selection), UNCHANGED <<batches, slot>>,
             ws' = [ws EXCEPT !.selection = selection, !.stale = TRUE]
      PROVE  AgreeInv'
  <2>1. ws'.phase = "mapping" /\ ws'.preview = ws.preview /\ ws'.analysis = ws.analysis /\ ws'.selection = selection
    BY <1>2, <1>4 DEF IsTab
  <2>2. File(ws.preview)' = file
    BY <1>1, <1>4, <2>1 DEF File
  <2>3. ReviewInv'
    BY <1>2, <1>4, <2>1, <2>2, Zenon DEF ReviewInv
  <2> QED
    BY <1>4, <2>3, TabSteps
<1>5. PICK f, c : f = edit[1] /\ c = edit[2]
  OBVIOUS
<1>6. c \in Nat /\ <<f, c>> \in Edits[file.collection]
  <2>1. PICK u : u = batches[ws.preview].upload
    OBVIOUS
  <2>2. u \in DOMAIN Uploads /\ Parses(Uploads[u]) /\ file = Parsed[u]
    BY <1>1, <1>2, <2>1, FileIs DEF AgreeInv, FilesInv, File
  <2>3. file.collection \in DOMAIN Edits
    BY <2>2, ParsedIsFile, UploadAssumption
  <2>4. Edits[file.collection] \subseteq STRING \X Nat
    BY <2>3, UploadAssumption
  <2>5. edit \in STRING \X Nat
    BY <1>3, <2>4
  <2>6. edit = <<f, c>> /\ c \in Nat
    BY <1>5, <2>5
  <2> QED
    BY <1>3, <2>6
<1>7. CASE f = "source_id"
  <2>1. UpdateSourceIdentity(c)
    BY <1>3, <1>5, <1>7
  <2>2. PICK selection : selection = [ws.selection EXCEPT !.identity = c]
    OBVIOUS
  <2>3. /\ ws' = [ws EXCEPT !.selection = selection, !.stale = TRUE] /\ ws.selection.columns # <<>>
        /\ UNCHANGED <<batches, slot>>
    BY <1>2, <2>1, <2>2 DEF UpdateSourceIdentity, IsTab
  <2>4. Held(file, selection)
    BY <1>2, <1>3, <1>5, <1>6, <1>7, <2>2, <2>3, IdentityEditIsHeld
  <2> QED
    BY <1>4, <2>3, <2>4
<1>8. CASE f # "source_id"
  <2>1. UpdateSelection(f, c)
    BY <1>3, <1>5, <1>8
  <2>2. PICK columns : columns = [ws.selection.columns EXCEPT ![f] = c]
    OBVIOUS
  <2>3. PICK selection : selection = [ws.selection EXCEPT !.columns[f] = c]
    OBVIOUS
  <2>4. /\ ws' = [ws EXCEPT !.selection = selection, !.stale = TRUE] /\ f \in DOMAIN ws.selection.columns
        /\ \A g \in (DOMAIN ws.selection.columns) \ {f} : ws.selection.columns[g] # c \/ c = 0
        /\ UNCHANGED <<batches, slot>>
    BY <1>2, <2>1, <2>2, <2>3 DEF UpdateSelection, IsTab
  <2>5. Held(file, selection)
    BY <1>2, <1>3, <1>5, <1>6, <2>3, <2>4, FieldEditIsHeld
  <2> QED
    BY <1>4, <2>4, <2>5
<1> QED
  BY <1>7, <1>8

\* A step within the review, or a return to it.
LEMMA ReviewGoesOn ==
  ASSUME IInv, AgreeInv, UNCHANGED <<batches, slot>>,
         ws'.preview = ws.preview, ws'.analysis = ws.analysis, ws'.selection = ws.selection,
         ws.phase \in Maps, ws'.phase \in Maps
  PROVE  AgreeInv'
<1>1. Keeps(batches, batches')
  BY DEF Keeps
<1>2. ws'.phase # "result"
  BY DEF Maps
<1>3. ReviewInv'
  BY <1>1, <1>2, ReviewStays
<1> QED
  BY <1>3, TabSteps

LEMMA TabAgrees ==
  ASSUME IInv, AgreeInv, (\E u \in DOMAIN Uploads : ChooseFile(u)) \/ Reset
         \/ ContinueToConfirmation \/ Confirm \/ ReturnToMapping
  PROVE  AgreeInv'
<1>1. IsTab(ws)
  BY DEF IInv, Shaped
<1>2. ASSUME NEW u, ChooseFile(u) PROVE AgreeInv'
  <2>1. ws'.phase = "upload" /\ UNCHANGED <<batches, slot>>
    BY <1>1, <1>2 DEF ChooseFile, IsTab
  <2> QED
    BY <2>1, NothingShown, TabSteps
<1>3. CASE Reset
  <2>1. ws'.phase = "upload" /\ UNCHANGED <<batches, slot>>
    BY <1>3 DEF Reset, Blank
  <2> QED
    BY <2>1, NothingShown, TabSteps
<1>4. CASE ContinueToConfirmation
  <2>1. PICK key : ws' = [ws EXCEPT !.key = key, !.confirmed = FALSE, !.phase = "confirm", !.error = "none"]
    BY <1>4 DEF ContinueToConfirmation
  <2>2. /\ ws'.preview = ws.preview /\ ws'.analysis = ws.analysis /\ ws'.selection = ws.selection
        /\ ws'.phase = "confirm" /\ ws.phase = "mapping" /\ UNCHANGED <<batches, slot>>
    BY <1>1, <1>4, <2>1 DEF ContinueToConfirmation, IsTab
  <2> QED
    BY <2>2, ReviewGoesOn DEF Maps
<1>5. CASE Confirm
  <2>1. PICK confirmed : ws' = [ws EXCEPT !.confirmed = confirmed]
    BY <1>5 DEF Confirm
  <2>2. /\ ws'.preview = ws.preview /\ ws'.analysis = ws.analysis /\ ws'.selection = ws.selection
        /\ ws'.phase = "confirm" /\ ws.phase = "confirm" /\ UNCHANGED <<batches, slot>>
    BY <1>1, <1>5, <2>1 DEF Confirm, IsTab
  <2> QED
    BY <2>2, ReviewGoesOn DEF Maps
<1>6. CASE ReturnToMapping
  <2>1. /\ ws'.preview = ws.preview /\ ws'.analysis = ws.analysis /\ ws'.selection = ws.selection
        /\ ws'.phase = "mapping" /\ ws.phase \in {"confirm", "conflict"} /\ UNCHANGED <<batches, slot>>
    BY <1>1, <1>6 DEF ReturnToMapping, IsTab
  <2> QED
    BY <2>1, ReviewGoesOn DEF Maps
<1> QED
  BY <1>2, <1>3, <1>4, <1>5, <1>6

LEMMA DesertedAgrees ==
  ASSUME IInv, AgreeInv, NEW t \in Slots
  PROVE  Consistent(batches, Deserted(t))
<1>1. PICK d : d = Deserted(t)
  OBVIOUS
<1>2. CASE d = NoRequest
  BY <1>1, <1>2, NothingAsked
<1>3. CASE d = [slot[t] EXCEPT !.heard = FALSE]
  <2>1. IsRequest(slot[t]) /\ Consistent(batches, slot[t])
    BY DEF IInv, Shaped, AgreeInv, AnswersInv
  <2>2. d.kind = slot[t].kind /\ d.batch = slot[t].batch /\ d.selection = slot[t].selection
          /\ d.answer = slot[t].answer
    BY <1>3, <2>1 DEF IsRequest
  <2> QED
    BY <1>1, <2>1, <2>2, Zenon DEF Consistent, Asks, Tells
<1> QED
  BY <1>1, <1>2, <1>3 DEF Deserted

LEMMA MountAgrees ==
  ASSUME IInv, AgreeInv, NEW b \in 0 .. Len(batches), Mount(b)
  PROVE  AgreeInv'
<1>1. UNCHANGED batches /\ FilesInv' /\ Grows(batches, batches')
  BY SameGrows DEF Mount
<1>2. ws'.phase = "upload"
  <2>1. PICK w : w = Blank
    OBVIOUS
  <2>2. IsTab(w) /\ w.phase = "upload"
    BY <2>1 DEF Blank, IsTab
  <2>3. ws' = w \/ \E s \in Slots : ws' = [w EXCEPT !.resume = "LOADING", !.route = b, !.resuming = s]
    BY <2>1 DEF Mount, Resuming
  <2> QED
    BY <2>2, <2>3 DEF IsTab
<1>3. PICK q : q = Sent("READ_COMMIT", b)
  OBVIOUS
<1>4. Consistent(batches, q)
  BY <1>3, SentAsks DEF Reads
<1>5. \A t \in Slots : slot'[t] = Deserted(t) \/ slot'[t] = q
  BY <1>3 DEF Mount
<1>6. AnswersInv'
  BY <1>1, DesertedAgrees, <1>4, <1>5, AnswersStay
<1>7. ReviewInv'
  BY <1>2, NothingShown
<1> QED
  BY <1>1, <1>6, <1>7 DEF AgreeInv

-----------------------------------------------------------------------------
(* Answers                                                                 *)

\* The review goes on with the same mapping, or the tab leaves it for nothing.
LEMMA ReviewKept ==
  ASSUME IInv, AgreeInv, UNCHANGED batches,
         ws'.preview = ws.preview, ws'.analysis = ws.analysis, ws'.selection = ws.selection,
         ws'.phase = ws.phase \/ (ws.phase \in Maps /\ ws'.phase \in Maps)
  PROVE  ReviewInv'
<1>1. Keeps(batches, batches') /\ "result" \notin Maps
  BY DEF Keeps, Maps
<1> QED
  BY <1>1, ReviewStays

\* An analysis is shown that the server gave.
LEMMA AnalysisShown ==
  ASSUME IInv, AgreeInv, UNCHANGED batches, NEW b \in DOMAIN batches,
         NEW asked, Wanted(File(b), asked), ws'.phase = "mapping", ws'.preview = b,
         ws'.analysis.selection = asked, ws'.selection = Selected(File(b), asked)
  PROVE  ReviewInv'
<1>1. PICK file : file = File(b)
  OBVIOUS
<1>2. IsFile(file) /\ Wanted(file, asked) /\ ws'.selection = Selected(file, asked)
  BY <1>1, FileIs DEF AgreeInv
<1>3. Held(file, ws'.selection)
  BY <1>2, SelectedIsHeld
<1>4. File(ws.preview)' = file
  BY <1>1 DEF File
<1>5. ws'.phase # "result"
  OBVIOUS
<1> QED
  BY <1>2, <1>3, <1>4, <1>5, Zenon DEF ReviewInv

\* The committed import is shown with what was confirmed.
LEMMA ConfirmedShown ==
  ASSUME IInv, AgreeInv, UNCHANGED batches, ws.phase \in {"confirm", "unknown-commit"},
         ws'.phase = "result", ws'.preview = ws.preview, ws'.analysis = ws.analysis,
         ws'.selection = ws.selection
  PROVE  ReviewInv'
<1>1. /\ ws.preview \in DOMAIN batches /\ Confirmable(Shown.health)
      /\ ws.selection = Selected(File(ws.preview), ws.analysis.selection)
  BY DEF IInv, TabInv, DisplayInv, Displays, Chosen
<1>2. Wanted(File(ws.preview), ws.analysis.selection)
  BY DEF AgreeInv, ReviewInv, Maps
<1>3. File(ws.preview)' = File(ws.preview) /\ Shown' = Shown
  BY DEF File, Shown, Review
<1>4. ws'.phase \notin Maps
  BY DEF Maps
<1> QED
  BY <1>1, <1>2, <1>3, <1>4, Zenon DEF ReviewInv

LEMMA PreviewEnds ==
  ASSUME IInv, AgreeInv, NEW s \in Slots, ws.active = s, NEW a,
         slot[s].kind \in {"PREVIEW", "READ_PREVIEW"},
         ws' = [Answered(ws, slot[s], a) EXCEPT !.active = None]
  PROVE  ReviewInv'
<1>1. IsTab(ws) /\ ws.phase = "upload"
  BY ActiveIs
<1>2. PICK w : w = Answered(ws, slot[s], a)
  OBVIOUS
<1>3. w = PreviewAnswered(ws, a) \/ w = PreviewReconciled(ws, a)
  BY <1>2 DEF Answered
<1>4. CASE \E b : w = AcceptPreview(ws, b)
  <2>1. PICK b : w = AcceptPreview(ws, b)
    BY <1>4
  <2>2. IsTab(w) /\ w.phase = "preview"
    BY <1>1, <2>1 DEF AcceptPreview, IsTab
  <2>3. ws'.phase = "preview"
    BY <1>2, <2>2 DEF IsTab
  <2> QED
    BY <2>3, NothingShown
<1>5. CASE ~\E b : w = AcceptPreview(ws, b)
  <2>1. PICK error, route : error = ErrorOf(a) /\ route = IF a.batch # None THEN a.batch ELSE ws.route
    OBVIOUS
  <2>2. \/ w = [ws EXCEPT !.unknown = "preview", !.attempted = a.batch, !.error = "other", !.route = route]
        \/ w = [ws EXCEPT !.previewed = "none", !.unknown = "none", !.attempted = None, !.error = error]
        \/ w = [ws EXCEPT !.error = error]
    BY <1>1, <1>3, <1>5, <2>1 DEF PreviewAnswered, PreviewReconciled
  <2>3. IsTab(w) /\ w.phase = "upload"
    BY <1>1, <2>2 DEF IsTab
  <2>4. ws'.phase = "upload"
    BY <1>2, <2>3 DEF IsTab
  <2> QED
    BY <2>4, NothingShown
<1> QED
  BY <1>4, <1>5

\* The analysis that is answered is for a selection the server takes.
LEMMA AnalysisEnds ==
  ASSUME IInv, AgreeInv, NEW s \in Slots, ws.active = s, NEW a, Hears(slot[s], a),
         slot[s].kind = "ANALYSE", UNCHANGED batches,
         ws' = [Answered(ws, slot[s], a) EXCEPT !.active = None]
  PROVE  ReviewInv'
<1>1. /\ ws.phase \in {"preview", "mapping"} /\ slot[s].batch = ws.preview
      /\ IsTab(ws) /\ Sound(batches, slot[s])
  BY ActiveIs
<1>2. ws' = [AnalysisAnswered(ws, slot[s], a) EXCEPT !.active = None]
  BY DEF Answered
<1>3. CASE a.status = "ok"
  <2>1. PICK b, asked : b = ws.preview /\ asked = slot[s].selection
    OBVIOUS
  <2>2. PICK selection : selection = Selected(File(b), asked)
    OBVIOUS
  <2>3. PICK review : review = [batch |-> b, selection |-> asked]
    OBVIOUS
  <2>4. /\ ws'.phase = "mapping" /\ ws'.preview = b
        /\ ws'.analysis.selection = asked /\ ws'.selection = selection
    <3>1. ws' = [ws EXCEPT !.analysis = review, !.selection = selection, !.stale = FALSE,
                           !.error = "none", !.phase = "mapping", !.active = None]
      BY <1>1, <1>2, <1>3, <2>1, <2>2, <2>3 DEF AnalysisAnswered, AcceptAnalysis, IsTab
    <3>2. review.selection = asked
      BY <2>3
    <3> QED
      BY <1>1, <2>1, <3>1, <3>2 DEF IsTab
  <2>5. b \in DOMAIN batches /\ slot[s].batch = b
    BY <1>1, <2>1 DEF Sound, Reads
  <2>6. slot[s].answer.status = "ok"
    BY <1>3 DEF Hears
  <2>7. Wanted(File(b), asked)
    BY <2>1, <2>5, <2>6 DEF AgreeInv, AnswersInv, Consistent, Tells, File
  <2> QED
    BY <2>2, <2>4, <2>5, <2>7, AnalysisShown
<1>4. CASE a.status # "ok"
  <2>1. PICK error : error = ErrorOf(a)
    OBVIOUS
  <2>2. ws' = [ws EXCEPT !.error = error, !.active = None]
    BY <1>1, <1>2, <1>4, <2>1 DEF AnalysisAnswered, IsTab
  <2>3. /\ ws'.preview = ws.preview /\ ws'.analysis = ws.analysis /\ ws'.selection = ws.selection
        /\ ws'.phase = ws.phase
    BY <1>1, <2>2 DEF IsTab
  <2> QED
    BY <2>3, ReviewKept
<1> QED
  BY <1>3, <1>4

LEMMA CommitEnds ==
  ASSUME IInv, AgreeInv, NEW s \in Slots, ws.active = s, NEW a,
         slot[s].kind \in {"COMMIT", "READ_COMMIT"}, UNCHANGED batches,
         ws' = [Answered(ws, slot[s], a) EXCEPT !.active = None]
  PROVE  ReviewInv'
<1>1. ws.phase \in {"confirm", "unknown-commit"} /\ IsTab(ws)
  BY ActiveIs
<1>2. PICK w : w = Answered(ws, slot[s], a)
  OBVIOUS
<1>3. w = CommitAnswered(ws, a) \/ w = CommitReconciled(ws, a)
  BY <1>2 DEF Answered
<1>4. CASE \E b : w = AcceptResult(ws, b)
  <2>1. PICK b : w = AcceptResult(ws, b)
    BY <1>4
  <2>2. /\ IsTab(w) /\ w.phase = "result" /\ w.preview = ws.preview /\ w.analysis = ws.analysis
        /\ w.selection = ws.selection
    BY <1>1, <2>1 DEF AcceptResult, IsTab
  <2>3. /\ ws'.phase = "result" /\ ws'.preview = ws.preview /\ ws'.analysis = ws.analysis
        /\ ws'.selection = ws.selection
    BY <1>2, <2>2 DEF IsTab
  <2> QED
    BY <1>1, <2>3, ConfirmedShown
<1>5. CASE ~\E b : w = AcceptResult(ws, b)
  <2>1. PICK error, phase : /\ error = ErrorOf(a)
                            /\ phase = IF a.status = "conflict" THEN "conflict" ELSE "confirm"
    OBVIOUS
  <2>2. \/ w = [ws EXCEPT !.unknown = "commit", !.error = "other", !.phase = "unknown-commit"]
        \/ w = [ws EXCEPT !.attempt = NoAttempt, !.unknown = "none", !.error = error, !.phase = phase]
        \/ w = [ws EXCEPT !.error = error]
    BY <1>3, <1>5, <2>1 DEF CommitAnswered, CommitReconciled
  <2>3. phase \in Maps /\ ws.phase \in Maps /\ "unknown-commit" \in Maps
    BY <1>1, <2>1 DEF Maps
  <2>4. /\ IsTab(w) /\ w.phase \in Maps /\ w.preview = ws.preview /\ w.analysis = ws.analysis
        /\ w.selection = ws.selection
    BY <1>1, <2>2, <2>3 DEF IsTab
  <2>5. /\ ws'.phase \in Maps /\ ws'.preview = ws.preview /\ ws'.analysis = ws.analysis
        /\ ws'.selection = ws.selection
    BY <1>2, <2>4 DEF IsTab
  <2> QED
    BY <2>3, <2>5, ReviewKept
<1> QED
  BY <1>4, <1>5

\* The sequence ends in the committed import, the suggested mapping or a message.
LEMMA ResumeEnds ==
  ASSUME IInv, AgreeInv, NEW s \in Slots, ws.resuming = s, NEW a, UNCHANGED batches,
         ws' = ResumeAnswered(ws, slot[s], a)
  PROVE  ReviewInv'
<1>1. /\ IsTab(ws) /\ ws.phase = "upload" /\ ws.analysis = NoReview /\ ws.preview = None
      /\ ws.route \in DOMAIN batches /\ slot[s].batch = ws.route
  BY ResumingIs
<1>2. PICK b : b = ws.route
  OBVIOUS
<1>3. ASSUME ws' = [AcceptResult(ws, slot[s].batch) EXCEPT !.resuming = None] PROVE ReviewInv'
  <2>1. ws' = [ws EXCEPT !.result = b, !.unknown = "none", !.error = "none", !.phase = "result",
                         !.resume = "COMMITTED", !.attempt = NoAttempt, !.route = b, !.resuming = None]
    BY <1>1, <1>2, <1>3 DEF AcceptResult, IsTab
  <2>2. ws'.phase = "result" /\ ws'.analysis = NoReview
    BY <1>1, <2>1 DEF IsTab
  <2> QED
    BY <2>2 DEF ReviewInv, Maps, NoReview
<1>4. ASSUME ws' = [AcceptAnalysis(AcceptPreview(ws, slot[s].batch), slot[s].batch, NoSelection)
                     EXCEPT !.resume = "PREVIEWED", !.resuming = None]
      PROVE  ReviewInv'
  <2>1. PICK selection : selection = Selected(File(b), NoSelection)
    OBVIOUS
  <2>2. PICK review : review = [batch |-> b, selection |-> NoSelection]
    OBVIOUS
  <2>3. PICK w : w = AcceptPreview(ws, b)
    OBVIOUS
  <2>4. IsTab(w) /\ w.preview = b
    BY <1>1, <2>3 DEF AcceptPreview, IsTab
  <2>5. PICK x : x = AcceptAnalysis(w, b, NoSelection)
    OBVIOUS
  <2>6. x = [w EXCEPT !.analysis = review, !.selection = selection, !.stale = FALSE,
                      !.error = "none", !.phase = "mapping"]
    BY <2>1, <2>2, <2>5 DEF AcceptAnalysis
  <2>7. /\ IsTab(x) /\ x.preview = b /\ x.analysis = review /\ x.selection = selection
        /\ x.phase = "mapping"
    BY <2>4, <2>6 DEF IsTab
  <2>8. ws' = [x EXCEPT !.resume = "PREVIEWED", !.resuming = None]
    BY <1>1, <1>2, <1>4, <2>3, <2>5
  <2>9. /\ ws'.preview = b /\ ws'.analysis = review /\ ws'.selection = selection
        /\ ws'.phase = "mapping"
    BY <2>7, <2>8 DEF IsTab
  <2>10. ws'.analysis.selection = NoSelection
    BY <2>2, <2>9
  <2>11. Wanted(File(b), NoSelection)
    BY DEF Wanted, Selections
  <2>12. b \in DOMAIN batches
    BY <1>1, <1>2
  <2> QED
    BY <2>1, <2>9, <2>10, <2>11, <2>12, AnalysisShown
<1>5. ASSUME ws' = FailResume(ws, a) PROVE ReviewInv'
  <2>1. PICK resume : resume = IF a.status \in {"missing", "gone"} THEN "UNAVAILABLE" ELSE "ERROR"
    OBVIOUS
  <2>2. ws' = [ws EXCEPT !.resuming = None, !.resume = resume]
    BY <1>5, <2>1 DEF FailResume
  <2>3. ws'.phase = "upload"
    BY <1>1, <2>2 DEF IsTab
  <2> QED
    BY <2>3, NothingShown
<1> QED
  BY <1>3, <1>4, <1>5 DEF ResumeAnswered

LEMMA TakenAgrees ==
  ASSUME IInv, AgreeInv, NEW s \in Slots, NEW a, Hears(slot[s], a), Taken(s, a),
         NEW d, Consistent(batches, d), slot' = [slot EXCEPT ![s] = d]
  PROVE  AgreeInv'
<1>1. UNCHANGED batches
  BY DEF Taken
<1>2. FilesInv' /\ Grows(batches, batches')
  BY <1>1, SameGrows
<1>3. AnswersInv'
  BY <1>1, <1>2, AnswerStays
<1>4. CASE ws.active = s /\ ws' = [Answered(ws, slot[s], a) EXCEPT !.active = None]
  <2>1. slot[s].kind \in {"PREVIEW", "READ_PREVIEW", "ANALYSE", "COMMIT", "READ_COMMIT"}
    BY <1>4, ActiveIs
  <2>2. ReviewInv'
    BY <1>1, <1>4, <2>1, PreviewEnds, AnalysisEnds, CommitEnds
  <2> QED
    BY <1>2, <1>3, <2>2 DEF AgreeInv
<1>5. CASE ws.resuming = s /\ ws' = ResumeAnswered(ws, slot[s], a)
  <2>1. ReviewInv'
    BY <1>1, <1>5, ResumeEnds
  <2> QED
    BY <1>2, <1>3, <2>1 DEF AgreeInv
<1>6. CASE UNCHANGED ws
  <2>1. ReviewInv'
    BY <1>1, <1>6, ReviewKept
  <2> QED
    BY <1>2, <1>3, <2>1 DEF AgreeInv
<1> QED
  BY <1>4, <1>5, <1>6 DEF Taken, IsCurrent

LEMMA DeliverAgrees ==
  ASSUME IInv, AgreeInv, NEW s \in Slots, Deliver(s)
  PROVE  AgreeInv'
<1>1. PICK a : a = slot[s].answer
  OBVIOUS
<1>2. Hears(slot[s], a) /\ Taken(s, a)
  BY <1>1 DEF Deliver, Hears
<1>3. PICK d : d = IF ws.resuming = s THEN ResumeNext(slot[s], a) ELSE NoRequest
  OBVIOUS
<1>4. slot' = [slot EXCEPT ![s] = d]
  BY <1>1, <1>3 DEF Deliver
<1>5. \/ d = NoRequest \/ d = Sent("READ_PREVIEW", slot[s].batch) \/ d = Sent("ANALYSE", slot[s].batch)
  BY <1>3 DEF ResumeNext
<1>6. Consistent(batches, d)
  BY <1>5, NothingAsked, SentAsks DEF Reads
<1> QED
  BY <1>2, <1>4, <1>6, TakenAgrees

LEMMA LoseAgrees ==
  ASSUME IInv, AgreeInv, NEW s \in Slots, Lose(s)
  PROVE  AgreeInv'
<1>1. PICK a : a = Says("unknown")
  OBVIOUS
<1>2. a.status = "unknown" /\ a.batch = None
  BY <1>1 DEF Says, NoAnswer
<1>3. Hears(slot[s], a) /\ Taken(s, a)
  BY <1>1, <1>2 DEF Lose, Hears
<1>4. PICK d : d = Deserted(s)
  OBVIOUS
<1>5. Consistent(batches, d) /\ slot' = [slot EXCEPT ![s] = d]
  BY <1>4, DesertedAgrees DEF Lose
<1> QED
  BY <1>3, <1>5, TakenAgrees

-----------------------------------------------------------------------------
(* Both sides agree                                                        *)

LEMMA InitAgrees ==
  ASSUME Init
  PROVE  AgreeInv
<1>1. FilesInv
  BY DEF Init, FilesInv
<1>2. AnswersInv
  BY NothingAsked DEF Init, AnswersInv
<1>3. ws.phase = "upload"
  BY DEF Init, Blank
<1>4. ReviewInv
  BY <1>3 DEF ReviewInv, Maps
<1> QED
  BY <1>1, <1>2, <1>4 DEF AgreeInv

LEMMA NextAgrees ==
  ASSUME IInv, AgreeInv, [Next]_vars
  PROVE  AgreeInv'
<1>1. CASE (\E u \in DOMAIN Uploads : ChooseFile(u)) \/ Reset
             \/ ContinueToConfirmation \/ Confirm \/ ReturnToMapping
  BY <1>1, TabAgrees
<1>2. CASE ws.phase = "mapping" /\ EditMapping
  BY <1>2, EditMappingAgrees
<1>3. CASE \E b \in 0 .. Len(batches) : Mount(b)
  BY <1>3, MountAgrees
<1>4. CASE \E s \in Slots : Operator(s) \/ Deliver(s) \/ Lose(s)
  BY <1>4, OperatorAgrees, DeliverAgrees, LoseAgrees, Zenon
<1>5. CASE \E s \in Slots : ServePreview(s) \/ ServeRead(s) \/ ServeCommit(s) \/ Deny(s) \/ Drop(s)
  BY <1>5, ServePreviewAgrees, ServeReadAgrees, ServeCommitAgrees, DenyAgrees, DropAgrees, Zenon
<1>6. CASE \E b \in Touched \cap DOMAIN batches : CommitElsewhere(b) \/ Expire(b)
  <2>1. PICK b \in DOMAIN batches : CommitElsewhere(b) \/ Expire(b)
    BY <1>6
  <2> QED
    BY <2>1, CommitElsewhereAgrees, ExpireAgrees, Zenon
<1>7. CASE UNCHANGED vars
  <2>1. UNCHANGED <<batches, slot, ws>>
    BY <1>7 DEF vars
  <2>2. ReviewInv'
    BY <2>1, ReviewKept
  <2> QED
    BY <2>1, <2>2, TabSteps
<1> QED
  BY <1>1, <1>2, <1>3, <1>4, <1>5, <1>6, <1>7, Zenon DEF Next

-----------------------------------------------------------------------------
(* What was committed                                                      *)

\* Every row names its source, in a text short enough, and its target.
NamedRows(file, selection) ==
    \A r \in DOMAIN file.rows : /\ BoundedId(At(file.rows[r], selection.identity))
                                /\ ~Absent(At(file.rows[r], selection.columns["id"]))

Named(batch) == batch.status = "COMMITTED" => NamedRows(Parsed[batch.upload], batch.commit.selection)

CommittedInv == \A b \in DOMAIN batches : Named(batches[b])

\* A row without its target id has an error that is not of a repetition.
LEMMA TargetIsNamed ==
  ASSUME NEW file, file.collection \in DOMAIN Targets, NEW columns, NEW identity, NEW r,
         DOMAIN columns = FieldsOf(file.collection),
         RowErrors(file, columns, identity, r) \ Duplicates = {}
  PROVE  ~Absent(At(file.rows[r], columns["id"]))
<1>1. "id" \in DOMAIN columns /\ Def(file.collection, "id").required
  BY ContractAssumption DEF FieldsOf, Def
<1>2. FieldErrors(file.collection, "id", columns["id"], file.rows[r]) \subseteq RowErrors(file, columns, identity, r)
  <2>1. FieldErrors(file.collection, "id", columns["id"], file.rows[r])
          \in {FieldErrors(file.collection, f, columns[f], file.rows[r]) : f \in DOMAIN columns}
    BY <1>1, Zenon
  <2> QED
    BY <2>1, Zenon DEF RowErrors
<1>3. FieldErrors(file.collection, "id", columns["id"], file.rows[r]) \subseteq Duplicates
  BY <1>2
<1>4. PICK errors : errors = FieldErrors(file.collection, "id", columns["id"], file.rows[r])
  OBVIOUS
<1>5. columns["id"] = 0 => errors = {"REQUIRED_MAPPING_MISSING"}
  BY <1>1, <1>4 DEF FieldErrors, When
<1>6. columns["id"] # 0 /\ Absent(At(file.rows[r], columns["id"])) => errors = {"REQUIRED_VALUE_MISSING"}
  BY <1>1, <1>4 DEF FieldErrors, When
<1> QED
  BY <1>3, <1>4, <1>5, <1>6 DEF Duplicates

LEMMA ReadyIsNamed ==
  ASSUME NEW file, IsFile(file), NEW selection \in Selections(file),
         Reviewing(file, selection).outcome = "READY"
  PROVE  NamedRows(file, selection)
<1>1. selection.identity # 0 /\ CommitOutcome(file, selection) = "READY"
  BY DEF Reviewing, Answering
<1>2. file.collection \in DOMAIN Targets /\ selection # NoSelection
  BY <1>1, UnsupportedSelections DEF NoSelection
<1>3. DOMAIN selection.columns = FieldsOf(file.collection)
  <2>1. selection \in [columns : [FieldsOf(file.collection) -> 0 .. Len(file.headers)],
                       identity : 0 .. Len(file.headers)]
    BY <1>2, SelectionsAre
  <2> QED
    BY <2>1
<1>4. PICK columns, identity : columns = selection.columns /\ identity = selection.identity
  OBVIOUS
<1>5. PICK rows : rows = ValidateRows(file, columns, identity)
  OBVIOUS
<1>6. DOMAIN rows = RowsOf(file) /\ DOMAIN file.rows = RowsOf(file)
        /\ \A r \in RowsOf(file) : rows[r].errors = RowErrors(file, columns, identity, r)
  BY <1>5, RowsAre
<1>7. ~\E r \in DOMAIN rows : \/ rows[r].errors \ Duplicates # {}
                              \/ Absent(file.rows[r][identity])
                              \/ Is(file.rows[r][identity], "overlong")
  BY <1>1, <1>4, <1>5, Zenon DEF CommitOutcome
<1>8. ASSUME NEW r \in DOMAIN file.rows
      PROVE  BoundedId(At(file.rows[r], identity)) /\ ~Absent(At(file.rows[r], columns["id"]))
  <2>1. At(file.rows[r], identity) = file.rows[r][identity]
    BY <1>1, <1>4 DEF At
  <2>2. BoundedId(At(file.rows[r], identity))
    BY <1>6, <1>7, <2>1 DEF BoundedId, Absent
  <2>3. RowErrors(file, columns, identity, r) \ Duplicates = {}
    BY <1>6, <1>7
  <2> QED
    BY <1>2, <1>3, <1>4, <2>2, <2>3, TargetIsNamed
<1> QED
  BY <1>4, <1>8 DEF NamedRows

\* A batch becomes committed with the selection of a plan that was ready.
LEMMA CommitIsNamed ==
  ASSUME IInv, AgreeInv, CommittedInv, NEW b \in DOMAIN batches, NEW commit,
         commit.selection \in Selections(File(b)), Review(b, commit.selection).outcome = "READY",
         batches' = [batches EXCEPT ![b].status = "COMMITTED", ![b].commit = commit]
  PROVE  CommittedInv'
<1>1. PICK selection : selection = commit.selection
  OBVIOUS
<1>2. IsFile(File(b))
  BY FileIs DEF AgreeInv
<1>3. Reviewing(File(b), selection).outcome = "READY"
  BY <1>1, ReviewIs
<1>4. NamedRows(File(b), selection)
  BY <1>1, <1>2, <1>3, ReadyIsNamed
<1>5. IsBatch(batches[b])
  BY DEF IInv, Shaped, Staging
<1>6. batches'[b].upload = batches[b].upload /\ batches'[b].commit = commit
  BY <1>5 DEF IsBatch
<1>7. NamedRows(Parsed[batches'[b].upload], batches'[b].commit.selection)
  BY <1>1, <1>4, <1>6 DEF File
<1>8. \A c \in DOMAIN batches' \ {b} : c \in DOMAIN batches /\ batches'[c] = batches[c]
  OBVIOUS
<1>9. ASSUME NEW c \in DOMAIN batches' PROVE Named(batches'[c])
  BY <1>7, <1>8 DEF Named, CommittedInv
<1> QED
  BY <1>9 DEF CommittedInv

LEMMA ServePreviewNames ==
  ASSUME IInv, AgreeInv, CommittedInv, NEW s \in Slots, ServePreview(s)
  PROVE  CommittedInv'
<1>1. ASSUME NEW e, Storable(e), e.status # "COMMITTED", batches' = Append(batches, e)
      PROVE  CommittedInv'
  <2>1. Staging(batches) /\ Len(batches) \in Nat
    BY DEF IInv, Shaped, Staging
  <2>2. /\ DOMAIN batches = 1 .. Len(batches) /\ DOMAIN batches' = 1 .. Len(batches) + 1
        /\ batches'[Len(batches) + 1] = e /\ \A b \in DOMAIN batches : batches'[b] = batches[b]
    BY <1>1, <2>1, AppendStaging
  <2>3. ASSUME NEW b \in DOMAIN batches' PROVE Named(batches'[b])
    <3>1. b = Len(batches) + 1 \/ b \in DOMAIN batches
      BY <2>1, <2>2
    <3> QED
      BY <1>1, <2>2, <3>1 DEF Named, CommittedInv
  <2> QED
    BY <2>3 DEF CommittedInv
<1>2. CASE UNCHANGED batches
  BY <1>2 DEF CommittedInv
<1>3. PICK staged : staged = Staged(slot[s].upload)
  OBVIOUS
<1>4. Storable(staged) /\ staged.status # "COMMITTED"
  BY <1>3 DEF ServePreview, IInv, SlotInv, Sound, Storable, IsBatch, Staged
<1>5. PICK spoilt : spoilt = [staged EXCEPT !.status = "NONE"]
  OBVIOUS
<1>6. Storable(spoilt) /\ spoilt.status # "COMMITTED"
  BY <1>4, <1>5 DEF Storable, IsBatch
<1>7. UNCHANGED batches \/ batches' = Append(batches, staged) \/ batches' = Append(batches, spoilt)
  BY <1>3, <1>5 DEF ServePreview
<1> QED
  BY <1>1, <1>2, <1>4, <1>6, <1>7

LEMMA ServeCommitNames ==
  ASSUME IInv, AgreeInv, CommittedInv, NEW s \in Slots, ServeCommit(s)
  PROVE  CommittedInv'
<1>1. CASE UNCHANGED batches
  BY <1>1 DEF CommittedInv
<1>2. PICK b, commit : b = slot[s].batch /\ commit = Input(slot[s])
  OBVIOUS
<1>3. CASE /\ Review(b, slot[s].selection).outcome = "READY"
           /\ batches' = [batches EXCEPT ![b].status = "COMMITTED", ![b].commit = commit]
  <2>1. slot[s].kind = "COMMIT" /\ b \in DOMAIN batches
    BY <1>2 DEF ServeCommit, IInv, SlotInv, Sound
  <2>2. commit.selection = slot[s].selection
    BY <1>2 DEF Input
  <2>3. commit.selection \in Selections(File(b))
    BY <1>2, <2>1, <2>2 DEF AgreeInv, AnswersInv, Consistent, Asks, Committable, File
  <2> QED
    BY <1>3, <2>1, <2>2, <2>3, CommitIsNamed
<1> QED
  BY <1>1, <1>2, <1>3, Zenon DEF ServeCommit

LEMMA CommitElsewhereNames ==
  ASSUME IInv, AgreeInv, CommittedInv, NEW b \in DOMAIN batches, CommitElsewhere(b)
  PROVE  CommittedInv'
<1>1. PICK suggested : suggested = Selected(File(b), NoSelection)
  OBVIOUS
<1>2. PICK commit : commit = [key |-> Nobody, selection |-> suggested]
  OBVIOUS
<1>3. commit.selection = suggested
  BY <1>2
<1>4. Wanted(File(b), NoSelection)
  BY DEF Wanted, Selections
<1>5. IsFile(File(b))
  BY FileIs DEF AgreeInv
<1>6. suggested \in Selections(File(b))
  BY <1>1, <1>4, <1>5, SelectedIsHeld, HeldIsWanted DEF Wanted
<1>7. Review(b, suggested).outcome = "READY"
      /\ batches' = [batches EXCEPT ![b].status = "COMMITTED", ![b].commit = commit]
  BY <1>1, <1>2 DEF CommitElsewhere
<1> QED
  BY <1>3, <1>6, <1>7, CommitIsNamed

LEMMA ExpireNames ==
  ASSUME IInv, CommittedInv, NEW b \in DOMAIN batches, Expire(b)
  PROVE  CommittedInv'
<1>1. IsBatch(batches[b]) /\ batches' = [batches EXCEPT ![b].expired = TRUE]
  BY DEF IInv, Shaped, Staging, Expire
<1>2. /\ batches'[b].upload = batches[b].upload /\ batches'[b].status = batches[b].status
      /\ batches'[b].commit = batches[b].commit
  BY <1>1 DEF IsBatch
<1>3. \A c \in DOMAIN batches' \ {b} : c \in DOMAIN batches /\ batches'[c] = batches[c]
  BY <1>1
<1>4. ASSUME NEW c \in DOMAIN batches' PROVE Named(batches'[c])
  BY <1>2, <1>3 DEF Named, CommittedInv
<1> QED
  BY <1>4 DEF CommittedInv

LEMMA NextNames ==
  ASSUME IInv, AgreeInv, CommittedInv, [Next]_vars
  PROVE  CommittedInv'
<1>1. CASE UNCHANGED batches
  BY <1>1 DEF CommittedInv
<1>2. CASE (\E u \in DOMAIN Uploads : ChooseFile(u)) \/ Reset
             \/ ContinueToConfirmation \/ Confirm \/ ReturnToMapping
  <2>1. UNCHANGED batches
    BY <1>2 DEF ChooseFile, Reset, ContinueToConfirmation, Confirm, ReturnToMapping
  <2> QED
    BY <1>1, <2>1
<1>3. CASE ws.phase = "mapping" /\ EditMapping
  <2>1. UNCHANGED batches
    BY <1>3, Zenon DEF EditMapping, UpdateSourceIdentity, UpdateSelection
  <2> QED
    BY <1>1, <2>1
<1>4. CASE \E b \in 0 .. Len(batches) : Mount(b)
  BY <1>1, <1>4 DEF Mount
<1>5. CASE \E s \in Slots : Operator(s) \/ Deliver(s) \/ Lose(s)
  <2>1. PICK s \in Slots : Operator(s) \/ Deliver(s) \/ Lose(s)
    BY <1>5
  <2>2. Operator(s) => UNCHANGED batches
    BY Zenon DEF Operator, CreatePreview, RetryPreview, SubmitPreview, ReconcilePreview, ReviewMapping,
       RecalculateDataHealth, CommitReviewed, RetryCommit, SubmitCommit, ReconcileCommit, RetryResume, Begin
  <2>3. Deliver(s) \/ Lose(s) => UNCHANGED batches
    BY Zenon DEF Deliver, Lose, Taken
  <2> QED
    BY <1>1, <2>1, <2>2, <2>3
<1>6. CASE \E s \in Slots : ServePreview(s) \/ ServeRead(s) \/ ServeCommit(s) \/ Deny(s) \/ Drop(s)
  <2>1. PICK s \in Slots : ServePreview(s) \/ ServeRead(s) \/ ServeCommit(s) \/ Deny(s) \/ Drop(s)
    BY <1>6
  <2>2. ServeRead(s) \/ Deny(s) \/ Drop(s) => UNCHANGED batches
    BY Zenon DEF ServeRead, Deny, Drop
  <2> QED
    BY <1>1, <2>1, <2>2, ServePreviewNames, ServeCommitNames
<1>7. CASE \E b \in Touched \cap DOMAIN batches : CommitElsewhere(b) \/ Expire(b)
  <2>1. PICK b \in DOMAIN batches : CommitElsewhere(b) \/ Expire(b)
    BY <1>7
  <2> QED
    BY <2>1, CommitElsewhereNames, ExpireNames
<1>8. CASE UNCHANGED vars
  BY <1>1, <1>8 DEF vars
<1> QED
  BY <1>2, <1>3, <1>4, <1>5, <1>6, <1>7, <1>8, Zenon DEF Next

-----------------------------------------------------------------------------
(* The conclusions                                                         *)

LEMMA CommittableHolds ==
  ASSUME IInv, AgreeInv
  PROVE  ReviewedIsCommittable
<1> SUFFICES ASSUME NEW t \in Slots, slot[t].kind = "COMMIT"
             PROVE  \/ Review(slot[t].batch, slot[t].selection).outcome = "READY"
                    \/ \E r \in DOMAIN File(slot[t].batch).rows :
                         Is(File(slot[t].batch).rows[r][slot[t].selection.identity], "overlong")
  BY DEF ReviewedIsCommittable
<1>1. PICK b, sel : b = slot[t].batch /\ sel = slot[t].selection
  OBVIOUS
<1>2. b \in DOMAIN batches
  BY <1>1 DEF IInv, SlotInv, Sound
<1>3. PICK file : file = File(b)
  OBVIOUS
<1>4. Committable(file, sel)
  BY <1>1, <1>3 DEF AgreeInv, AnswersInv, Consistent, Asks, File
<1>5. Review(b, sel) = Reviewing(file, sel)
  BY <1>2, <1>3, <1>4, ReviewIs DEF Committable
<1> QED
  BY <1>1, <1>3, <1>4, <1>5 DEF Committable

\* The rows of a result are ones the browser can follow.
Listed(rows, summary) ==
    /\ Len(rows) = summary.total
    /\ \A r \in DOMAIN rows : BoundedId(rows[r].source) /\ BoundedId(rows[r].target)
    /\ Count({r \in DOMAIN rows : rows[r].repeats}) = summary.skipped

LEMMA ListedIs ==
  ASSUME NEW file, IsFile(file), NEW selection, NamedRows(file, selection),
         NEW rows, rows = CommittedRows(file, selection)
  PROVE  Listed(rows, Summarize(file, selection))
           <=> ~\E r \in DOMAIN file.rows : Is(At(file.rows[r], selection.columns["id"]), "overlong")
<1>1. PICK n \in Nat : n = Len(file.rows) /\ DOMAIN file.rows = 1 .. n
  BY DEF IsFile
<1>2. DOMAIN rows = 1 .. n
  BY <1>1 DEF CommittedRows
<1>3. \A r \in 1 .. n : /\ rows[r].source = At(file.rows[r], selection.identity)
                        /\ rows[r].target = At(file.rows[r], selection.columns["id"])
                        /\ rows[r].repeats = (FirstWithIdentity(file.rows, selection.identity, r) # r)
  BY <1>1 DEF CommittedRows
<1>4. Len(rows) = n
  <2>1. rows = [r \in 1 .. n |-> rows[r]]
    BY <1>1 DEF CommittedRows
  <2> QED
    BY <2>1
<1>5. PICK summary : summary = Summarize(file, selection)
  OBVIOUS
<1>6. summary.total = n /\ summary.skipped = Skipped(file, selection.identity)
  BY <1>1, <1>5 DEF Summarize
<1>7. {r \in DOMAIN rows : rows[r].repeats}
        = {r \in DOMAIN file.rows : FirstWithIdentity(file.rows, selection.identity, r) # r}
  BY <1>1, <1>2, <1>3
<1>8. Count({r \in DOMAIN rows : rows[r].repeats}) = summary.skipped
  BY <1>6, <1>7, Zenon DEF Skipped
<1>9. \A r \in 1 .. n : BoundedId(rows[r].source)
  BY <1>1, <1>3 DEF NamedRows
<1>10. \A r \in 1 .. n : BoundedId(rows[r].target) <=> ~Is(At(file.rows[r], selection.columns["id"]), "overlong")
  BY <1>1, <1>3 DEF NamedRows, BoundedId, Absent
<1> QED
  BY <1>1, <1>2, <1>4, <1>5, <1>6, <1>8, <1>9, <1>10 DEF Listed

LEMMA ReadableHolds ==
  ASSUME IInv, AgreeInv, CommittedInv
  PROVE  AnswersAreReadable
<1> SUFFICES ASSUME NEW t \in Slots, slot[t].state = "answered"
             PROVE  /\ slot[t].answer.status = "unreadable" => batches[slot[t].batch].status = "COMMITTED"
                    /\ /\ slot[t].kind \in {"COMMIT", "READ_COMMIT"} /\ slot[t].answer.status = "ok"
                       /\ File(slot[t].batch).rows # <<>>
                       => (Accepts(slot[t].answer, [total |-> {Len(File(slot[t].batch).rows)}, reconciled |-> {}])
                             <=> slot[t].answer.cleaned \/ ~TargetTooLong(slot[t].batch))
  BY DEF AnswersAreReadable
<1>1. Tells(batches, slot[t], slot[t].answer) /\ Sound(batches, slot[t])
  BY DEF AgreeInv, AnswersInv, Consistent, IInv, SlotInv
<1>2. slot[t].answer.status = "unreadable" => batches[slot[t].batch].status = "COMMITTED"
  BY <1>1 DEF Tells
<1>3. ASSUME slot[t].kind \in {"COMMIT", "READ_COMMIT"}, slot[t].answer.status = "ok",
             File(slot[t].batch).rows # <<>>
      PROVE  Accepts(slot[t].answer, [total |-> {Len(File(slot[t].batch).rows)}, reconciled |-> {}])
               <=> slot[t].answer.cleaned \/ ~TargetTooLong(slot[t].batch)
  <2>1. PICK a, b : a = slot[t].answer /\ b = slot[t].batch
    OBVIOUS
  <2>2. b \in DOMAIN batches /\ a.batch = b /\ (a.cleaned => a.reconciled) /\ a.status = "ok"
    BY <1>1, <1>3, <2>1 DEF Sound, Tells, Reads
  <2>3. PICK file : file = File(b)
    OBVIOUS
  <2>4. IsFile(file) /\ file.rows # <<>>
    BY <1>3, <2>1, <2>2, <2>3, FileIs DEF AgreeInv
  <2>5. PICK sel : sel = batches[b].commit.selection
    OBVIOUS
  <2>6. PICK summary : summary = Summarize(file, sel)
    OBVIOUS
  <2>7. /\ summary.total = Len(file.rows) /\ summary.total = summary.committed + summary.skipped
        /\ summary.total # 0
    BY <2>4, <2>6, SummaryAddsUp
  <2>8. batches[b].status = "COMMITTED"
    BY <1>1, <1>3, <2>1 DEF Tells
  <2>9. NamedRows(file, sel)
    BY <2>2, <2>3, <2>5, <2>8 DEF CommittedInv, Named, File
  <2>10. TargetTooLong(b) <=> \E r \in DOMAIN file.rows : Is(At(file.rows[r], sel.columns["id"]), "overlong")
    BY <2>3, <2>5 DEF TargetTooLong
  <2>11. PICK result : result = ResultOf(a)
    OBVIOUS
  <2>12. PICK listed : listed = CommittedRows(file, sel)
    OBVIOUS
  <2>13. /\ result.summary = summary /\ result.reconciled = a.reconciled /\ result.cleaned = a.cleaned
         /\ ~a.cleaned => result.rows = listed
    BY <2>2, <2>3, <2>5, <2>6, <2>11, <2>12 DEF ResultOf
  <2>14. PICK expected : expected = [total |-> {Len(file.rows)}, reconciled |-> {}]
    OBVIOUS
  <2>15. expected.total = {Len(file.rows)} /\ expected.reconciled = {}
    BY <2>14
  <2>16. Listed(listed, summary) <=> ~TargetTooLong(b)
    BY <2>4, <2>6, <2>7, <2>9, <2>10, <2>12, ListedIs
  <2>17. IsCommittedResult(result, expected) <=> a.cleaned \/ ~TargetTooLong(b)
    BY <2>2, <2>7, <2>13, <2>15, <2>16 DEF IsCommittedResult, Listed
  <2> QED
    BY <2>1, <2>2, <2>3, <2>11, <2>14, <2>17 DEF Accepts
<1> QED
  BY <1>2, <1>3

LEMMA FactsHold ==
  ASSUME IInv, AgreeInv
  PROVE  FactsAgree
<1> SUFFICES ASSUME ws.phase = "result", ws.analysis # NoReview,
                    batches[ws.result].commit = [key |-> ws.key, selection |-> ws.selection]
             PROVE  CommittedFactsFromAnalysis(
                        [summary |-> Summarize(File(ws.result), batches[ws.result].commit.selection)],
                        Shown, File(ws.preview).collection)
                    = BuildImportPilotEvidenceFacts(File(ws.result), batches[ws.result].commit.selection)
  BY DEF FactsAgree
<1>1. PICK b : b = ws.preview
  OBVIOUS
<1>2. PICK s : s = ws.analysis.selection
  OBVIOUS
<1>3. PICK file : file = File(b)
  OBVIOUS
<1>4. /\ b \in DOMAIN batches /\ Wanted(file, s) /\ ws.selection = Selected(file, s)
      /\ Confirmable(Shown.health)
  BY <1>1, <1>2, <1>3 DEF AgreeInv, ReviewInv
<1>5. ws.analysis.batch = b /\ ws.result = b
  <2>1. DOMAIN batches = 1 .. Len(batches)
    BY DEF IInv, Shaped, Staging
  <2>2. b # None
    BY <1>4, <2>1 DEF None
  <2> QED
    BY <1>1, <2>2 DEF IInv, TabInv, ResultInv
<1>6. IsFile(file)
  BY <1>3, <1>4, FileIs DEF AgreeInv
<1>7. Shown = Analyze(file, s)
  BY <1>2, <1>3, <1>4, <1>5, ShownIs
<1>8. file.collection \in DOMAIN Targets
  BY <1>4, <1>6, <1>7, UnsupportedBlocks
<1>9. PICK sel : sel = Selected(file, s)
  OBVIOUS
<1>10. batches[ws.result].commit.selection = sel
  BY <1>4, <1>9
<1>11. CommittedFactsFromAnalysis([summary |-> Summarize(file, sel)], Analyze(file, s), file.collection)
         = BuildImportPilotEvidenceFacts(file, sel)
  BY <1>6, <1>8, <1>9, FactsAre
<1> QED
  BY <1>1, <1>3, <1>5, <1>7, <1>10, <1>11

\* What the browser lets through, reads and shows agrees with the server's own
\* rules, but for the exceptions AnswersAreReadable and ReviewedIsCommittable
\* name (importContracts.mjs and ImportWorkspace.jsx against importMapping.js,
\* importCommit.js and importRepository.js).
THEOREM Agreement == Spec => []SidesAgree
<1>1. Init => IInv /\ AgreeInv /\ CommittedInv
  <2>1. Init => CommittedInv
    BY DEF Init, CommittedInv
  <2> QED
    BY <2>1, InitHolds, InitAgrees
<1>2. IInv /\ AgreeInv /\ CommittedInv /\ [Next]_vars => IInv' /\ AgreeInv' /\ CommittedInv'
  BY NextKeeps, NextAgrees, NextNames
<1>3. IInv /\ AgreeInv /\ CommittedInv => SidesAgree
  BY CommittableHolds, ReadableHolds, FactsHold DEF SidesAgree
<1> QED
  BY <1>1, <1>2, <1>3, PTL DEF Spec
=============================================================================
