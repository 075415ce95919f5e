--------------------------- MODULE ImportContracts ---------------------------
(***************************************************************************)
(* What the import service and the browser tell each other.  The server    *)
(* parses an upload into cells, drafts a mapping of its columns, validates *)
(* every row and counts the data health (csvParser.js, importMapping.js,   *)
(* importCommit.js).  The browser does not trust the answer: it counts     *)
(* again from the rows it was shown (web/lib/importContracts.mjs), and a   *)
(* successful response it cannot follow counts as no response at all.      *)
(*                                                                         *)
(* Both sides are written out here, each from its own code.  A text is an  *)
(* element of the domain of Literal, which gives its kind and the traits   *)
(* the validators look for.  A column is its ordinal, 0 for none.          *)
(***************************************************************************)
EXTENDS Naturals, FiniteSets, SequencesExt

CONSTANTS
    Literal,            \* text -> [kind, is]: what a cell that holds it is
    Targets,            \* collection -> [fields, important, contact]
    Aliases,            \* field -> sequence of normalised header texts
    Normal,             \* header -> its text as aliases are compared
    RowSampleLimit,     \* rows an answer shows
    FieldSampleLimit,   \* sample values per mapped field
    MaxColumns          \* columns an upload may have

Traits == {"timestamp", "negative", "above_one", "unrepresentable", "currency",
           "task_status", "completed", "overlong"}
Kinds == {"MISSING", "BLANK", "NULL", "UNKNOWN", "NUMERIC", "KNOWN_ZERO", "NONNUMERIC"}
Types == {"TEXT", "NUMBER", "STATUS", "TIMESTAMP"}

NoText == "(no text)"       \* where a row has no cell

ASSUME ContractAssumption ==
    /\ \A text \in DOMAIN Literal :
        Literal[text].kind \in Kinds \ {"MISSING"} /\ Literal[text].is \subseteq Traits
    /\ NoText \notin DOMAIN Literal /\ "revenue_actions" \notin DOMAIN Targets
    /\ \A c \in DOMAIN Targets : DOMAIN Targets[c].fields # {}
    /\ \A c \in DOMAIN Targets : \A f \in DOMAIN Targets[c].fields :
        Targets[c].fields[f].type \in Types /\ Targets[c].fields[f].required \in BOOLEAN
    /\ \A c \in DOMAIN Targets :
        Targets[c].important \cup Targets[c].contact \subseteq DOMAIN Targets[c].fields
    /\ \A c \in DOMAIN Targets :
        "id" \in DOMAIN Targets[c].fields /\ Targets[c].fields["id"].required
    /\ RowSampleLimit \in Nat /\ FieldSampleLimit \in 1..RowSampleLimit /\ MaxColumns \in Nat

Min2(a, b) == IF a <= b THEN a ELSE b
When(condition, x) == IF condition THEN {x} ELSE {}
Count(S) == Cardinality(S)

-----------------------------------------------------------------------------
(***************************************************************************)
(* The parser                                                              *)
(***************************************************************************)
ClassifyCell(text) == [kind |-> Literal[text].kind, raw |-> text]
MissingCell == [kind |-> "MISSING", raw |-> NoText]
Is(cell, trait) == cell.kind # "MISSING" /\ trait \in Literal[cell.raw].is

\* Headers are unique, nonblank and at most MaxColumns.
ValidHeaders(headers) ==
    /\ headers # <<>> /\ Len(headers) <= MaxColumns
    /\ \A i, j \in DOMAIN headers : headers[i] = headers[j] => i = j

\* An upload that is not the text of a CSV file, or has a row longer than the
\* header, is refused; a shorter row has missing cells.
Parses(upload) ==
    /\ upload.wellFormed /\ ValidHeaders(upload.headers)
    /\ \A r \in DOMAIN upload.records : Len(upload.records[r]) <= Len(upload.headers)

ParseCsvUpload(upload) ==
    [collection |-> upload.collection, headers |-> upload.headers,
     rows |-> [r \in DOMAIN upload.records |->
        [c \in DOMAIN upload.headers |->
            IF c \in DOMAIN upload.records[r] THEN ClassifyCell(upload.records[r][c])
            ELSE MissingCell]]]

CellsOfKind(rows, kinds) ==
    {cell \in (DOMAIN rows) \X (1..MaxColumns) :
        LET row == rows[cell[1]] IN cell[2] \in DOMAIN row /\ row[cell[2]].kind \in kinds}

ValueKindCounts(rows) == [k \in Kinds |-> Count(CellsOfKind(rows, {k}))]

-----------------------------------------------------------------------------
(***************************************************************************)
(* The draft mapping                                                       *)
(***************************************************************************)
FieldsOf(collection) == DOMAIN Targets[collection].fields
Def(collection, f) == Targets[collection].fields[f]
ColumnsOf(file) == DOMAIN file.headers

\* The headers of the first alias any header matches.
AliasMatches(headers, aliases) ==
    LET hits(k) == {i \in DOMAIN headers : Normal[headers[i]] = aliases[k]}
        first == {k \in DOMAIN aliases : hits(k) # {} /\ \A j \in 1..(k - 1) : hits(j) = {}}
    IN UNION {hits(k) : k \in first}

\* The column a field is suggested: its own name, else its one best alias.
Suggested(headers, f) ==
    LET exact == {i \in DOMAIN headers : headers[i] = f}   \* unique headers: at most one
        matches == IF exact # {} THEN exact ELSE AliasMatches(headers, Aliases[f])
    IN IF Count(matches) = 1 THEN CHOOSE i \in matches : TRUE ELSE 0

\* A column two fields would draw from is given to neither.
WithoutReuse(columns) ==
    [f \in DOMAIN columns |->
        IF \E g \in (DOMAIN columns) \ {f} : columns[g] = columns[f] THEN 0 ELSE columns[f]]

NoSelection == [columns |-> <<>>, identity |-> 0]

MapFields(file, selection) ==
    WithoutReuse([f \in FieldsOf(file.collection) |->
        IF selection = NoSelection THEN Suggested(file.headers, f) ELSE selection.columns[f]])

MapSourceIdentity(file, selection) ==
    IF selection = NoSelection THEN Suggested(file.headers, "source_id") ELSE selection.identity

\* What the server accepts of a selection: known columns, each used once.
ValidSelection(file, selection) ==
    /\ DOMAIN selection.columns = FieldsOf(file.collection)
    /\ selection.identity \in ColumnsOf(file) \cup {0}
    /\ \A f \in DOMAIN selection.columns : selection.columns[f] \in ColumnsOf(file) \cup {0}
    /\ \A f, g \in DOMAIN selection.columns :
        selection.columns[f] = selection.columns[g] => f = g \/ selection.columns[f] = 0

-----------------------------------------------------------------------------
(***************************************************************************)
(* Validation of every row                                                 *)
(***************************************************************************)
Numeric == {"NUMERIC", "KNOWN_ZERO"}
Absent(cell) == cell.kind \in {"MISSING", "BLANK", "NULL", "UNKNOWN"}
\* Mutant: an unknown value is counted as missing by the server alone.
MissingForCountUnknown(cell) == cell.kind \in {"MISSING", "BLANK", "NULL", "UNKNOWN"}

MissingForCount(cell) == cell.kind \in {"MISSING", "BLANK", "NULL"}
At(row, column) == IF column = 0 THEN MissingCell ELSE row[column]

\* The errors of one present cell of a field.
CellErrors(collection, f, cell) ==
    LET type == Def(collection, f).type
        number == cell.kind \in Numeric
        deal == collection = "opportunities"
    IN  When(type = "NUMBER" /\ number /\ Is(cell, "unrepresentable"), "POSTGRES_NUMERIC_UNREPRESENTABLE")
        \cup When(type = "TIMESTAMP" /\ ~Is(cell, "timestamp"), "TIMESTAMP_INVALID")
        \cup When(deal /\ f = "currency" /\ ~Is(cell, "currency"), "COMMERCIAL_CURRENCY_INVALID")
        \cup When(deal /\ f = "probability" /\ number /\ (Is(cell, "negative") \/ Is(cell, "above_one")),
                  "PROBABILITY_OUT_OF_RANGE")
        \cup When(deal /\ f = "value" /\ number /\ Is(cell, "negative"), "COMMERCIAL_VALUE_OUT_OF_RANGE")
        \cup When(collection = "tasks" /\ f = "status" /\ ~Is(cell, "task_status"), "TASK_STATUS_INVALID")

FieldErrors(collection, f, column, row) ==
    LET required == Def(collection, f).required
        cell == At(row, column)
    IN  IF column = 0 THEN When(required, "REQUIRED_MAPPING_MISSING")
        ELSE IF Absent(cell) THEN When(required, "REQUIRED_VALUE_MISSING")
        ELSE CellErrors(collection, f, cell)

\* A completed task says when, and no other task does.
TaskErrors(columns, row) ==
    LET status == At(row, columns["status"])
        completedAt == At(row, columns["completed_at"])
    IN  IF Absent(status) \/ ~Is(status, "task_status") THEN {}
        ELSE When(Is(status, "completed") /\ Absent(completedAt), "TASK_COMPLETION_TIMESTAMP_REQUIRED")
             \cup When(~Is(status, "completed") /\ ~Absent(completedAt),
                       "TASK_COMPLETION_TIMESTAMP_INCONSISTENT")

DuplicateErrors(rows, identity, r) ==
    When(/\ ~Absent(At(rows[r], identity))
         /\ \E q \in 1..(r - 1) : At(rows[q], identity) = At(rows[r], identity), "DUPLICATE_SOURCE_ID")
    \cup When(\E q \in 1..(r - 1) : rows[q] = rows[r], "EXACT_REPEATED_SOURCE_ROW")
Duplicates == {"DUPLICATE_SOURCE_ID", "EXACT_REPEATED_SOURCE_ROW"}

RowErrors(file, columns, identity, r) ==
    (UNION {FieldErrors(file.collection, f, columns[f], file.rows[r]) : f \in DOMAIN columns})
    \cup (IF file.collection = "tasks" THEN TaskErrors(columns, file.rows[r]) ELSE {})
    \cup DuplicateErrors(file.rows, identity, r)

ValidateRows(file, columns, identity) ==
    [r \in DOMAIN file.rows |-> [cells |-> file.rows[r],
                                 errors |-> RowErrors(file, columns, identity, r)]]

-----------------------------------------------------------------------------
(***************************************************************************)
(* Data health, and the analysis                                           *)
(***************************************************************************)
RowsWhere(rows, P(_)) == Count({r \in DOMAIN rows : P(rows[r])})

TimestampCoverage(rows, column) ==
    LET covered(row) == ~Absent(At(row.cells, column)) /\ Is(At(row.cells, column), "timestamp")
        missing(row) == Absent(At(row.cells, column))
    IN [covered |-> RowsWhere(rows, covered), missing |-> RowsWhere(rows, missing),
        invalid |-> Len(rows) - RowsWhere(rows, covered) - RowsWhere(rows, missing)]

TimestampFields(collection) ==
    {f \in FieldsOf(collection) : Def(collection, f).type = "TIMESTAMP"}

Unmapped(columns, headers, identity) ==
    (DOMAIN headers) \ ({columns[f] : f \in DOMAIN columns} \cup {identity})

BuildDataHealth(file, rows, columns, identity) ==
    LET target == Targets[file.collection]
        valid(row) == row.errors = {}
        duplicate(row) == row.errors \cap Duplicates # {}
        identified(row) == ~Absent(At(row.cells, identity))
        contactable(row) == \E f \in target.contact : ~Absent(At(row.cells, columns[f]))
        missing(f) == LET lacks(row) == MissingForCount(At(row.cells, columns[f]))
                      IN IF columns[f] = 0 THEN Len(rows) ELSE RowsWhere(rows, lacks)
    IN [total |-> Len(rows), valid |-> RowsWhere(rows, valid),
        blocking |-> Len(rows) - RowsWhere(rows, valid),
        duplicates |-> RowsWhere(rows, duplicate),
        missing |-> [f \in target.important |-> missing(f)],
        unknown |-> Count(CellsOfKind(file.rows, {"UNKNOWN", "NULL"})),
        unmappedFields |-> {f \in DOMAIN columns : columns[f] = 0},
        unmappedColumns |-> Unmapped(columns, file.headers, identity),
        timestamps |-> [f \in TimestampFields(file.collection) |-> TimestampCoverage(rows, columns[f])],
        identified |-> RowsWhere(rows, identified),
        contactable |-> RowsWhere(rows, contactable)]

\* The values of the first rows of a mapped column.
Samples(rows, column) ==
    IF column = 0 THEN <<>>
    ELSE [r \in 1..Min2(Len(rows), FieldSampleLimit) |-> rows[r][column]]

NoAnalysis == [status |-> "NONE"]

\* A collection that cannot be imported: everything blocks.
UnsupportedAnalysis(file) ==
    [status |-> "UNSUPPORTED_TARGET", collection |-> file.collection, columns |-> <<>>, identity |-> 0,
     samples |-> <<>>, unmapped |-> DOMAIN file.headers,
     rows |-> [r \in 1..Min2(Len(file.rows), RowSampleLimit) |->
        [cells |-> file.rows[r], errors |-> {"IMPORT_TARGET_UNSUPPORTED"}]],
     health |-> [total |-> Len(file.rows), valid |-> 0, blocking |-> Len(file.rows), duplicates |-> 0,
        missing |-> <<>>, unknown |-> Count(CellsOfKind(file.rows, {"UNKNOWN", "NULL"})),
        unmappedFields |-> {}, unmappedColumns |-> DOMAIN file.headers,
        timestamps |-> <<>>, identified |-> 0, contactable |-> 0]]

BuildImportAnalysis(file, selection) ==
    LET columns == MapFields(file, selection)
        identity == MapSourceIdentity(file, selection)
        rows == ValidateRows(file, columns, identity)
    IN [status |-> "DRAFT", collection |-> file.collection, columns |-> columns, identity |-> identity,
        samples |-> [f \in DOMAIN columns |-> Samples(file.rows, columns[f])],
        unmapped |-> Unmapped(columns, file.headers, identity),
        rows |-> SubSeq(rows, 1, Min2(Len(rows), RowSampleLimit)),
        health |-> BuildDataHealth(file, rows, columns, identity)]

Analyze(file, selection) ==
    IF file.collection \in DOMAIN Targets THEN BuildImportAnalysis(file, selection)
    ELSE UnsupportedAnalysis(file)

-----------------------------------------------------------------------------
(***************************************************************************)
(* The commit plan: what a reviewed selection makes of the staged rows     *)
(***************************************************************************)
FirstWithIdentity(rows, identity, r) ==
    CHOOSE q \in 1..r : /\ rows[q][identity] = rows[r][identity]
                        /\ \A p \in 1..(q - 1) : rows[p][identity] # rows[r][identity]

\* Repeats are no error here: the first row of a source identity is imported,
\* an identical one is skipped, a different one is a conflict.
CommitOutcome(file, selection) ==
    LET rows == ValidateRows(file, selection.columns, selection.identity)
        identity == selection.identity
        invalid(r) == \/ rows[r].errors \ Duplicates # {}
                      \/ Absent(file.rows[r][identity])
                      \/ Is(file.rows[r][identity], "overlong")
    IN  IF file.collection \notin DOMAIN Targets THEN "FAILED"
        ELSE IF \E r \in DOMAIN rows : invalid(r) THEN "FAILED"
        ELSE IF \E r \in DOMAIN rows : file.rows[FirstWithIdentity(file.rows, identity, r)] # file.rows[r]
        THEN "CONFLICTED" ELSE "READY"

Skipped(file, identity) ==
    Count({r \in DOMAIN file.rows : FirstWithIdentity(file.rows, identity, r) # r})

Summarize(file, selection) ==
    [total |-> Len(file.rows), skipped |-> Skipped(file, selection.identity),
     committed |-> Len(file.rows) - Skipped(file, selection.identity)]

\* Mutant: a repeated row counts as imported.
CommittedRowsAllNew(file, selection) ==
    [r \in DOMAIN file.rows |->
        [source |-> At(file.rows[r], selection.identity),
         target |-> At(file.rows[r], selection.columns["id"]), repeats |-> FALSE]]

\* The rows the service lists of a commit: which record each came from, which
\* it became, and whether it only repeats an earlier row.
CommittedRows(file, selection) ==
    [r \in DOMAIN file.rows |->
        [source |-> At(file.rows[r], selection.identity),
         target |-> At(file.rows[r], selection.columns["id"]),
         repeats |-> FirstWithIdentity(file.rows, selection.identity, r) # r]]

\* The two of created_at and updated_at a collection has.
Covered(health, f) == IF f \in DOMAIN health.timestamps THEN health.timestamps[f].covered ELSE 0
Invalid(health, f) == IF f \in DOMAIN health.timestamps THEN health.timestamps[f].invalid ELSE 0
Atleast0(a, b) == IF a >= b THEN a - b ELSE 0

\* What the server records about the data it imported.
BuildImportPilotEvidenceFacts(file, selection) ==
    LET health == BuildDataHealth(file, ValidateRows(file, selection.columns, selection.identity),
                                  selection.columns, selection.identity)
        deal == file.collection = "opportunities"
    IN [collection |-> file.collection, summary |-> Summarize(file, selection),
        blocked |-> Atleast0(health.blocking, health.duplicates), conflicts |-> health.duplicates,
        identified |-> health.identified,
        value |-> When(deal, health.total - health.missing["value"]),
        stage |-> When(deal, health.total - health.missing["stage"]),
        covered |-> [f \in {"created_at", "updated_at"} |-> Covered(health, f)],
        invalid |-> [f \in {"created_at", "updated_at"} |-> Invalid(health, f)],
        contactable |-> When(file.collection = "prospects", health.contactable)]

-----------------------------------------------------------------------------
(***************************************************************************)
(* What the browser makes of a preview                                     *)
(***************************************************************************)
PreviewOf(file) ==
    [collection |-> file.collection, headers |-> file.headers, total |-> Len(file.rows),
     kinds |-> ValueKindCounts(file.rows),
     records |-> SubSeq(file.rows, 1, Min2(Len(file.rows), RowSampleLimit))]

\* A count over all rows agrees with the rows shown when each row that is not
\* shown can account for at most `each' of the difference.
CountMatchesRows(count, shown, unseen, each) ==
    count >= shown /\ count <= shown + unseen * each

IsCellEvidence(cell) ==
    cell.kind \in Kinds /\ (cell.kind = "MISSING" <=> cell.raw = NoText)

IsRawPayload(cells, columns) ==
    Len(cells) = columns /\ \A c \in DOMAIN cells : IsCellEvidence(cells[c])

IsPreview(p) ==
    /\ ValidHeaders(p.headers)
    /\ Len(p.records) = Min2(p.total, RowSampleLimit)
    /\ \A r \in DOMAIN p.records : IsRawPayload(p.records[r], Len(p.headers))
    /\ Count(CellsOfKind(p.records, Kinds)) = Len(p.records) * Len(p.headers)
    /\ p.kinds["MISSING"] + p.kinds["BLANK"] + p.kinds["NULL"] + p.kinds["UNKNOWN"] + p.kinds["NUMERIC"]
         + p.kinds["KNOWN_ZERO"] + p.kinds["NONNUMERIC"] = p.total * Len(p.headers)
    /\ \A k \in Kinds : CountMatchesRows(p.kinds[k], Count(CellsOfKind(p.records, {k})),
                                         p.total - Len(p.records), Len(p.headers))

-----------------------------------------------------------------------------
(***************************************************************************)
(* What the browser makes of an analysis: its own count of the rows shown  *)
(***************************************************************************)
IsAbsent(cell) == cell.kind \in {"MISSING", "BLANK", "NULL", "UNKNOWN"}
IsMissingForCount(cell) == cell.kind \in {"MISSING", "BLANK", "NULL"}
CellAt(row, column) == IF column = 0 THEN MissingCell ELSE row.cells[column]

IsDataHealth(h, columns) ==
    /\ h.valid + h.blocking = h.total
    /\ h.duplicates <= h.blocking
    /\ h.identified <= h.total /\ h.contactable <= h.total
    /\ h.unknown <= h.total * columns
    /\ \A f \in DOMAIN h.missing : h.missing[f] <= h.total
    /\ \A f \in DOMAIN h.timestamps :
        h.timestamps[f].covered + h.timestamps[f].invalid + h.timestamps[f].missing = h.total

\* The samples of a mapped column are the first rows' cells.
SamplesMatchRows(samples, column, rows) ==
    \A r \in DOMAIN samples : column # 0 /\ r \in DOMAIN rows /\ samples[r] = rows[r].cells[column]

IsMappingField(a, f) ==
    LET shown == IF a.columns[f] = 0 THEN 0 ELSE Min2(a.health.total, FieldSampleLimit)
    IN Len(a.samples[f]) = shown /\ SamplesMatchRows(a.samples[f], a.columns[f], a.rows)

\* The mapping covers every field of the collection and uses no column twice,
\* and the health speaks of exactly the fields it should.
MappingIsWhole(a, headers) ==
    LET target == Targets[a.collection]
    IN  /\ DOMAIN a.columns = DOMAIN target.fields
        /\ \A f \in DOMAIN a.columns : a.columns[f] \in (DOMAIN headers) \cup {0} /\ IsMappingField(a, f)
        /\ \A f, g \in DOMAIN a.columns : a.columns[f] = a.columns[g] => f = g \/ a.columns[f] = 0
        /\ a.identity \in (DOMAIN headers) \cup {0}
        /\ a.unmapped = (DOMAIN headers) \ ({a.columns[f] : f \in DOMAIN a.columns} \cup {a.identity})
        /\ a.health.unmappedColumns = a.unmapped
        /\ a.health.unmappedFields = {f \in DOMAIN a.columns : a.columns[f] = 0}
        /\ DOMAIN a.health.missing = target.important
        /\ DOMAIN a.health.timestamps = {f \in DOMAIN a.columns : Def(a.collection, f).type = "TIMESTAMP"}

\* A collection that cannot be imported has an empty mapping.
UnsupportedIsEmpty(a, headers) ==
    /\ a.collection = "revenue_actions" /\ a.columns = <<>>
    /\ a.unmapped = DOMAIN headers /\ a.health.unmappedColumns = a.unmapped
    /\ a.health.valid = 0 /\ a.health.unmappedFields = {}
    /\ a.health.missing = <<>> /\ a.health.timestamps = <<>> /\ a.health.identified = 0

ShownTimestamps(a, column) ==
    LET missing(row) == IsAbsent(CellAt(row, column))
        covered(row) == ~missing(row) /\ Is(CellAt(row, column), "timestamp")
    IN [covered |-> RowsWhere(a.rows, covered), missing |-> RowsWhere(a.rows, missing),
        invalid |-> Len(a.rows) - RowsWhere(a.rows, covered) - RowsWhere(a.rows, missing)]

\* The counts agree with the rows shown, which are those of the preview.
AnalysisEvidenceIsCoherent(a, p) ==
    LET unseen == a.health.total - Len(a.rows)
        agrees(count, shown) == CountMatchesRows(count, shown, unseen, 1)
        valid(row) == row.errors = {}
        duplicate(row) == row.errors \cap Duplicates # {}
        identified(row) == ~IsAbsent(CellAt(row, a.identity))
        contactable(row) == \E f \in Targets[a.collection].contact : ~IsAbsent(CellAt(row, a.columns[f]))
        lacks(f) == LET missing(row) == IsMissingForCount(CellAt(row, a.columns[f]))
                    IN RowsWhere(a.rows, missing)
        mapped(f) == a.columns[f] # 0
    IN  /\ \A r \in DOMAIN a.rows : r \in DOMAIN p.records /\ a.rows[r].cells = p.records[r]
        /\ agrees(a.health.valid, RowsWhere(a.rows, valid))
        /\ agrees(a.health.blocking, Len(a.rows) - RowsWhere(a.rows, valid))
        /\ agrees(a.health.duplicates, RowsWhere(a.rows, duplicate))
        /\ a.health.unknown = p.kinds["UNKNOWN"] + p.kinds["NULL"]
        /\ \A f \in DOMAIN a.health.missing :
            IF mapped(f) THEN agrees(a.health.missing[f], lacks(f)) ELSE a.health.missing[f] = a.health.total
        /\ IF a.identity # 0 THEN agrees(a.health.identified, RowsWhere(a.rows, identified))
           ELSE a.health.identified = 0
        /\ \A f \in DOMAIN a.health.timestamps : \A k \in {"covered", "missing", "invalid"} :
            LET count == a.health.timestamps[f][k]
                shown == ShownTimestamps(a, a.columns[f])[k]
            IN IF mapped(f) THEN agrees(count, shown) ELSE count = IF k = "missing" THEN a.health.total ELSE 0
        /\ a.collection = "prospects" =>
            IF \E f \in Targets[a.collection].contact : mapped(f)
            THEN agrees(a.health.contactable, RowsWhere(a.rows, contactable)) ELSE a.health.contactable = 0

IsAnalysis(a, p) ==
    /\ a.collection = p.collection /\ a.health.total = p.total
    /\ IsDataHealth(a.health, Len(p.headers))
    /\ Len(a.rows) = Min2(a.health.total, RowSampleLimit)
    /\ \A r \in DOMAIN a.rows : IsRawPayload(a.rows[r].cells, Len(p.headers))
    /\ IF a.status = "UNSUPPORTED_TARGET" THEN UnsupportedIsEmpty(a, p.headers)
       ELSE MappingIsWhole(a, p.headers)
    /\ AnalysisEvidenceIsCoherent(a, p)

\* Mutant: one identified row is enough to confirm.
HasSomeSourceIdentity(health) == health.total > 0 /\ health.identified > 0

HasCompleteSourceIdentity(health) == health.total > 0 /\ health.identified = health.total

-----------------------------------------------------------------------------
(***************************************************************************)
(* What the browser makes of a commit                                      *)
(***************************************************************************)
\* An identifier the browser has room for: 512 bytes, as for source
\* identities; of target ids the server asks no such thing.
BoundedId(cell) == cell.kind \notin {"MISSING", "BLANK"} /\ ~Is(cell, "overlong")

\* A committed result accounts for all rows, and says whether it is an
\* earlier one.  Every row is listed, unless they were cleaned away since.
IsCommittedResult(result, expected) ==
    /\ result.summary.total = result.summary.committed + result.summary.skipped
    /\ result.summary.total # 0
    /\ expected.total # {} => result.summary.total \in expected.total
    /\ expected.reconciled # {} => result.reconciled \in expected.reconciled
    /\ IF result.cleaned THEN result.reconciled
       ELSE /\ Len(result.rows) = result.summary.total
            /\ \A r \in DOMAIN result.rows :
                BoundedId(result.rows[r].source) /\ BoundedId(result.rows[r].target)
            /\ Count({r \in DOMAIN result.rows : result.rows[r].repeats}) = result.summary.skipped

\* Mutant: an unknown value does not count as covered.
CommittedFactsWithoutUnknown(result, a, collection) ==
    LET h == a.health
        deal == collection = "opportunities"
    IN [collection |-> collection, summary |-> result.summary,
        blocked |-> Atleast0(h.blocking, h.duplicates), conflicts |-> h.duplicates,
        identified |-> h.identified,
        value |-> When(deal, Atleast0(h.total - h.missing["value"], h.unknown)),
        stage |-> When(deal, h.total - h.missing["stage"]),
        covered |-> [f \in {"created_at", "updated_at"} |-> Covered(h, f)],
        invalid |-> [f \in {"created_at", "updated_at"} |-> Invalid(h, f)],
        contactable |-> When(collection = "prospects", h.contactable)]

\* The same facts, from the analysis on display.
CommittedFactsFromAnalysis(result, a, collection) ==
    LET h == a.health
        deal == collection = "opportunities"
    IN [collection |-> collection, summary |-> result.summary,
        blocked |-> Atleast0(h.blocking, h.duplicates), conflicts |-> h.duplicates,
        identified |-> h.identified,
        value |-> When(deal, h.total - h.missing["value"]),
        stage |-> When(deal, h.total - h.missing["stage"]),
        covered |-> [f \in {"created_at", "updated_at"} |-> Covered(h, f)],
        invalid |-> [f \in {"created_at", "updated_at"} |-> Invalid(h, f)],
        contactable |-> When(collection = "prospects", h.contactable)]
=============================================================================
