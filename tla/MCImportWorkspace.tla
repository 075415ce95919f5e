-------------------------- MODULE MCImportWorkspace --------------------------
\* Small collections in the shape of the real ones, and uploads that meet
\* every branch of the review.
EXTENDS ImportWorkspace

Cellof(kind, is) == [kind |-> kind, is |-> is]
MCLiteral == [
    a |-> Cellof("NONNUMERIC", {}), b |-> Cellof("NONNUMERIC", {}),
    long |-> Cellof("NONNUMERIC", {"overlong"}),
    blank |-> Cellof("BLANK", {}), unknown |-> Cellof("UNKNOWN", {}), null |-> Cellof("NULL", {}),
    zero |-> Cellof("KNOWN_ZERO", {}), minus |-> Cellof("NUMERIC", {"negative"}),
    day |-> Cellof("NONNUMERIC", {"timestamp"}),
    done |-> Cellof("NONNUMERIC", {"task_status", "completed"}),
    open |-> Cellof("NONNUMERIC", {"task_status"})]

Field(type, required) == [type |-> type, required |-> required]
MCTargets == [
    opportunities |-> [
        fields |-> [id |-> Field("TEXT", TRUE), stage |-> Field("STATUS", FALSE),
                    value |-> Field("NUMBER", FALSE), updated_at |-> Field("TIMESTAMP", FALSE)],
        important |-> {"id", "stage", "value"}, contact |-> {}],
    tasks |-> [
        fields |-> [id |-> Field("TEXT", TRUE), status |-> Field("STATUS", TRUE),
                    completed_at |-> Field("TIMESTAMP", FALSE)],
        important |-> {"id", "status"}, contact |-> {}],
    prospects |-> [
        fields |-> [id |-> Field("TEXT", TRUE), email |-> Field("TEXT", FALSE),
                    phone |-> Field("TEXT", FALSE)],
        important |-> {"email", "id", "phone"}, contact |-> {"email", "phone"}]]

MCAliases == [
    id |-> <<"record id", "source id", "external id">>, stage |-> <<"deal stage", "status">>,
    value |-> <<"amount", "deal value">>, updated_at |-> <<"updated on">>,
    status |-> <<"task status">>, completed_at |-> <<"completed">>,
    email |-> <<"e mail", "contact">>, phone |-> <<"contact">>,
    source_id |-> <<"source id", "external id", "record id", "id">>]
Headers == {"id", "external_id", "amount", "stage", "updated on", "status", "completed", "contact"}
MCNormal == [h \in Headers |-> IF h = "external_id" THEN "external id" ELSE h]

Upload(collection, headers, records) ==
    [wellFormed |-> TRUE, collection |-> collection, headers |-> headers, records |-> records]
Deal == <<"id", "amount", "updated on">>
MCUploads == [
    \* Clean; the third row is past the sample.
    clean |-> Upload("opportunities", Deal,
        <<<<"a", "zero", "day">>, <<"b", "unknown", "blank">>, <<"day", "null">>>>),
    \* Errors in the row past the sample, and a repeated identity.
    faulty |-> Upload("opportunities", Deal,
        <<<<"a", "zero", "day">>, <<"b", "minus", "day">>, <<"a", "minus", "a">>>>),
    \* An exact repetition, and a source identity too long to commit.
    repeated |-> Upload("opportunities", <<"id", "stage">>,
        <<<<"a", "open">>, <<"a", "open">>, <<"b", "blank">>>>),
    long |-> Upload("opportunities", <<"external_id">>, <<<<"long">>>>),
    tasks |-> Upload("tasks", <<"id", "status", "completed">>,
        <<<<"a", "done", "day">>, <<"b", "open", "day">>>>),
    \* One column is an alias of two fields.
    contacts |-> Upload("prospects", <<"id", "contact">>, <<<<"a", "blank">>, <<"b", "a">>>>),
    \* A target id the server commits and the browser refuses to read.
    far |-> Upload("prospects", <<"external_id", "id">>, <<<<"a", "long">>>>),
    \* A header and no rows.
    empty |-> Upload("prospects", <<"id">>, <<>>),
    actions |-> Upload("revenue_actions", <<"id">>, <<<<"a">>, <<"null">>>>),
    broken |-> [Upload("opportunities", <<"id", "id">>, <<>>) EXCEPT !.wellFormed = FALSE]]

MCEdits == [
    opportunities |-> {<<"value", 0>>, <<"value", 2>>, <<"source_id", 0>>, <<"source_id", 1>>},
    tasks |-> {<<"completed_at", 0>>},
    prospects |-> {<<"email", 2>>, <<"source_id", 2>>},
    revenue_actions |-> {<<"source_id", 1>>}]
=============================================================================
