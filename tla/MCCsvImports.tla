----------------------------- MODULE MCCsvImports -----------------------------
(* Two administrators, two batches, sources 1 and 2 whose records are 11 and *)
(* 12.  The files: one record; both, in either order; a row repeated with    *)
(* another value; the second source under the first's record; a blank           *)
(* identifier; an unknown prospect.                                          *)
EXTENDS CsvImports, TLC

Says(n) == [kind |-> "NUMERIC", raw |-> n]
Void == [kind |-> "MISSING", raw |-> 0]
RowOf(source, id, prospect, value) ==
    [source |-> Says(source), id |-> id, prospect_id |-> prospect, value |-> value]
A == RowOf(1, Says(11), Says(21), Says(5))
B == RowOf(2, Says(12), Void, [kind |-> "KNOWN_ZERO", raw |-> 0])

MCFiles == <<
    {<<A>>, <<A, B>>, <<A, A>>, <<A, [A EXCEPT !.value = Says(6)]>>,
     <<[B EXCEPT !.id.kind = "BLANK"]>>},
    {<<A>>, <<B, A>>, <<RowOf(2, Says(11), Void, Void)>>,
     <<RowOf(2, Says(12), Says(22), Void)>>} >>

Symmetric == Permutations(Operators) \cup Permutations(Keys)
=============================================================================
