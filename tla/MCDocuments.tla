---------------------------- MODULE MCDocuments ----------------------------
(***************************************************************************)
(* A nested object that one side may replace while the other changes a key *)
(* in it, and a table of two rows that both sides rename, change, remove   *)
(* and add to, under policies that escalate, prefer a side or unite.       *)
(***************************************************************************)
EXTENDS TableSync

Int1(n) == IntNumber(n)
Str(x)  == JsonString(x)

\* No two rows of a table are ever given one identity: each side renames to
\* and adds names of its own.
MCTextOrder == <<"a1", "a2", "b1", "b2", "l1", "l2", "s1", "s2", "t1">>

NestedDoc == JsonObject([p |-> JsonObject([x |-> Int1(1), y |-> Int1(1)]), q |-> Int1(1)])

Row(sku, aid, bid) == JsonObject([sku |-> Str(sku), aid |-> Str(aid), bid |-> Str(bid), qty |-> Int1(1)])
Line(id, n) == JsonObject([id |-> Str(id), n |-> Int1(n)])

WithLines(row, lines) == JsonObject("lines" :> JsonArray(lines) @@ row[2])

TableDoc(rows) == JsonObject([rows |-> JsonArray(rows)])

MCInitialDocs ==
    {NestedDoc,
     TableDoc(<<Row("s1", "1", "7")>>),
     TableDoc(<<WithLines(Row("s2", "2", "8"), <<Line("l1", 1)>>)>>)}

MCOnlyNested == {NestedDoc}
MCOnlyRows   == {TableDoc(<<Row("s1", "1", "7")>>)}

With(row, key, v) == JsonObject(key :> v @@ row[2])

\* The values a side writes are its own, so that it is seen whose value survives.
OwnNumber(s) == Int1(IF s = SideA THEN 2 ELSE 3)
NewName(s)   == Str(IF s = SideA THEN "a1" ELSE "b1")
AddedName(s) == Str(IF s = SideA THEN "a2" ELSE "b2")
Anchor(s)    == IF s = SideA THEN "aid" ELSE "bid"

NestedEditions(s, d) ==
    {SetAtPath(d, <<"p", "x">>, OwnNumber(s)), SetAtPath(d, <<"p", "z">>, OwnNumber(s)),
     SetAtPath(d, <<"q">>, FloatNumber(1)), SetAtPath(d, <<"q">>, OwnNumber(s)),
     SetAtPath(d, <<"p">>, OwnNumber(s)), SetAtPath(d, <<"p">>, JsonObject(<<>>)),
     JsonObject([k \in DOMAIN d[2] \ {"p"} |-> d[2][k]])}

\* A side renames only the rows of the initial table, whose anchors the ancestor
\* has; to the others it gives its anchor.
RowEditions(s, row) ==
    {With(row, "qty", OwnNumber(s))}
    \cup IF Get(row, "aid") \in {Str("1"), Str("2")}
         THEN {With(row, "sku", NewName(s))}
         ELSE {r \in {With(row, Anchor(s), Str("5"))} : Get(row, Anchor(s)) = None}
    \cup IF "lines" \in DOMAIN row[2]
         THEN {With(row, "lines", JsonArray(<<row[2].lines[2][1], Line("l2", OwnNumber(s)[2])>>))}
         ELSE {}

Added(s) == JsonObject("sku" :> AddedName(s) @@ Anchor(s) :> Str("9") @@ [qty |-> Int1(1)])

TableEditions(s, rows) ==
    UNION {{[rows EXCEPT ![i] = r] : r \in RowEditions(s, rows[i])} : i \in DOMAIN rows}
    \cup {RemoveAt(rows, i) : i \in DOMAIN rows}
    \cup {Append(rows, Added(s))}

\* No two rows have the same value of the field.
Distinct(rows, field) ==
    \A i, j \in DOMAIN rows : i # j => Get(rows[i], field) \in {None} \/ Get(rows[i], field) # Get(rows[j], field)

MCEditions(s, d) ==
    (IF "rows" \in DOMAIN d[2]
     THEN {TableDoc(rows) : rows \in {r \in TableEditions(s, d[2].rows[2]) :
                                         Distinct(r, "sku") /\ Distinct(r, Anchor(s))}}
     ELSE NestedEditions(s, d)) \ {d}

\* Both sides may bring in the name "t1", and change any row.
ClashingEditions(s, d) ==
    LET rows  == d[2].rows[2]
        named == {[rows EXCEPT ![i] = With(@, "sku", Str("t1"))] : i \in DOMAIN rows}
                 \cup {Append(rows, With(Added(s), "sku", Str("t1")))}
    IN  {TableDoc(r) : r \in
            {t \in named : Distinct(t, "sku") /\ Distinct(t, Anchor(s))}
            \cup {[rows EXCEPT ![i] = With(@, "qty", OwnNumber(s))] : i \in DOMAIN rows}} \ {d}

Keyed    == DefaultSetByKey(<<"sku">>, "aid", "bid")
Lines    == [DefaultSetByKey(<<"id">>, "lid_a", "lid_b") EXCEPT !.on_both_changed = "PreferB"]
PreferB  == [Keyed EXCEPT !.on_both_changed = "PreferB", !.on_removed_in_a = "Remove"]
OnlyAs   == [Keyed EXCEPT !.on_both_changed = "PreferA", !.on_added_in_b = "Exclude",
                          !.on_removed_in_b = "Remove"]
Uniting  == [Keyed EXCEPT !.on_both_changed = "Union", !.nested = [lines |-> Lines]]
Swapped  == [Keyed EXCEPT !.a_anchor = "bid", !.b_anchor = "aid"]

TableMap(config) == [by_path |-> <<"rows">> :> SetByKeyPolicy(config), default |-> OwnedBy(SideA)]

MCDocPolicies ==
    {OwnedByDefault(SideA), [by_path |-> <<>>, default |-> LastWriteWins(SideB)]}
    \cup {TableMap(c) : c \in {Keyed, PreferB, OnlyAs, Uniting, Swapped}}

MCOneWay == {OwnedByDefault(SideA)}
MCKeyed  == {TableMap(Keyed)}

Field(type, anchor, element) == [type |-> type, anchor |-> anchor, element |-> element]

MCSchema ==
    [rows |-> Field("array", None,
        [sku   |-> Field("string", None, None),
         aid   |-> Field("string", "a", None),
         bid   |-> Field("string", "b", None),
         qty   |-> Field("number", None, None),
         lines |-> Field("array", None,
            [id |-> Field("string", None, None), n |-> Field("number", None, None),
             lid_a |-> Field("string", "a", None), lid_b |-> Field("string", "b", None)])])]
=============================================================================
