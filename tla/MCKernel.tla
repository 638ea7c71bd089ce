------------------------------ MODULE MCKernel ------------------------------
(***************************************************************************)
(* An ERP and a shop that keep one product in formats of their own: an     *)
(* array that mixes fields, numbers that are texts, an object that is      *)
(* spread over its record, a table.  The guest may trap once.              *)
(***************************************************************************)
EXTENDS KernelHost, PolicyDeclaration, CifTransform

Str(x)  == JsonString(x)
Int1(n) == IntNumber(n)

MCTextOrder == <<"s1">>
MCNumerals  == ("1" :> 1) @@ ("2" :> 2) @@ ("3" :> 3)
MCIndices   == ("0" :> 0) @@ ("1" :> 1)

Rule(path, type) == [source_path |-> path, type |-> type]

MCSchema ==
    [cif_schema |->
        [name     |-> [type |-> "string", required |-> TRUE],
         qty      |-> [type |-> "number", required |-> TRUE],
         status   |-> [required |-> FALSE],
         open     |-> [type |-> "boolean"],
         supplier |-> [type |-> "object", children |-> [code |-> [type |-> "string", required |-> TRUE]]],
         rows     |-> [type |-> "array", element |-> [sku |-> [type |-> "string", required |-> TRUE]]],
         unmapped |-> [type |-> "string", required |-> FALSE]],
     transformations |->
        [erp  |-> [name     |-> [source_path |-> <<"title">>],
                   qty      |-> Rule(<<"stock", "1">>, "number"),
                   status   |-> Rule(<<"state">>, "any"),
                   open     |-> Rule(<<"closed", "not">>, "boolean"),
                   supplier |-> Rule(<<>>, "object") @@ [children |-> [code |-> Rule(<<"supplier_code">>, "string")]],
                   rows     |-> Rule(<<"items">>, "array") @@
                                [element |-> [sku |-> Rule(<<"id">>, "string"), n |-> Rule(<<"n">>, "number")]]],
         shop |-> [name     |-> Rule(<<"name">>, "string"),
                   qty      |-> Rule(<<"quantity">>, "number"),
                   status   |-> Rule(<<"status">>, "any"),
                   open     |-> Rule(<<"open">>, "boolean"),
                   supplier |-> Rule(<<"vendor">>, "object") @@ [children |-> [code |-> Rule(<<"code">>, "string")]],
                   rows     |-> Rule(<<"lines">>, "array") @@
                                [element |-> [sku |-> Rule(<<"sku">>, "string"), n |-> Rule(<<"count">>, "number")]]]]]

Canonical(name, qty, code, n) ==
    [name |-> Str(name), qty |-> Int1(qty), open |-> JsonBool(TRUE), status |-> Str("draft"),
     supplier |-> JsonObject([code |-> Str(code)]),
     rows |-> JsonArray(<<JsonObject([sku |-> Str("s1"), n |-> Int1(n)])>>)]

\* The value of the field in the canonical document, if it has one.
Given(doc, field, key, v) == IF field \in DOMAIN doc THEN key :> v ELSE <<>>

RowOf(doc) == doc.rows[2][1][2]

ErpRecord(doc) ==
    JsonObject([title |-> doc.name, stock |-> JsonArray(<<Str("x"), doc.qty>>),
                closed |-> JsonObject("not" :> Int1(1)),
                supplier_code |-> doc.supplier[2].code,
                items |-> JsonArray(<<JsonObject([id |-> RowOf(doc).sku, n |-> Str(ToString(RowOf(doc).n[2]))])>>)]
               @@ Given(doc, "status", "state", doc.status))

ShopRecord(doc) ==
    JsonObject([name |-> doc.name, quantity |-> Str(ToString(doc.qty[2])), open |-> Str("true"),
                vendor |-> JsonObject([code |-> Int1(Numerals[doc.supplier[2].code[2]])]),
                lines |-> JsonArray(<<JsonObject([sku |-> RowOf(doc).sku,
                                                  count |-> Str(ToString(RowOf(doc).n[2]))])>>)]
               @@ Given(doc, "status", "status", doc.status))

Base == Canonical("p", 1, "1", 1)

\* Both sides as the ancestor; each side with changes of its own, the same or
\* another one; a side that clears a field.
Pairs ==
    {<<Base, Base>>,
     <<Canonical("q", 2, "1", 1), Canonical("p", 3, "2", 1)>>,
     <<Canonical("p", 1, "2", 2), Canonical("r", 1, "1", 3)>>,
     <<[Base EXCEPT !.status = Null], [Base EXCEPT !.qty = Int1(2)]>>,
     <<[Base EXCEPT !.status = Str("open")], [f \in DOMAIN Base \ {"status"} |-> Base[f]]>>,
     <<[Base EXCEPT !.status = Str("done")], [Base EXCEPT !.status = Str("open")]>>}

MCJobs ==
    {[ancestor  |-> JsonObject(Base),
      canonical |-> (SideA :> JsonObject(p[1])) @@ (SideB :> JsonObject(p[2])),
      native    |-> (SideA :> ErpRecord(p[1])) @@ (SideB :> ShopRecord(p[2]))] : p \in Pairs}

MCFormats == (SideA :> "erp") @@ (SideB :> "shop")
MCContext == [system_a |-> "ERP", system_b |-> "Shop"]

MCDocument ==
    [fields |-> (<<"name">>   :> [kind |-> "owned_by", system |-> "Shop"])
             @@ (<<"qty">>    :> [kind |-> "additive"])
             @@ (<<"status">> :> [kind |-> "state_machine", transitions |-> {<<"draft", "open">>}])
             @@ (<<"rows">>   :> [kind |-> "set_by_key", identity |-> <<"sku">>, a_anchor |-> "aid",
                                  b_anchor |-> "bid", on_both_changed |-> "Union",
                                  prefer_a_on_field_conflict |-> FALSE,
                                  nested |-> [parts |-> [identity |-> <<"pid">>, a_anchor |-> "pa",
                                                         b_anchor |-> "pb"]]]),
     default |-> [kind |-> "last_write_wins", reason |-> "clocks agree", timestamp_a |-> 1, timestamp_b |-> 2]]

MCEngineMap ==
    [by_path |-> (<<"name">>   :> OwnedBy(SideB))
              @@ (<<"qty">>    :> Additive)
              @@ (<<"status">> :> StateMachine({<<"draft", "open">>}))
              @@ (<<"rows">>   :> SetByKeyPolicy(
                                    [DefaultSetByKey(<<"sku">>, "aid", "bid") EXCEPT
                                        !.on_both_changed = "Union",
                                        !.prefer_a_on_field_conflict = FALSE,
                                        !.nested = [parts |-> DefaultSetByKey(<<"pid">>, "pa", "pb")]])),
     default |-> LastWriteWins(SideB)]

Call2(name, args) == [name |-> name, args |-> args]

LoneChange(source, v) ==
    <<"change", [path |-> <<"status">>, old_value |-> Str("draft"), source |-> source, new_from_b |-> v]>>

\* Both sides have a key, the source names one of them.
StrayChange(path, old, a, b) ==
    <<"change", [path |-> path, old_value |-> old, source |-> "a", new_from_a |-> a, new_from_b |-> b]>>

\* Texts that do not parse, changes without the key their source names or with
\* one it does not name, policies that lack a key, an empty text, a respelled document.
MCProbes ==
    {Call2("df_three_way_diff", <<JsonText(Null), PlainText("{"), JsonText(Null)>>),
     Call2("df_compare_json", <<JsonText(Int1(1)), JsonText(FloatNumber(1))>>),
     Call2("df_canonical_json", <<<<"binary", 0>>>>),
     Call2("df_canonical_json", <<<<"respelled", JsonObject(Base)>>>>),
     Call2("df_idempotency_key_hex", <<PlainText(""), PlainText(""), JsonText(Null)>>),
     Call2("df_transform_to_cif", <<JsonText(JsonObject(<<>>)), <<"schema", MCSchema>>, PlainText("")>>),
     Call2("df_merge_field", <<LoneChange("a", Str("open")), <<"policy", MCDocument.default>>, <<"context", MCContext>>>>),
     Call2("df_merge_field", <<StrayChange(<<"status">>, Str("draft"), Str("open"), Str("done")),
                               <<"policy", MCDocument.fields[<<"status">>]>>, <<"context", MCContext>>>>),
     Call2("df_merge_field", <<StrayChange(<<"qty">>, Int1(1), Int1(2), Str("3")),
                               <<"policy", MCDocument.fields[<<"qty">>]>>, <<"context", MCContext>>>>),
     Call2("df_merge_field", <<LoneChange("b", Str("open")), <<"policy", [kind |-> "owned_by"]>>, <<"context", MCContext>>>>)}

-----------------------------------------------------------------------------
MCEnvelope(answer) == <<"envelope", answer>>
MCUnwrap(text)     == IF text[1] = "envelope" THEN text[2] ELSE <<"host", 0>>
MCEmptyText        == PlainText("")
MCZeroed           == <<"zeroed", 0>>
MCHostError        == <<"host", 0>>

\* Lengths that differ where something could be mixed up.
MCSize(text) ==
    CASE text = PlainText("") -> 0
      [] text[1] = "envelope" -> 5
      [] text[1] = "value"    -> 4
      [] text[1] = "policy"   -> 3
      [] text[1] = "binary"   -> 1
      [] OTHER                -> 2

\* The calls of all jobs.
MCRequests == MCProbes \cup UNION {JobRequests(j) : j \in MCJobs}

MCTexts ==
    {MCEmptyText}
    \cup UNION {{r.args[i] : i \in DOMAIN r.args} : r \in MCRequests}
    \cup {MCEnvelope(WireExport(r.name, r.args)) : r \in MCRequests}
=============================================================================
