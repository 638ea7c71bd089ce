------------------------------ MODULE SetByKey ------------------------------
(***************************************************************************)
(* The keyed-set policy, core/src/application/policy/structural.rs: arrays *)
(* of objects (tables of rows) are merged row by row.  A row is matched by *)
(* the anchor of its side, an identifier that only this side assigns, and  *)
(* otherwise by its identity, the texts of its identity fields.            *)
(*                                                                         *)
(* A policy is a record with the fields of the struct; nested maps the     *)
(* fields that hold tables of their own to their policies.  A merge is a   *)
(* sequence of rows, or None for a conflict.                               *)
(***************************************************************************)
EXTENDS JsonDiff

CONSTANT TextOrder      \* the texts of identity fields in the order of strings

SetByKeyPolicy(config) == [set_by_key |-> config]

\* SetByKey::new
DefaultSetByKey(identity, a_anchor, b_anchor) ==
    [identity |-> identity, a_anchor |-> a_anchor, b_anchor |-> b_anchor,
     on_added_in_a |-> "Include", on_added_in_b |-> "Include",
     on_removed_in_a |-> "EscalateIfChanged", on_removed_in_b |-> "EscalateIfChanged",
     on_both_changed |-> "Escalate", prefer_a_on_field_conflict |-> TRUE,
     nested |-> <<>>]

-----------------------------------------------------------------------------
(* Keys.  The code joins the texts with a separator that no text holds.    *)

\* Value::to_string without quotes: the number 1 and the string "1" have one text.
TextOf(v) ==
    CASE v[1] = "string" -> v[2]
      [] v[1] = "int"    -> ToString(v[2])
      [] v[1] = "float"  -> ToString(v[2]) \o ".0"
      [] v[1] = "bool"   -> IF v[2] THEN "true" ELSE "false"
      [] OTHER           -> ToString(v)

CompositeKey(row, identity) ==
    IF \E i \in DOMAIN identity : Get(row, identity[i]) = None THEN None
    ELSE [i \in DOMAIN identity |-> TextOf(Get(row, identity[i]))]

AnchorOf(row, anchor) ==
    LET v == Get(row, anchor)
    IN  IF v # None /\ v[1] \in {"string", "int", "float"} THEN TextOf(v) ELSE None

\* Anchor value -> key of the ancestor row that has it, the last one if several have.
AnchorIndex(ancestor, anchor, identity) ==
    LET At(v) == {i \in DOMAIN ancestor : AnchorOf(ancestor[i], anchor) = v}
    IN  [v \in {AnchorOf(ancestor[i], anchor) : i \in DOMAIN ancestor} \ {None} |->
            CompositeKey(ancestor[Max(At(v))], identity)]

\* Mutant: rows are matched by their identity alone.
KeyByIdentity(row, identity, anchor, index) == CompositeKey(row, identity)

\* Mutant: the default stands for the missing ancestor row, not for the missing identity.
KeyByKnownAnchor(row, identity, anchor, index) ==
    LET v == AnchorOf(row, anchor)
    IN  CASE v = None         -> CompositeKey(row, identity)
          [] v \in DOMAIN index -> index[v]
          [] OTHER            -> <<"">>

\* index_with_anchor for one row: first the ancestor row with its anchor.  A row
\* with an anchor that the ancestor does not know needs no identity.
SideKey(row, identity, anchor, index) ==
    LET v   == AnchorOf(row, anchor)
        key == CompositeKey(row, identity)
    IN  CASE v \in DOMAIN index                           -> index[v]
          [] v \notin DOMAIN index /\ v # None /\ key = None -> <<"">>
          [] OTHER                                        -> key

TextRank(t) ==
    IF \E i \in DOMAIN TextOrder : TextOrder[i] = t
    THEN CHOOSE i \in DOMAIN TextOrder : TextOrder[i] = t
    ELSE 0

\* The order of BTreeSet<&String> on joined keys.
KeyLess(k, l) ==
    \E i \in 1..Len(l) :
        /\ \A j \in 1..(i - 1) : j <= Len(k) /\ k[j] = l[j]
        /\ i > Len(k) \/ TextRank(k[i]) < TextRank(l[i])

-----------------------------------------------------------------------------
(* The merge.                                                              *)

\* out.sort_by_key, which is stable: rows whose identity the ancestor has
\* come in its order, before the others.
InAncestorOrder(out, ancestor, identity) ==
    LET Positions(row) ==
            {p \in DOMAIN ancestor :
                /\ CompositeKey(row, identity) # None
                /\ CompositeKey(ancestor[p], identity) = CompositeKey(row, identity)}
        rank  == [i \in DOMAIN out |-> Min(Positions(out[i]) \cup {Len(ancestor) + 1})]
        order == SetToSortSeq(DOMAIN out, LAMBDA i, j : \/ rank[i] < rank[j]
                                                        \/ rank[i] = rank[j] /\ i < j)
    IN  [i \in DOMAIN out |-> out[order[i]]]

AddedRow(row, on_added) == IF on_added = "Include" THEN <<row>> ELSE <<>>

\* One side removed the row and the other one kept it.
RemovedRow(kept, ancestor, on_removed) ==
    IF kept # ancestor /\ on_removed = "EscalateIfChanged" THEN None ELSE <<>>

\* A nested field of a row as a table: anything else is an empty one.
Nested(row, field) ==
    LET v == IF row = None THEN None ELSE Get(row, field)
    IN  IF v # None /\ IsArray(v) THEN v[2] ELSE <<>>

\* copy_non_nested
Plain(row, config) ==
    IF row = None \/ ~IsObject(row) THEN <<>>
    ELSE [k \in DOMAIN row[2] \ DOMAIN config.nested |-> row[2][k]]

\* The rows of each key, in the ancestor and on each side, or None: an index keeps
\* one row of a key, the last.
Matches(config, ancestor, a, b) ==
    LET Keys(rows, anchor) ==
            [i \in DOMAIN rows |->
                SideKey(rows[i], config.identity, anchor,
                        AnchorIndex(ancestor, anchor, config.identity))]
        keys_anc == [i \in DOMAIN ancestor |-> CompositeKey(ancestor[i], config.identity)]
        keys_a   == Keys(a, config.a_anchor)
        keys_b   == Keys(b, config.b_anchor)
        At(rows, keys, k) ==
            IF k \in Range(keys) THEN rows[Max({i \in DOMAIN keys : keys[i] = k})] ELSE None
    IN  {[key |-> k, ancestor |-> At(ancestor, keys_anc, k), a |-> At(a, keys_a, k), b |-> At(b, keys_b, k)] :
            k \in Range(keys_anc) \cup Range(keys_a) \cup Range(keys_b)}

RECURSIVE MergeArrays(_, _, _, _)

\* union_elements: the fields of the winner over the loser's over the
\* ancestor's, and the nested tables merged by their own policies.
UnionElements(config, m) ==
    LET plain  == IF config.prefer_a_on_field_conflict
                  THEN Plain(m.a, config) @@ Plain(m.b, config) @@ Plain(m.ancestor, config)
                  ELSE Plain(m.b, config) @@ Plain(m.a, config) @@ Plain(m.ancestor, config)
        fields == {k \in DOMAIN config.nested :
                      \E row \in {m.ancestor, m.a, m.b} \ {None} : Get(row, k) # None}
        tables == [k \in fields |-> MergeArrays(config.nested[k], Nested(m.ancestor, k),
                                                Nested(m.a, k), Nested(m.b, k))]
    IN  IF \E k \in fields : tables[k] = None THEN None
        ELSE <<JsonObject([k \in fields |-> JsonArray(tables[k])] @@ plain)>>

\* The row is there on both sides.
MatchedRow(config, m) ==
    CASE m.a = m.b \/ m.ancestor = m.b -> <<m.a>>
      [] m.a # m.b /\ m.ancestor = m.a -> <<m.b>>
      [] OTHER ->
            CASE config.on_both_changed = "PreferA"  -> <<m.a>>
              [] config.on_both_changed = "PreferB"  -> <<m.b>>
              [] config.on_both_changed = "Union"    -> UnionElements(config, m)
              [] config.on_both_changed = "Escalate" -> None

There(row) == row # None

\* Mutant: the settings of the two sides are mixed up.
MergeRowMixed(config, m) ==
    CASE There(m.a) /\ There(m.b)                         -> MatchedRow(config, m)
      [] ~There(m.ancestor) /\ There(m.a) /\ ~There(m.b)  -> AddedRow(m.a, config.on_added_in_a)
      [] ~There(m.ancestor) /\ ~There(m.a) /\ There(m.b)  -> AddedRow(m.b, config.on_added_in_b)
      [] There(m.ancestor) /\ ~There(m.a) /\ There(m.b)   -> RemovedRow(m.b, m.ancestor, config.on_removed_in_a)
      [] There(m.ancestor) /\ There(m.a) /\ ~There(m.b)   -> RemovedRow(m.a, m.ancestor, config.on_removed_in_a)
      [] There(m.ancestor) /\ ~There(m.a) /\ ~There(m.b)  -> <<>>

\* What becomes of the rows of one key: the rows of it in the result, or None
\* for a conflict.
MergeRow(config, m) ==
    CASE There(m.a) /\ There(m.b)                         -> MatchedRow(config, m)
      [] ~There(m.ancestor) /\ There(m.a) /\ ~There(m.b)  -> AddedRow(m.a, config.on_added_in_a)
      [] ~There(m.ancestor) /\ ~There(m.a) /\ There(m.b)  -> AddedRow(m.b, config.on_added_in_b)
      [] There(m.ancestor) /\ ~There(m.a) /\ There(m.b)   -> RemovedRow(m.b, m.ancestor, config.on_removed_in_a)
      [] There(m.ancestor) /\ There(m.a) /\ ~There(m.b)   -> RemovedRow(m.a, m.ancestor, config.on_removed_in_b)
      [] There(m.ancestor) /\ ~There(m.a) /\ ~There(m.b)  -> <<>>

\* merge_arrays.  A row without identity where one is needed is a conflict.
MergeArrays(config, ancestor, a, b) ==
    LET merged  == {[key |-> m.key, rows |-> MergeRow(config, m)] : m \in Matches(config, ancestor, a, b)}
        ordered == SetToSortSeq(merged, LAMBDA r, s : KeyLess(r.key, s.key))
    IN  IF \E r \in merged : None \in {r.key, r.rows} THEN None
        ELSE InAncestorOrder(FlattenSeq([i \in DOMAIN ordered |-> ordered[i].rows]),
                             ancestor, config.identity)

SetByKeyMerge(config, c) ==
    LET out == MergeArrays(config, c.old_value[2], NewA(c)[2], NewB(c)[2])
    IN  IF IsArray(c.old_value) /\ IsArray(NewA(c)) /\ IsArray(NewB(c)) /\ out # None
        THEN JsonArray(out)
        ELSE None

\* policy.merge of any policy.
Resolved(policy, c) ==
    IF "set_by_key" \in DOMAIN policy THEN SetByKeyMerge(policy.set_by_key, c) ELSE Merge(policy, c)

-----------------------------------------------------------------------------
(* The validation of a policy against the schema of the table's elements:  *)
(* a function from field to [type, anchor, element], the role of an anchor *)
(* and the schema of nested elements being None where not declared.        *)

RECURSIVE MisalignedFields(_, _)

\* validate_against_element_schema: the fields it complains about.
MisalignedFields(config, element) ==
    LET Role(field) == IF field \in DOMAIN element THEN element[field].anchor ELSE None
        Aligned(field) ==
            /\ field \in DOMAIN element
            /\ element[field].type = "array"
            /\ element[field].element # None
            /\ MisalignedFields(config.nested[field], element[field].element) = {}
    IN  {f \in {config.a_anchor} : Role(f) # "a"}
        \cup {f \in {config.b_anchor} : Role(f) # "b"}
        \cup (Range(config.identity) \ DOMAIN element)
        \cup {f \in DOMAIN config.nested : ~Aligned(f)}

\* validate_against_schema of the policy, and of the map: the paths with errors.
AlignedWith(policy, field) ==
    "set_by_key" \in DOMAIN policy =>
        /\ field # None
        /\ field.type = "array"
        /\ field.element # None
        /\ MisalignedFields(policy.set_by_key, field.element) = {}

\* Only top-level fields are looked up: cif_schema.get(path) of the joined path.
MisalignedPaths(map, schema) ==
    {path \in DOMAIN map.by_path :
        ~AlignedWith(map.by_path[path],
                     IF Len(path) = 1 /\ path[1] \in DOMAIN schema THEN schema[path[1]] ELSE None)}
=============================================================================
