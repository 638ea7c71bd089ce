------------------------------ MODULE TableSync ------------------------------
(***************************************************************************)
(* Sync cycles on documents that hold tables: DocumentSync with the keyed  *)
(* merge of SetByKey, and what becomes of a row.                           *)
(***************************************************************************)
EXTENDS DocumentSync, SetByKey

RECURSIVE MirroredSetByKey(_)
MirroredSetByKey(c) ==
    [c EXCEPT !.a_anchor = c.b_anchor, !.b_anchor = c.a_anchor,
              !.on_added_in_a = c.on_added_in_b, !.on_added_in_b = c.on_added_in_a,
              !.on_removed_in_a = c.on_removed_in_b, !.on_removed_in_b = c.on_removed_in_a,
              !.on_both_changed = CASE @ = "PreferA" -> "PreferB"
                                    [] @ = "PreferB" -> "PreferA"
                                    [] OTHER -> @,
              !.prefer_a_on_field_conflict = ~@,
              !.nested = [k \in DOMAIN c.nested |-> MirroredSetByKey(c.nested[k])]]

TableOf(d, path) == LET v == Get(d, path[1]) IN IF v # None /\ IsArray(v) THEN v[2] ELSE <<>>

RowWith(rows, anchor, v) ==
    IF \E i \in DOMAIN rows : AnchorOf(rows[i], anchor) = v
    THEN rows[CHOOSE i \in DOMAIN rows : AnchorOf(rows[i], anchor) = v]
    ELSE None

\* The rows of the table of d that have this row's anchor of either side.
Successors(rows, config, row) ==
    {rows[i] : i \in {j \in DOMAIN rows :
        \E anchor \in {config.a_anchor, config.b_anchor} :
            AnchorOf(row, anchor) # None /\ AnchorOf(rows[j], anchor) = AnchorOf(row, anchor)}}

\* The merge of one row of the ancestor that both sides know by anchors, found on
\* each side by the anchor of that side alone.
MergeByAnchor(config, row, a, b) ==
    MergeRow(config, [ancestor |-> row,
                      a |-> RowWith(a, config.a_anchor, AnchorOf(row, config.a_anchor)),
                      b |-> RowWith(b, config.b_anchor, AnchorOf(row, config.b_anchor))])

\* A row is followed through a cycle by its anchors: whatever the sides did to its
\* identity, its fields or its place, what becomes of it is the merge of exactly
\* its former, its A-side and its B-side self, and a conflict of it stops the cycle
\* (structural.rs: "so if A renames an identity field the row still matches its
\* former self").
AnchoredRowsFollowed ==
    [][\A path \in Tables :
          LET config == map.by_path[path].set_by_key
              rows   == TableOf(baseline, path)
              a      == TableOf(doc[SideA], path)
              b      == TableOf(doc[SideB], path)
          IN  baseline' # baseline =>
                \A i \in DOMAIN rows :
                   AnchorOf(rows[i], config.a_anchor) # None /\ AnchorOf(rows[i], config.b_anchor) # None
                     => LET out == MergeByAnchor(config, rows[i], a, b)
                        IN  /\ out # None
                            /\ Successors(TableOf(baseline', path), config, rows[i]) = Range(out)]_vars
=============================================================================
