------------------------------ MODULE JsonDiff ------------------------------
(***************************************************************************)
(* The diff and the resolution of nested documents: comparison             *)
(* (core/src/domain/compare.rs), three-way diff                            *)
(* (core/src/domain/diff/three_way.rs), the writing of a value at a path   *)
(* (core/src/domain/json_path.rs) and the overlay of a resolution          *)
(* (apply_resolution of core/src/application/orchestrator.rs).             *)
(*                                                                         *)
(* An object is <<"object", f>> with f a function from its keys to values, *)
(* the other values are those of MergePolicies.  A path is the sequence of *)
(* its keys: the code joins them with dots, so this module speaks of       *)
(* documents whose keys hold no dot.  Down a document goes a path step by  *)
(* step: a recursive function of the number of keys walked.                *)
(***************************************************************************)
EXTENDS MergePolicies, SequencesExt

CONSTANT MaxDepth       \* no document nests deeper: serde_json reads 128 levels

ASSUME MaxDepthAssumption == MaxDepth \in Nat

JsonObject(f) == <<"object", f>>
IsObject(v)   == v[1] = "object"
IsArray(v)    == v[1] = "array"

\* Value::get with a key: None on a missing key and on anything but an object.
Get(v, key) == IF IsObject(v) /\ key \in DOMAIN v[2] THEN v[2][key] ELSE None

\* v.get(key).unwrap_or(&Value::Null)
Child(v, key) == IF IsObject(v) /\ key \in DOMAIN v[2] THEN v[2][key] ELSE Null

NumericallyEqual(u, v) == IsNumber(u) /\ IsNumber(v) /\ u[2] = v[2]

Equal(u, v) == u = v \/ NumericallyEqual(u, v)

-----------------------------------------------------------------------------
(* The comparison and the diff.                                            *)

\* Only two objects are entered: an array is one value.
Entered(d) == IsObject(d.old) /\ IsObject(d.new) /\ ~Equal(d.old, d.new)

Below(d) == {[path |-> Append(d.path, key), old |-> Child(d.old, key), new |-> Child(d.new, key)] :
                key \in DOMAIN d.old[2] \cup DOMAIN d.new[2]}

Further(seen) == seen \cup UNION {Below(d) : d \in {e \in seen : Entered(e)}}

\* recurse_compare: what it comes to see at most n keys down the two documents.
Seen(a, b, n) ==
    LET seen[i \in 0..MaxDepth] ==
            IF i = 0 THEN {[path |-> <<>>, old |-> a, new |-> b]} ELSE Further(seen[i - 1])
    IN  seen[n]

\* compare_json
CompareJson(a, b) ==
    {d \in Seen(a, b, MaxDepth) : ~Equal(d.old, d.new) /\ ~(IsObject(d.old) /\ IsObject(d.new))}

SameJson(a, b) == CompareJson(a, b) = {}

NewAt(diffs, path) ==
    IF \E d \in diffs : d.path = path THEN (CHOOSE d \in diffs : d.path = path).new ELSE None

\* The changelog, which the code keeps sorted by path.
ThreeWayDiff(ancestor, a, b) ==
    LET in_a == CompareJson(ancestor, a)
        in_b == CompareJson(ancestor, b)
    IN  {[path       |-> d.path,
          old_value  |-> d.old,
          new_from_a |-> NewAt(in_a, d.path),
          new_from_b |-> NewAt(in_b, d.path)] : d \in in_a \cup in_b}

-----------------------------------------------------------------------------
(* Paths.                                                                  *)

\* What is the first n keys of a path down v.
Node(v, path, n) ==
    LET node[i \in 0..Len(path)] == IF i = 0 THEN v ELSE Child(node[i - 1], path[i])
    IN  node[n]

\* map.insert; what is not an object is replaced by an empty one.
WithKey(v, key, value) ==
    LET map == IF IsObject(v) THEN v[2] ELSE <<>>
    IN  JsonObject([k \in DOMAIN map \cup {key} |-> IF k = key THEN value ELSE map[k]])

\* Mutant: what an intermediate key holds is not kept.
SetAtFreshPath(target, path, value) ==
    LET n == Len(path)
        set[i \in 0..n] == IF i = 0 THEN value
                           ELSE WithKey(IF i = n THEN target ELSE Null, path[n - i + 1], set[i - 1])
    IN  IF path = <<>> THEN target ELSE set[n]

\* set_at_path, from the innermost object out: set[i] has the last i keys.
SetAtPath(target, path, value) ==
    LET n == Len(path)
        set[i \in 0..n] == IF i = 0 THEN value
                           ELSE WithKey(Node(target, path, n - i), path[n - i + 1], set[i - 1])
    IN  IF path = <<>> THEN target ELSE set[n]

Shortest(resolved) == CHOOSE r \in resolved : \A s \in resolved : Len(r.path) <= Len(s.path)

WriteNext(w) ==
    LET r == Shortest(w.left)
    IN  [doc |-> SetAtPath(w.doc, r.path, r.value), left |-> w.left \ {r}]

\* apply_resolution of a set of [path, value].  In the order of the changelog a
\* path comes before the paths inside it, and writes to other paths commute.
ApplyResolution(base, resolved) ==
    LET written[n \in 0..Cardinality(resolved)] ==
            IF n = 0 THEN [doc |-> base, left |-> resolved] ELSE WriteNext(written[n - 1])
    IN  written[Cardinality(resolved)].doc

\* upsert of the memory adapter: the top-level keys replace those of the record.
Upserted(record, payload) ==
    IF IsObject(record) /\ IsObject(payload)
    THEN JsonObject([key \in DOMAIN payload[2] \cup DOMAIN record[2] |->
                        IF key \in DOMAIN payload[2] THEN payload[2][key] ELSE record[2][key]])
    ELSE payload

\* Some changed path lies inside another one: a side replaced a whole object
\* in which the other side changed a key.
Overlaps(changelog) ==
    \E c, d \in changelog : Len(c.path) < Len(d.path) /\ IsPrefix(c.path, d.path)
=============================================================================
