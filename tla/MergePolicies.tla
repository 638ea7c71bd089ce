--------------------------- MODULE MergePolicies ---------------------------
(***************************************************************************)
(* The pure half of a sync cycle: the three-way diff of two canonical      *)
(* documents against their ancestor (core/src/domain/diff/three_way.rs,    *)
(* core/src/domain/compare.rs) and the tier-1 merge policies that resolve  *)
(* each changed path (core/src/application/policy/).                       *)
(*                                                                         *)
(* Documents are flat: a path is a member of Fields.  (Nested objects, and *)
(* paths that are prefixes of one another, are the subject of JsonDiff.)   *)
(* A JSON value is a pair <<kind, payload>>.  The int and the float form   *)
(* of one number are different values, as serde_json::Value has them, and  *)
(* a key that is missing (Absent) is not a key that holds null.            *)
(***************************************************************************)
EXTENDS Integers, Sequences

CONSTANTS
    Fields,     \* the top-level keys of the canonical document
    Items,      \* what the arrays may contain
    Strings,    \* what the string-valued fields may hold
    None        \* Option::None

SideA == "A"
SideB == "B"
Sides == {SideA, SideB}

-----------------------------------------------------------------------------
(* Values and documents.                                                   *)

IntNumber(n)   == <<"int", n>>
FloatNumber(n) == <<"float", n>>
JsonString(x)  == <<"string", x>>
JsonArray(q)   == <<"array", q>>
Null           == <<"null", 0>>
Absent         == <<"absent", 0>>

Number == {"int", "float"} \X Int
Array  == {"array"} \X Seq(Items)
String == {"string"} \X Strings
Value  == Number \cup Array \cup String \cup {Null}
Doc    == [Fields -> Value \cup {Absent}]

EmptyDoc == [f \in Fields |-> Absent]

\* The option's None is no value, no document and no version.
ASSUME NoneAssumption == None \notin Value \cup {Absent} \cup Doc \cup Nat

IsNumber(v) == v[1] \in {"int", "float"}

\* map.get(key).unwrap_or(&Value::Null)
AsJson(v) == IF v = Absent THEN Null ELSE v

\* What the comparison takes for equal: 5 and 5.0, null and a missing key.
Same(u, v) ==
    \/ AsJson(u) = AsJson(v)
    \/ IsNumber(u) /\ IsNumber(v) /\ u[2] = v[2]

Agree(d, e) == \A f \in Fields : Same(d[f], e[f])

-----------------------------------------------------------------------------
(* The three-way diff.                                                     *)

Changed(ancestor, d) == {f \in Fields : ~Same(ancestor[f], d[f])}

\* The paths of the changelog.
Changes(ancestor, a, b) == Changed(ancestor, a) \cup Changed(ancestor, b)

SideChange(ancestor, d, f) ==
    IF f \in Changed(ancestor, d) THEN AsJson(d[f]) ELSE None

FieldChange(ancestor, a, b, f) ==
    [old_value  |-> AsJson(ancestor[f]),
     new_from_a |-> SideChange(ancestor, a, f),
     new_from_b |-> SideChange(ancestor, b, f)]

FieldChanges ==
    {c \in [old_value : Value, new_from_a : Value \cup {None},
            new_from_b : Value \cup {None}] :
        c.new_from_a # None \/ c.new_from_b # None}

\* ChangeSource: both sides moved, whether or not to the same value.
BothMoved(c) == c.new_from_a # None /\ c.new_from_b # None

\* The side's value, or the ancestor's where the side did not move.
NewA(c) == IF c.new_from_a = None THEN c.old_value ELSE c.new_from_a
NewB(c) == IF c.new_from_b = None THEN c.old_value ELSE c.new_from_b

-----------------------------------------------------------------------------
(* The policies.  A merge resolves to a value, or to None: a conflict.     *)

OwnedBy(system)       == [owned_by |-> system]
Additive              == [additive |-> TRUE]
AppendItems           == [append |-> TRUE]
StateMachine(allowed) == [state_machine |-> allowed]
LastWriteWins(newer)  == [last_write_wins |-> newer]
NoPolicy              == [no_policy |-> TRUE]

Policy == [owned_by : STRING] \cup [additive : {TRUE}] \cup [append : {TRUE}]
          \cup [state_machine : SUBSET (Strings \X Strings)]
          \cup [last_write_wins : STRING]

\* Mutant: where only one side moved, its value wins whoever owns the path.
OwnedByMover(system, c) ==
    CASE system = SideA /\ c.new_from_a # None -> c.new_from_a
      [] system = SideB /\ c.new_from_b # None -> c.new_from_b
      [] system = SideA /\ c.new_from_a = None -> c.new_from_b
      [] system = SideB /\ c.new_from_b = None -> c.new_from_a
      [] OTHER                                  -> None

\* The owner's new value; the ancestor's if only the other side moved.
OwnedByMerge(system, c) ==
    CASE system = SideA -> NewA(c)
      [] system = SideB -> NewB(c)
      [] OTHER          -> None

\* Deltas accumulate; Number::from_f64 makes the result a float.  (A sum that is
\* not finite is a conflict too: the numbers of a model never come to one.)
AdditiveMerge(c) ==
    IF IsNumber(c.old_value) /\ IsNumber(NewA(c)) /\ IsNumber(NewB(c))
    THEN FloatNumber(NewA(c)[2] + NewB(c)[2] - c.old_value[2])
    ELSE None

\* Mutant: the ancestor's items are not filtered out.
AllItems(q, ancestor) == q

\* The items of q that the ancestor's array does not contain, in order: of
\* the first i items, additions[i].
Additions(q, ancestor) ==
    LET new == Items \ {ancestor[j] : j \in DOMAIN ancestor}
        additions[i \in 0..Len(q)] ==
            IF i = 0 THEN <<>>
            ELSE IF q[i] \in new THEN Append(additions[i - 1], q[i])
            ELSE additions[i - 1]
    IN  additions[Len(q)]

AppendMerge(c) ==
    IF c.old_value[1] = "array" /\ NewA(c)[1] = "array" /\ NewB(c)[1] = "array"
    THEN IF BothMoved(c)
         THEN JsonArray(c.old_value[2]
                          \o Additions(NewA(c)[2], c.old_value[2])
                          \o Additions(NewB(c)[2], c.old_value[2]))
         ELSE IF c.new_from_a # None THEN c.new_from_a ELSE c.new_from_b
    ELSE None

\* Mutant: only the target of a transition is looked at.
IsAllowedTarget(allowed, from, to) == from = to \/ \E t \in allowed : t[2] = to

IsAllowed(allowed, from, to) == from = to \/ <<from, to>> \in allowed

\* Mutant: two sides that moved diverge, even to the same state.
StateMachineMergeOne(allowed, c) ==
    LET to == IF c.new_from_a # None THEN c.new_from_a ELSE c.new_from_b
    IN  IF /\ c.old_value[1] = "string"
           /\ to[1] = "string"
           /\ ~BothMoved(c)
           /\ IsAllowed(allowed, c.old_value[2], to[2])
        THEN to
        ELSE None

\* Where both sides moved they must have moved to the same state.
StateMachineMerge(allowed, c) ==
    LET to == IF c.new_from_a # None THEN c.new_from_a ELSE c.new_from_b
    IN  IF /\ c.old_value[1] = "string"
           /\ to[1] = "string"
           /\ BothMoved(c) => c.new_from_a = c.new_from_b
           /\ IsAllowed(allowed, c.old_value[2], to[2])
        THEN to
        ELSE None

\* The timestamps are fixed when the policy is built: newer is the side that
\* wins, or neither of them when they tie.
LastWriteWinsMerge(newer, c) ==
    CASE ~BothMoved(c) /\ c.new_from_a # None -> c.new_from_a
      [] ~BothMoved(c) /\ c.new_from_a = None -> c.new_from_b
      [] BothMoved(c) /\ newer = SideA        -> c.new_from_a
      [] BothMoved(c) /\ newer = SideB        -> c.new_from_b
      [] OTHER                                -> None

Merge(policy, c) ==
    CASE "owned_by" \in DOMAIN policy        -> OwnedByMerge(policy.owned_by, c)
      [] "additive" \in DOMAIN policy        -> AdditiveMerge(c)
      [] "append" \in DOMAIN policy          -> AppendMerge(c)
      [] "state_machine" \in DOMAIN policy   -> StateMachineMerge(policy.state_machine, c)
      [] "last_write_wins" \in DOMAIN policy -> LastWriteWinsMerge(policy.last_write_wins, c)
      [] OTHER                               -> None

-----------------------------------------------------------------------------
(* Resolution of a whole changelog.                                        *)

IsPolicyMap(map) ==
    /\ DOMAIN map = {"by_path", "default"}
    /\ DOMAIN map.by_path \subseteq Fields
    /\ map.by_path \in [DOMAIN map.by_path -> Policy]
    /\ map.default \in Policy \cup {NoPolicy}

Lookup(map, f) == IF f \in DOMAIN map.by_path THEN map.by_path[f] ELSE map.default

\* PolicyMap::new().with_default(OwnedBy(owner)), what one_way installs.
OwnedByDefault(owner) == [by_path |-> <<>>, default |-> OwnedBy(owner)]

ResolveField(map, ancestor, a, b, f) ==
    Merge(Lookup(map, f), FieldChange(ancestor, a, b, f))

\* Mutant: a merge that fails goes unnoticed.
UndeclaredPaths(map, ancestor, a, b) ==
    {f \in Changes(ancestor, a, b) : Lookup(map, f) = NoPolicy}

\* The paths that go to the escalation queue; no policy is a conflict too.
Conflicts(map, ancestor, a, b) ==
    {f \in Changes(ancestor, a, b) : ResolveField(map, ancestor, a, b, f) = None}

\* apply_resolution: the ancestor overlaid with every resolved path.
Candidate(map, ancestor, a, b) ==
    [f \in Fields |-> IF f \in Changes(ancestor, a, b)
                      THEN ResolveField(map, ancestor, a, b, f)
                      ELSE ancestor[f]]
=============================================================================
