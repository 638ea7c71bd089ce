---------------------------- MODULE DocumentSync ----------------------------
(***************************************************************************)
(* Sync cycles on nested documents: what the diff and the merge decide     *)
(* (JsonDiff, MergePolicies) over a history of edits on both sides.  A     *)
(* cycle is one step here, or two when it is cut short between its pushes: *)
(* what may come in between its calls is SyncCycle's subject.              *)
(*                                                                         *)
(* The keyed merge of tables is a parameter, which TableSync gives as      *)
(* SetByKey defines it.                                                    *)
(***************************************************************************)
EXTENDS JsonDiff

CONSTANTS
    MergeTable(_, _),   \* SetByKey::merge: what a table's policy makes of a change, or None
    MirrorTable(_),     \* a table's policy with the settings of the two sides swapped
    Misaligned(_, _),   \* validate_against_schema: the paths it complains about
    DocPolicies,        \* the policy maps a host may build an engine with
    Schema,             \* the CIF schema it validates them against, per top-level field
    InitialDocs,        \* what both sides and the ancestor may hold at first
    Editions(_, _),     \* what the application of a side may make of its document
    MaxDocEdits         \* bound on the edits of each application

VARIABLES
    doc,        \* per side, the document it stores
    baseline,   \* the ancestor's document
    map,        \* the policy map of the engine
    edited,     \* per side, its edits so far
    pushing,    \* what a cycle pushed to A and did not get to commit, until an edit; or None
    asked       \* the last cycle was escalated

vars == <<doc, baseline, map, edited, pushing, asked>>

-----------------------------------------------------------------------------
(* The plan of a cycle.                                                    *)

\* policy.merge of any policy.
Resolve(policy, c) ==
    IF "set_by_key" \in DOMAIN policy THEN MergeTable(policy.set_by_key, c) ELSE Merge(policy, c)

\* What a cycle makes of its documents: the merged one, or None if any path conflicts.
Plan(m, base, a, b) ==
    LET changelog == ThreeWayDiff(base, a, b)
        resolved  == {[path |-> c.path, value |-> Resolve(Lookup(m, c.path), c)] : c \in changelog}
    IN  IF \E r \in resolved : r.value = None THEN None ELSE ApplyResolution(base, resolved)

Planned == Plan(map, baseline, doc[SideA], doc[SideB])
Moved   == ThreeWayDiff(baseline, doc[SideA], doc[SideB])

\* A side is pushed to only if it differs from the merged document.
Pushed(record, merged) == IF merged = record THEN record ELSE Upserted(record, merged)

-----------------------------------------------------------------------------
Init ==
    \E d \in InitialDocs, m \in {p \in DocPolicies : Misaligned(p, Schema) = {}} :
        /\ doc      = [s \in Sides |-> d]
        /\ baseline = d
        /\ map      = m
        /\ edited   = [s \in Sides |-> 0]
        /\ pushing  = None
        /\ asked    = FALSE

Edit(s) ==
    \E d \in Editions(s, doc[s]) :
        /\ edited[s] < MaxDocEdits
        /\ doc'     = [doc EXCEPT ![s] = d]
        /\ edited'  = [edited EXCEPT ![s] = @ + 1]
        /\ pushing' = None
        /\ asked'   = FALSE
        /\ UNCHANGED <<baseline, map>>

\* A cycle that gets to its commit.
Sync(plan) ==
    /\ Moved # {}
    /\ plan # None
    /\ doc'      = [s \in Sides |-> Pushed(doc[s], plan)]
    /\ baseline' = plan
    /\ pushing'  = None
    /\ asked'    = FALSE
    /\ UNCHANGED <<map, edited>>

\* A cycle that stops after its push to A.
SyncCutShort(plan) ==
    /\ Moved # {}
    /\ plan # None
    /\ plan # doc[SideA]
    /\ doc'     = [doc EXCEPT ![SideA] = Upserted(@, plan)]
    /\ pushing' = plan
    /\ asked'   = FALSE
    /\ UNCHANGED <<baseline, map, edited>>

SyncEscalated(plan) ==
    /\ Moved # {}
    /\ plan = None
    /\ asked' = TRUE
    /\ UNCHANGED <<doc, baseline, map, edited, pushing>>

Next ==
    \/ \E s \in Sides : Edit(s)
    \/ \E plan \in {Planned} : Sync(plan) \/ SyncCutShort(plan) \/ SyncEscalated(plan)

Spec == Init /\ [][Next]_vars

-----------------------------------------------------------------------------
(* Properties.                                                             *)

Other(s) ==
    CASE s = SideA -> SideB
      [] s = SideB -> SideA
      [] OTHER     -> s

MirroredPolicy(p) ==
    CASE "owned_by" \in DOMAIN p        -> OwnedBy(Other(p.owned_by))
      [] "last_write_wins" \in DOMAIN p -> LastWriteWins(Other(p.last_write_wins))
      [] "set_by_key" \in DOMAIN p      -> [set_by_key |-> MirrorTable(p.set_by_key)]
      [] OTHER                          -> p

MirroredMap(m) ==
    [by_path |-> [path \in DOMAIN m.by_path |-> MirroredPolicy(m.by_path[path])],
     default |-> MirroredPolicy(m.default)]

\* Neither side is privileged but by the policies: with the systems swapped and
\* the policies mirrored, a cycle comes to the same document or to a conflict
\* again (the per-side settings of SetByKey; OwnedBy and LastWriteWins).
SidesAreSymmetric ==
    Planned = Plan(MirroredMap(map), baseline, doc[SideB], doc[SideA])

Tables == {path \in DOMAIN map.by_path : "set_by_key" \in DOMAIN map.by_path[path]}

Unites == \E path \in Tables : map.by_path[path].set_by_key.on_both_changed = "Union"

\* No retry forks: after a cycle that was cut short between its pushes, the next
\* one comes to the document that was being pushed, or asks; it never commits
\* another one (orchestrator.rs, "Every earlier step retries idempotently", for
\* nested documents and for tables whose policy does not unite rows).
RetryNeverForks ==
    pushing # None /\ Moved # {} /\ ~Unites =>
        \A plan \in {Planned} \ {None} : SameJson(plan, pushing)

\* A side that owns everything keeps its document, as long as no changed path
\* lies inside another changed path.
OwnerKeepsDocument(s) ==
    map = OwnedByDefault(s) => SameJson(doc'[s], doc[s])

OwnerKeepsItsValues ==
    [][doc' # doc /\ edited' = edited /\ ~Overlaps(Moved)
          => \A s \in Sides : OwnerKeepsDocument(s)]_vars

\* One-way sync makes side A "the source of truth" (sync_engine.rs, one_way;
\* docs/sdks/rust.md): no cycle changes a value of its document.
SourceOfTruth == [][edited' = edited => OwnerKeepsDocument(SideA)]_vars
=============================================================================
