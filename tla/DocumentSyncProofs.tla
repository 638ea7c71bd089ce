-------------------------- MODULE DocumentSyncProofs --------------------------
(***************************************************************************)
(* What holds of sync cycles on nested documents of any depth, whatever    *)
(* the two applications write, as long as the policies decide value by     *)
(* value.  The keyed merge of tables is not looked into: it is recursive.  *)
(***************************************************************************)
EXTENDS DocumentSync, JsonDiffProofs, TLAPS

Objects(Json) == {v \in Json : IsObject(v)}

\* Both applications hold JSON objects, at first and after each edit.
HoldJson(Json) ==
    /\ IsJson(Json)
    /\ InitialDocs \subseteq Objects(Json)
    /\ \A s \in Sides : \A d \in Objects(Json) : Editions(s, d) \subseteq Objects(Json)

\* A policy that decides a value by what it was and what it became on the two
\* sides, and takes neither for the first one: AppendUnique, which puts the items of
\* A first, and SetByKey are the others.
IsValuePolicy(p) ==
    \/ \E s : p = OwnedBy(s)
    \/ \E s : p = LastWriteWins(s)
    \/ \E allowed : p = StateMachine(allowed)
    \/ p = Additive
    \/ p = NoPolicy

OfValues(m) ==
    /\ \A path \in DOMAIN m.by_path : IsValuePolicy(m.by_path[path])
    /\ IsValuePolicy(m.default)

LEMMA LookupOfValues ==
    ASSUME NEW m, OfValues(m), NEW path
    PROVE  IsValuePolicy(Lookup(m, path))
  BY DEF OfValues, Lookup

\* What each kind of policy resolves a change to.
LEMMA ResolvesAs ==
    ASSUME NEW c
    PROVE  /\ \A s : Resolve(OwnedBy(s), c) = OwnedByMerge(s, c)
           /\ \A s : Resolve(LastWriteWins(s), c) = LastWriteWinsMerge(s, c)
           /\ \A allowed : Resolve(StateMachine(allowed), c) = StateMachineMerge(allowed, c)
           /\ Resolve(Additive, c) = AdditiveMerge(c)
           /\ Resolve(NoPolicy, c) = None
<1>1. /\ \A s : DOMAIN OwnedBy(s) = {"owned_by"} /\ OwnedBy(s).owned_by = s
      /\ \A s : DOMAIN LastWriteWins(s) = {"last_write_wins"} /\ LastWriteWins(s).last_write_wins = s
      /\ \A allowed : /\ DOMAIN StateMachine(allowed) = {"state_machine"}
                      /\ StateMachine(allowed).state_machine = allowed
      /\ DOMAIN Additive = {"additive"} /\ DOMAIN NoPolicy = {"no_policy"}
  BY DEF OwnedBy, LastWriteWins, StateMachine, Additive, NoPolicy
<1>2. \A s : Resolve(OwnedBy(s), c) = OwnedByMerge(s, c)
  BY <1>1 DEF Resolve, Merge
<1>3. \A s : Resolve(LastWriteWins(s), c) = LastWriteWinsMerge(s, c)
  BY <1>1 DEF Resolve, Merge
<1>4. \A allowed : Resolve(StateMachine(allowed), c) = StateMachineMerge(allowed, c)
  BY <1>1 DEF Resolve, Merge
<1>5. Resolve(Additive, c) = AdditiveMerge(c) /\ Resolve(NoPolicy, c) = None
  BY <1>1 DEF Resolve, Merge
<1>6. QED
  BY <1>2, <1>3, <1>4, <1>5

\* A changed path as the policies see it.
IsChange(Json, c) ==
    /\ c.old_value \in Json
    /\ c.new_from_a \in Json \cup {None} /\ c.new_from_b \in Json \cup {None}
    /\ c.new_from_a # None \/ c.new_from_b # None

\* A change resolves to a JSON value or is a conflict.
LEMMA ResolvesToJson ==
    ASSUME NEW Json, IsJson(Json), NEW c, IsChange(Json, c), NEW p, IsValuePolicy(p)
    PROVE  Resolve(p, c) \in Json \cup {None}
<1>1. NewA(c) \in Json /\ NewB(c) \in Json
  BY DEF IsChange, NewA, NewB
<1>2. CASE \E s : p = OwnedBy(s)
  BY <1>1, <1>2, ResolvesAs DEF OwnedByMerge
<1>3. CASE \E s : p = LastWriteWins(s)
  <2>1. PICK s : p = LastWriteWins(s)
    BY <1>3
  <2>2. LastWriteWinsMerge(s, c) \in Json \cup {None}
    BY DEF LastWriteWinsMerge, BothMoved, IsChange
  <2>3. QED
    BY <2>1, <2>2, ResolvesAs
<1>4. CASE \E allowed : p = StateMachine(allowed)
  <2>1. PICK allowed : p = StateMachine(allowed)
    BY <1>4
  <2>2. StateMachineMerge(allowed, c) \in Json \cup {None}
    BY DEF StateMachineMerge, IsChange
  <2>3. QED
    BY <2>1, <2>2, ResolvesAs
<1>5. CASE p = Additive
  <2>1. AdditiveMerge(c) \in Json \cup {None}
    <3>1. CASE IsNumber(c.old_value) /\ IsNumber(NewA(c)) /\ IsNumber(NewB(c))
      <4>1. NewA(c)[2] \in Int /\ NewB(c)[2] \in Int /\ c.old_value[2] \in Int
        BY <1>1, <3>1 DEF IsJson, IsChange
      <4>2. NewA(c)[2] + NewB(c)[2] - c.old_value[2] \in Int
        BY <4>1
      <4>3. QED
        BY <3>1, <4>2 DEF AdditiveMerge, IsJson
    <3>2. CASE ~(IsNumber(c.old_value) /\ IsNumber(NewA(c)) /\ IsNumber(NewB(c)))
      BY <3>2 DEF AdditiveMerge
    <3>3. QED
      BY <3>1, <3>2
  <2>2. QED
    BY <1>5, <2>1, ResolvesAs
<1>6. CASE p = NoPolicy
  BY <1>6, ResolvesAs
<1>7. QED
  BY <1>2, <1>3, <1>4, <1>5, <1>6 DEF IsValuePolicy

\* The changelog of three JSON objects.
LEMMA ChangesAre ==
    ASSUME NEW Json, IsJson(Json),
           NEW o \in Objects(Json), NEW a \in Objects(Json), NEW b \in Objects(Json)
    PROVE  /\ IsFiniteSet(ThreeWayDiff(o, a, b))
           /\ \A c \in ThreeWayDiff(o, a, b) :
                 IsChange(Json, c) /\ c.path \in Seq(STRING) /\ c.path # <<>>
<1>1. o \in Json /\ a \in Json /\ b \in Json /\ IsObject(o) /\ IsObject(a) /\ IsObject(b)
  BY DEF Objects
<1>2. IsFiniteSet(ThreeWayDiff(o, a, b))
  BY <1>1, ChangelogFinite
<1>3. ASSUME NEW c \in ThreeWayDiff(o, a, b)
      PROVE  IsChange(Json, c) /\ c.path \in Seq(STRING) /\ c.path # <<>>
  <2>1. \A e : e \in ThreeWayDiff(o, a, b) <=>
                  \E q : ChangedAt(o, a, b, q) /\ e = ChangeAt(o, a, b, q)
    BY <1>1, ChangelogIs
  <2>2. PICK q : ChangedAt(o, a, b, q) /\ c = ChangeAt(o, a, b, q)
    BY <2>1
  <2>3. q \in Seq(STRING) /\ Len(q) \in 0..Len(q)
    BY <2>2 DEF ChangedAt, Differs, Reached
  <2>4. q # <<>>
    <3> SUFFICES ASSUME q = <<>> PROVE FALSE
      OBVIOUS
    <3>1. Len(q) = 0 /\ Node(o, q, 0) = o /\ Node(a, q, 0) = a /\ Node(b, q, 0) = b
      BY <2>3, NodeSteps
    <3>2. QED
      BY <1>1, <2>2, <3>1 DEF ChangedAt, Differs
  <2>5. At(o, q) \in Json /\ At(a, q) \in Json /\ At(b, q) \in Json /\ None \notin Json
    BY <1>1, <2>3, NodeIsJson DEF At, IsJson
  <2>6. /\ c.path = q /\ c.old_value = At(o, q)
        /\ c.new_from_a = Moved1(o, a, q) /\ c.new_from_b = Moved1(o, b, q)
    BY <2>2 DEF ChangeAt
  <2>7. IsChange(Json, c)
    BY <2>2, <2>5, <2>6 DEF IsChange, Moved1, ChangedAt
  <2>8. QED
    BY <2>3, <2>4, <2>6, <2>7
<1>4. QED
  BY <1>2, <1>3

ResolvedOf(m, o, a, b) ==
    {[path |-> c.path, value |-> Resolve(Lookup(m, c.path), c)] : c \in ThreeWayDiff(o, a, b)}

LEMMA ResolvedFinite ==
    ASSUME NEW m, NEW o, NEW a, NEW b, IsFiniteSet(ThreeWayDiff(o, a, b))
    PROVE  IsFiniteSet(ResolvedOf(m, o, a, b))
<1> DEFINE f == [c \in ThreeWayDiff(o, a, b) |->
                   [path |-> c.path, value |-> Resolve(Lookup(m, c.path), c)]]
           S == ThreeWayDiff(o, a, b)
<1>1. ResolvedOf(m, o, a, b) = {f[c] : c \in S}
  BY DEF ResolvedOf
<1> HIDE DEF f, S
<1>2. QED
  BY <1>1, ValuesFinite DEF S

\* A plan is the ancestor overlaid with what every change resolves to.
LEMMA PlanIs ==
    ASSUME NEW m, NEW o, NEW a, NEW b, Plan(m, o, a, b) # None
    PROVE  /\ \A r \in ResolvedOf(m, o, a, b) : r.value # None
           /\ Plan(m, o, a, b) = ApplyResolution(o, ResolvedOf(m, o, a, b))
  BY DEF Plan, ResolvedOf

\* A plan writes JSON values.
LEMMA PlanWrites ==
    ASSUME NEW Json, IsJson(Json), NEW m, OfValues(m),
           NEW o \in Objects(Json), NEW a \in Objects(Json), NEW b \in Objects(Json),
           Plan(m, o, a, b) # None
    PROVE  IsWriting(Json, ResolvedOf(m, o, a, b))
<1> DEFINE resolved == ResolvedOf(m, o, a, b)
<1>1. \A r \in resolved : r.value # None
  BY PlanIs
<1>2. IsFiniteSet(resolved)
  BY ChangesAre, ResolvedFinite
<1>3. ASSUME NEW r \in resolved PROVE r.path \in Seq(STRING) /\ r.path # <<>> /\ r.value \in Json
  <2>1. PICK c \in ThreeWayDiff(o, a, b) :
            r = [path |-> c.path, value |-> Resolve(Lookup(m, c.path), c)]
    BY DEF ResolvedOf
  <2>2. r.path = c.path /\ r.value = Resolve(Lookup(m, c.path), c)
    BY <2>1
  <2>3. IsChange(Json, c) /\ c.path \in Seq(STRING) /\ c.path # <<>>
    BY ChangesAre
  <2>4. Resolve(Lookup(m, c.path), c) \in Json \cup {None}
    BY <2>3, LookupOfValues, ResolvesToJson
  <2>5. QED
    BY <1>1, <2>2, <2>3, <2>4
<1> HIDE DEF resolved
<1>4. QED
  BY <1>2, <1>3 DEF IsWriting, resolved

\* A plan of JSON objects is one.
LEMMA PlanIsJson ==
    ASSUME NEW Json, IsJson(Json), NEW m, OfValues(m),
           NEW o \in Objects(Json), NEW a \in Objects(Json), NEW b \in Objects(Json),
           Plan(m, o, a, b) # None
    PROVE  Plan(m, o, a, b) \in Objects(Json)
<1> DEFINE resolved == ResolvedOf(m, o, a, b)
<1>1. IsWriting(Json, resolved)
  BY PlanWrites
<1> HIDE DEF resolved
<1>2. o \in Json /\ IsObject(o)
  BY DEF Objects
<1>3. ApplyResolution(o, resolved) \in Json /\ IsObject(ApplyResolution(o, resolved))
  BY <1>1, <1>2, OverlayIsJson
<1>4. QED
  BY <1>3, PlanIs DEF Objects, resolved

-----------------------------------------------------------------------------
(* The owner of every value.                                               *)

LEMMA OwnersPolicies ==
    ASSUME NEW s
    PROVE  /\ OfValues(OwnedByDefault(s))
           /\ \A path : Lookup(OwnedByDefault(s), path) = OwnedBy(s)
<1>1. OwnedByDefault(s).by_path = <<>> /\ OwnedByDefault(s).default = OwnedBy(s) /\ DOMAIN <<>> = {}
  BY DEF OwnedByDefault
<1>2. IsValuePolicy(OwnedBy(s))
  BY DEF IsValuePolicy
<1>3. QED
  BY <1>1, <1>2 DEF OfValues, Lookup

\* What the owner of a path makes of a change there.
LEMMA OwnerTakes ==
    ASSUME NEW Json, IsJson(Json), NEW o \in Json, NEW a \in Json, NEW b \in Json,
           NEW q, ChangedAt(o, a, b, q)
    PROVE  /\ OwnedByMerge(SideA, ChangeAt(o, a, b, q)) = Owned(o, a, q)
           /\ OwnedByMerge(SideB, ChangeAt(o, a, b, q)) = Owned(o, b, q)
<1>1. q \in Seq(STRING) /\ Len(q) \in 0..Len(q)
  BY DEF ChangedAt, Differs, Reached
<1>2. At(a, q) # None /\ At(b, q) # None
  BY <1>1, NodeIsJson DEF At, IsJson
<1> DEFINE c == ChangeAt(o, a, b, q)
<1>3. /\ c.old_value = At(o, q)
      /\ c.new_from_a = Moved1(o, a, q) /\ c.new_from_b = Moved1(o, b, q)
  BY DEF ChangeAt
<1> HIDE DEF c
<1>4. NewA(c) = Owned(o, a, q) /\ NewB(c) = Owned(o, b, q)
  BY <1>2, <1>3 DEF NewA, NewB, Moved1, Owned
<1>5. QED
  BY <1>4 DEF OwnedByMerge, SideA, SideB, c

\* What a side that owns every path is pushed differs from what it has nowhere.
LEMMA OwnersPlan ==
    ASSUME NEW Json, IsJson(Json), NEW s \in Sides, NEW o \in Objects(Json),
           NEW docs, docs[SideA] \in Objects(Json), docs[SideB] \in Objects(Json),
           ~Overlaps(ThreeWayDiff(o, docs[SideA], docs[SideB])),
           Plan(OwnedByDefault(s), o, docs[SideA], docs[SideB]) # None
    PROVE  SameJson(Upserted(docs[s], Plan(OwnedByDefault(s), o, docs[SideA], docs[SideB])), docs[s])
<1> DEFINE m == OwnedByDefault(s)
           a == docs[SideA]
           b == docs[SideB]
           d == docs[s]
           e == docs[Other(s)]
           resolved == ResolvedOf(m, o, a, b)
           plan == Plan(m, o, a, b)
<1>1. /\ o \in Json /\ a \in Json /\ b \in Json
      /\ IsObject(o) /\ IsObject(a) /\ IsObject(b)
  BY DEF Objects
<1>2. \/ s = SideA /\ d = a /\ e = b
      \/ s = SideB /\ d = b /\ e = a
  BY DEF Sides, Other, SideA, SideB
<1>3. \A q : ChangedAt(o, d, e, q) <=> ChangedAt(o, a, b, q)
  BY <1>2 DEF ChangedAt
<1>4. ASSUME NEW q, ChangedAt(o, a, b, q)
      PROVE  OwnedByMerge(s, ChangeAt(o, a, b, q)) = Owned(o, d, q)
  <2> HIDE DEF a, b, d
  <2>1. QED
    BY <1>1, <1>2, <1>4, OwnerTakes
<1>5. \A c : c \in ThreeWayDiff(o, a, b) <=> \E q : ChangedAt(o, a, b, q) /\ c = ChangeAt(o, a, b, q)
  BY <1>1, ChangelogIs
<1>6. OwnersResolution(o, d, e, resolved)
  <2>1. resolved = {[path |-> c.path, value |-> OwnedByMerge(s, c)] : c \in ThreeWayDiff(o, a, b)}
    <3>1. \A c : Resolve(Lookup(m, c.path), c) = OwnedByMerge(s, c)
      BY OwnersPolicies, ResolvesAs
    <3> HIDE DEF m, a, b
    <3>2. QED
      BY <3>1 DEF ResolvedOf
  <2> HIDE DEF resolved, a, b, d, e
  <2>2. \A q : ChangeAt(o, a, b, q).path = q
    BY DEF ChangeAt
  <2>3. ASSUME NEW r, r \in resolved
        PROVE  \E q : ChangedAt(o, d, e, q) /\ r = [path |-> q, value |-> Owned(o, d, q)]
    <3>1. PICK c \in ThreeWayDiff(o, a, b) : r = [path |-> c.path, value |-> OwnedByMerge(s, c)]
      BY <2>1, <2>3
    <3>2. PICK q : ChangedAt(o, a, b, q) /\ c = ChangeAt(o, a, b, q)
      BY <1>5
    <3>3. OwnedByMerge(s, c) = Owned(o, d, q) /\ c.path = q
      BY <1>4, <2>2, <3>2
    <3>4. QED
      BY <1>3, <3>1, <3>2, <3>3
  <2>4. ASSUME NEW q, ChangedAt(o, d, e, q) PROVE [path |-> q, value |-> Owned(o, d, q)] \in resolved
    <3> DEFINE c == ChangeAt(o, a, b, q)
    <3>1. c \in ThreeWayDiff(o, a, b) /\ c.path = q /\ OwnedByMerge(s, c) = Owned(o, d, q)
      BY <1>3, <1>4, <1>5, <2>2, <2>4
    <3> HIDE DEF c
    <3>2. QED
      BY <2>1, <3>1
  <2>5. QED
    BY <2>3, <2>4 DEF OwnersResolution
<1>7. Apart(o, d, e)
  <2>1. ASSUME NEW p, NEW q, ChangedAt(o, a, b, p), ChangedAt(o, a, b, q), Within(p, q) PROVE p = q
    BY <1>1, <2>1, ChangesApart
  <2>2. QED
    BY <1>3, <2>1 DEF Apart
<1>8. IsFiniteSet(resolved)
  BY ChangesAre, ResolvedFinite
<1>9. plan = ApplyResolution(o, resolved)
  BY PlanIs
<1>10. plan \in Json /\ IsObject(plan)
  <2>1. plan \in Objects(Json)
    BY OwnersPolicies, PlanIsJson
  <2>2. QED
    BY <2>1 DEF Objects
<1> HIDE DEF resolved, plan, a, b, d, e, m
<1>11. d \in Json /\ e \in Json /\ IsObject(d) /\ IsObject(e)
  BY <1>1, <1>2
<1>12. SameJson(Upserted(d, plan), d)
  <2>1. ApplyResolution(o, resolved) \in Json /\ IsObject(ApplyResolution(o, resolved))
    BY <1>9, <1>10
  <2>2. SameJson(Upserted(d, ApplyResolution(o, resolved)), d)
    BY <1>1, <1>6, <1>7, <1>8, <1>11, <2>1, OwnerKeeps
  <2>3. QED
    BY <1>9, <2>2
<1>13. QED
  BY <1>12 DEF plan, d, m, a, b

-----------------------------------------------------------------------------
(* The invariant.                                                          *)

DocsAreJson(Json) == baseline \in Objects(Json) /\ doc[SideA] \in Objects(Json) /\ doc[SideB] \in Objects(Json)

\* While the policies decide value by value, what the sides and the ancestor hold
\* are JSON objects; only edits are counted.
IInv(Json) ==
    /\ OfValues(map) => DocsAreJson(Json)
    /\ doc \in [Sides -> {doc[s] : s \in Sides}]
    /\ edited \in [Sides -> Nat]

LEMMA InitHolds ==
    ASSUME NEW Json, HoldJson(Json), Init
    PROVE  IInv(Json)
<1>1. PICK d \in InitialDocs :
          /\ doc = [s \in Sides |-> d] /\ baseline = d /\ edited = [s \in Sides |-> 0]
  BY DEF Init
<1>2. d \in Objects(Json)
  BY DEF HoldJson
<1>3. SideA \in Sides /\ SideB \in Sides
  BY DEF Sides
<1>4. QED
  BY <1>1, <1>2, <1>3 DEF IInv, DocsAreJson

\* A step of a cycle, as far as documents go.
LEMMA Syncs ==
    ASSUME NEW plan, Sync(plan) \/ SyncCutShort(plan)
    PROVE  /\ Moved # {} /\ plan # None /\ map' = map /\ edited' = edited
           /\ baseline' = plan \/ baseline' = baseline
           /\ doc \in [Sides -> {doc[s] : s \in Sides}] =>
                 /\ \A s \in Sides : doc'[s] = doc[s] \/ doc'[s] = Upserted(doc[s], plan)
                 /\ doc' \in [Sides -> {doc'[s] : s \in Sides}]
<1>1. CASE Sync(plan)
  BY <1>1 DEF Sync, Pushed
<1>2. CASE SyncCutShort(plan)
  BY <1>2 DEF SyncCutShort, Sides
<1>3. QED
  BY <1>1, <1>2

LEMMA NextHolds ==
    ASSUME NEW Json, HoldJson(Json), IInv(Json), [Next]_vars
    PROVE  IInv(Json)'
<1>1. SideA \in Sides /\ SideB \in Sides
  BY DEF Sides
<1>2. ASSUME NEW s \in Sides, Edit(s) PROVE IInv(Json)'
  <2>1. PICK d \in Editions(s, doc[s]) :
            /\ doc' = [doc EXCEPT ![s] = d] /\ edited' = [edited EXCEPT ![s] = @ + 1]
            /\ UNCHANGED <<baseline, map>>
    BY <1>2 DEF Edit
  <2>2. doc' \in [Sides -> {doc'[t] : t \in Sides}] /\ edited' \in [Sides -> Nat]
    BY <2>1 DEF IInv
  <2>3. \A t \in Sides : doc'[t] = IF t = s THEN d ELSE doc[t]
    BY <2>1 DEF IInv
  <2>4. OfValues(map) => d \in Objects(Json)
    <3>1. OfValues(map) => doc[s] \in Objects(Json)
      BY DEF IInv, DocsAreJson, Sides
    <3>2. QED
      BY <2>1, <3>1 DEF HoldJson
  <2>5. OfValues(map)' => DocsAreJson(Json)'
    <3>1. OfValues(map)' => OfValues(map)
      BY <2>1
    <3>2. QED
      BY <1>1, <2>1, <2>3, <2>4, <3>1 DEF IInv, DocsAreJson, Objects
  <2>6. QED
    BY <2>2, <2>5 DEF IInv
<1>3. ASSUME NEW plan, plan = Planned, Sync(plan) \/ SyncCutShort(plan) PROVE IInv(Json)'
  <2>1. /\ plan # None /\ map' = map /\ edited' = edited
        /\ baseline' = plan \/ baseline' = baseline
        /\ \A s \in Sides : doc'[s] = doc[s] \/ doc'[s] = Upserted(doc[s], plan)
        /\ doc' \in [Sides -> {doc'[s] : s \in Sides}]
    BY <1>3, Syncs DEF IInv
  <2>2. ASSUME OfValues(map) PROVE DocsAreJson(Json)'
    <3>1. DocsAreJson(Json)
      BY <2>2 DEF IInv
    <3>2. plan \in Objects(Json)
      BY <1>3, <2>1, <2>2, <3>1, PlanIsJson DEF Planned, DocsAreJson, HoldJson
    <3>3. \A s \in Sides : doc[s] \in Objects(Json)
      BY <3>1 DEF DocsAreJson, Sides
    <3>4. ASSUME NEW s \in Sides PROVE Upserted(doc[s], plan) \in Objects(Json)
      <4>1. Upserted(doc[s], plan) \in Json
        BY <3>2, <3>3 DEF Objects, HoldJson, IsJson
      <4>2. IsObject(Upserted(doc[s], plan))
        BY <3>2, <3>3, UpsertedChild DEF Objects
      <4>3. QED
        BY <4>1, <4>2 DEF Objects
    <3>5. \A s \in Sides : doc'[s] \in Objects(Json)
      BY <2>1, <3>3, <3>4
    <3>6. QED
      BY <1>1, <2>1, <3>1, <3>2, <3>5 DEF DocsAreJson, Objects
  <2>3. OfValues(map)' => OfValues(map)
    BY <2>1
  <2>4. QED
    BY <2>1, <2>2, <2>3 DEF IInv
<1>4. CASE UNCHANGED <<doc, baseline, map, edited>>
  BY <1>4 DEF IInv, DocsAreJson, Objects
<1>5. CASE \E plan : SyncEscalated(plan)
  BY <1>4, <1>5 DEF SyncEscalated
<1>6. CASE UNCHANGED vars
  BY <1>4, <1>6 DEF vars
<1>7. QED
  BY <1>2, <1>3, <1>5, <1>6 DEF Next

\* IInv holds in every state: with value policies nothing but JSON objects is ever
\* stored, pushed or committed.
THEOREM JsonStaysJson ==
    ASSUME NEW Json, HoldJson(Json)
    PROVE  Spec => []IInv(Json)
<1>1. Init => IInv(Json)
  BY InitHolds
<1>2. IInv(Json) /\ [Next]_vars => IInv(Json)'
  BY NextHolds
<1>3. QED
  BY <1>1, <1>2, PTL DEF Spec

LEMMA OwnerKeepsStep ==
    ASSUME NEW Json, HoldJson(Json), IInv(Json), [Next]_vars
    PROVE  doc' # doc /\ edited' = edited /\ ~Overlaps(Moved)
              => \A s \in Sides : OwnerKeepsDocument(s)
<1> SUFFICES ASSUME doc' # doc, edited' = edited, ~Overlaps(Moved),
                    NEW s \in Sides, map = OwnedByDefault(s)
             PROVE  SameJson(doc'[s], doc[s])
  BY DEF OwnerKeepsDocument
<1>1. DocsAreJson(Json) /\ IsJson(Json)
  BY OwnersPolicies DEF IInv, HoldJson
<1>2. ~ \E t \in Sides : Edit(t)
  <2> SUFFICES ASSUME NEW t \in Sides, Edit(t) PROVE FALSE
    OBVIOUS
  <2>1. edited' = [edited EXCEPT ![t] = @ + 1]
    BY DEF Edit
  <2>2. edited[t] \in Nat /\ edited'[t] = edited[t] + 1
    BY <2>1 DEF IInv
  <2>3. QED
    BY <2>2
<1>3. Sync(Planned) \/ SyncCutShort(Planned)
  BY <1>2 DEF Next, SyncEscalated, vars
<1>4. Planned # None /\ (doc'[s] = doc[s] \/ doc'[s] = Upserted(doc[s], Planned))
  BY <1>3, Syncs DEF IInv
<1>5. CASE doc'[s] = doc[s]
  <2>1. doc[s] \in Json
    BY <1>1 DEF DocsAreJson, Objects, Sides
  <2>2. QED
    BY <1>1, <1>5, <2>1, SameJsonItself
<1>6. CASE doc'[s] = Upserted(doc[s], Planned)
  BY <1>1, <1>4, <1>6, OwnersPlan DEF Planned, Moved, DocsAreJson
<1>7. QED
  BY <1>4, <1>5, <1>6

\* OwnerKeepsItsValues, for documents of any depth: a side that owns every path is
\* given back its own document, as long as no changed path lies inside another one
\* (OwnedBy, and apply_resolution over the ancestor).
THEOREM OwnerKeepsItsDocument ==
    ASSUME NEW Json, HoldJson(Json)
    PROVE  Spec => OwnerKeepsItsValues
<1>1. IInv(Json) /\ [Next]_vars
         => [doc' # doc /\ edited' = edited /\ ~Overlaps(Moved)
                => \A s \in Sides : OwnerKeepsDocument(s)]_vars
  BY OwnerKeepsStep
<1>2. Spec => []IInv(Json)
  BY JsonStaysJson
<1>3. QED
  BY <1>1, <1>2, PTL DEF Spec, OwnerKeepsItsValues

-----------------------------------------------------------------------------
(* The two sides.                                                          *)

Swapped(c) ==
    [path |-> c.path, old_value |-> c.old_value, new_from_a |-> c.new_from_b, new_from_b |-> c.new_from_a]

LEMMA MirroredAs ==
    /\ \A s : MirroredPolicy(OwnedBy(s)) = OwnedBy(Other(s))
    /\ \A s : MirroredPolicy(LastWriteWins(s)) = LastWriteWins(Other(s))
    /\ \A allowed : MirroredPolicy(StateMachine(allowed)) = StateMachine(allowed)
    /\ MirroredPolicy(Additive) = Additive /\ MirroredPolicy(NoPolicy) = NoPolicy
<1>1. /\ \A s : DOMAIN OwnedBy(s) = {"owned_by"} /\ OwnedBy(s).owned_by = s
      /\ \A s : DOMAIN LastWriteWins(s) = {"last_write_wins"} /\ LastWriteWins(s).last_write_wins = s
      /\ \A allowed : DOMAIN StateMachine(allowed) = {"state_machine"}
      /\ DOMAIN Additive = {"additive"} /\ DOMAIN NoPolicy = {"no_policy"}
  BY DEF OwnedBy, LastWriteWins, StateMachine, Additive, NoPolicy
<1>2. \A s : MirroredPolicy(OwnedBy(s)) = OwnedBy(Other(s))
  BY <1>1 DEF MirroredPolicy
<1>3. \A s : MirroredPolicy(LastWriteWins(s)) = LastWriteWins(Other(s))
  BY <1>1 DEF MirroredPolicy
<1>4. \A allowed : MirroredPolicy(StateMachine(allowed)) = StateMachine(allowed)
  BY <1>1 DEF MirroredPolicy
<1>5. MirroredPolicy(Additive) = Additive /\ MirroredPolicy(NoPolicy) = NoPolicy
  BY <1>1 DEF MirroredPolicy
<1>6. QED
  BY <1>2, <1>3, <1>4, <1>5

\* A mirrored policy decides a swapped change as the policy decides the change.
LEMMA MirroredDecides ==
    ASSUME NEW Json, IsJson(Json), NEW c, IsChange(Json, c), NEW p, IsValuePolicy(p)
    PROVE  Resolve(MirroredPolicy(p), Swapped(c)) = Resolve(p, c)
<1> DEFINE z == Swapped(c)
<1>1. z.old_value = c.old_value /\ z.new_from_a = c.new_from_b /\ z.new_from_b = c.new_from_a
  BY DEF Swapped
<1> HIDE DEF z
<1>2. NewA(z) = NewB(c) /\ NewB(z) = NewA(c) /\ (BothMoved(z) <=> BothMoved(c))
  BY <1>1 DEF NewA, NewB, BothMoved
<1>3. CASE \E s : p = OwnedBy(s)
  <2>1. PICK s : p = OwnedBy(s)
    BY <1>3
  <2>2. OwnedByMerge(Other(s), z) = OwnedByMerge(s, c)
    <3>1. CASE s = SideA
      BY <1>2, <3>1 DEF OwnedByMerge, Other, SideA, SideB
    <3>2. CASE s = SideB
      BY <1>2, <3>2 DEF OwnedByMerge, Other, SideA, SideB
    <3>3. CASE s # SideA /\ s # SideB
      BY <3>3 DEF OwnedByMerge, Other, SideA, SideB
    <3>4. QED
      BY <3>1, <3>2, <3>3
  <2>3. QED
    BY <2>1, <2>2, MirroredAs, ResolvesAs DEF z
<1>4. CASE \E s : p = LastWriteWins(s)
  <2>1. PICK s : p = LastWriteWins(s)
    BY <1>4
  <2>2. LastWriteWinsMerge(Other(s), z) = LastWriteWinsMerge(s, c)
    <3>1. CASE ~BothMoved(c)
      BY <1>1, <1>2, <3>1 DEF LastWriteWinsMerge, BothMoved, IsChange
    <3>2. CASE BothMoved(c)
      <4>1. CASE s = SideA
        BY <1>1, <1>2, <3>2, <4>1 DEF LastWriteWinsMerge, Other, SideA, SideB
      <4>2. CASE s = SideB
        BY <1>1, <1>2, <3>2, <4>2 DEF LastWriteWinsMerge, Other, SideA, SideB
      <4>3. CASE s # SideA /\ s # SideB
        BY <1>1, <1>2, <3>2, <4>3 DEF LastWriteWinsMerge, Other, SideA, SideB
      <4>4. QED
        BY <4>1, <4>2, <4>3
    <3>3. QED
      BY <3>1, <3>2
  <2>3. QED
    BY <2>1, <2>2, MirroredAs, ResolvesAs DEF z
<1>5. CASE \E allowed : p = StateMachine(allowed)
  <2>1. PICK allowed : p = StateMachine(allowed)
    BY <1>5
  <2>2. StateMachineMerge(allowed, z) = StateMachineMerge(allowed, c)
    BY <1>1, <1>2 DEF StateMachineMerge, BothMoved
  <2>3. QED
    BY <2>1, <2>2, MirroredAs, ResolvesAs DEF z
<1>6. CASE p = Additive
  <2>1. AdditiveMerge(z) = AdditiveMerge(c)
    <3>1. CASE IsNumber(c.old_value) /\ IsNumber(NewA(c)) /\ IsNumber(NewB(c))
      <4>1. NewA(c) \in Json /\ NewB(c) \in Json /\ c.old_value \in Json
        BY DEF IsChange, NewA, NewB
      <4>2. NewA(c)[2] \in Int /\ NewB(c)[2] \in Int /\ c.old_value[2] \in Int
        BY <3>1, <4>1 DEF IsJson
      <4>3. NewA(c)[2] + NewB(c)[2] - c.old_value[2] = NewB(c)[2] + NewA(c)[2] - c.old_value[2]
        BY <4>2
      <4>4. QED
        BY <1>1, <1>2, <3>1, <4>3 DEF AdditiveMerge
    <3>2. CASE ~(IsNumber(c.old_value) /\ IsNumber(NewA(c)) /\ IsNumber(NewB(c)))
      BY <1>1, <1>2, <3>2 DEF AdditiveMerge
    <3>3. QED
      BY <3>1, <3>2
  <2>2. QED
    BY <1>6, <2>1, MirroredAs, ResolvesAs DEF z
<1>7. CASE p = NoPolicy
  BY <1>7, MirroredAs, ResolvesAs
<1>8. QED
  BY <1>3, <1>4, <1>5, <1>6, <1>7 DEF IsValuePolicy

LEMMA MirroredLookup ==
    ASSUME NEW m, NEW path
    PROVE  Lookup(MirroredMap(m), path) = MirroredPolicy(Lookup(m, path))
<1> DEFINE f == [x \in DOMAIN m.by_path |-> MirroredPolicy(m.by_path[x])]
<1>1. MirroredMap(m).by_path = f /\ MirroredMap(m).default = MirroredPolicy(m.default)
  BY DEF MirroredMap
<1>2. DOMAIN f = DOMAIN m.by_path /\ \A x \in DOMAIN f : f[x] = MirroredPolicy(m.by_path[x])
  OBVIOUS
<1> HIDE DEF f
<1>3. QED
  BY <1>1, <1>2 DEF Lookup

\* Of swapped documents a mirrored policy map resolves every path to the same value.
LEMMA MirroredResolution ==
    ASSUME NEW Json, IsJson(Json), NEW m, OfValues(m),
           NEW o \in Objects(Json), NEW a \in Objects(Json), NEW b \in Objects(Json)
    PROVE  ResolvedOf(MirroredMap(m), o, b, a) = ResolvedOf(m, o, a, b)
<1>1. o \in Json /\ a \in Json /\ b \in Json
  BY DEF Objects
<1>2. /\ \A c : c \in ThreeWayDiff(o, a, b) <=> \E q : ChangedAt(o, a, b, q) /\ c = ChangeAt(o, a, b, q)
      /\ \A c : c \in ThreeWayDiff(o, b, a) <=> \E q : ChangedAt(o, b, a, q) /\ c = ChangeAt(o, b, a, q)
  BY <1>1, ChangelogIs
<1>3. \A q : ChangedAt(o, b, a, q) <=> ChangedAt(o, a, b, q)
  BY DEF ChangedAt
<1> DEFINE Of(n, c) == [path |-> c.path, value |-> Resolve(Lookup(n, c.path), c)]
           there == MirroredMap(m)
<1>4. ASSUME NEW q, ChangedAt(o, a, b, q)
      PROVE  Of(there, ChangeAt(o, b, a, q)) = Of(m, ChangeAt(o, a, b, q))
  <2> DEFINE c == ChangeAt(o, a, b, q)
             d == ChangeAt(o, b, a, q)
  <2>1. c \in ThreeWayDiff(o, a, b)
    BY <1>2, <1>4
  <2>2. d = Swapped(c) /\ c.path = q /\ d.path = q
    BY DEF ChangeAt, Swapped
  <2> HIDE DEF c, d, there
  <2>3. IsChange(Json, c)
    BY <2>1, ChangesAre
  <2>4. IsValuePolicy(Lookup(m, q))
    BY LookupOfValues
  <2>5. Resolve(MirroredPolicy(Lookup(m, q)), d) = Resolve(Lookup(m, q), c)
    BY <2>2, <2>3, <2>4, MirroredDecides
  <2>6. Lookup(there, q) = MirroredPolicy(Lookup(m, q))
    BY MirroredLookup DEF there
  <2>7. QED
    BY <2>2, <2>5, <2>6 DEF c, d
<1>5. /\ ResolvedOf(m, o, a, b) = {Of(m, c) : c \in ThreeWayDiff(o, a, b)}
      /\ ResolvedOf(there, o, b, a) = {Of(there, c) : c \in ThreeWayDiff(o, b, a)}
  BY DEF ResolvedOf
<1> HIDE DEF Of, there
<1>6. ASSUME NEW r, r \in ResolvedOf(m, o, a, b) PROVE r \in ResolvedOf(there, o, b, a)
  <2>1. PICK c \in ThreeWayDiff(o, a, b) : r = Of(m, c)
    BY <1>5, <1>6
  <2>2. PICK q : ChangedAt(o, a, b, q) /\ c = ChangeAt(o, a, b, q)
    BY <1>2
  <2>3. ChangeAt(o, b, a, q) \in ThreeWayDiff(o, b, a)
    BY <1>2, <1>3, <2>2
  <2>4. r = Of(there, ChangeAt(o, b, a, q))
    BY <1>4, <2>1, <2>2
  <2>5. QED
    BY <1>5, <2>3, <2>4
<1>7. ASSUME NEW r, r \in ResolvedOf(there, o, b, a) PROVE r \in ResolvedOf(m, o, a, b)
  <2>1. PICK c \in ThreeWayDiff(o, b, a) : r = Of(there, c)
    BY <1>5, <1>7
  <2>2. PICK q : ChangedAt(o, b, a, q) /\ c = ChangeAt(o, b, a, q)
    BY <1>2
  <2>3. ChangeAt(o, a, b, q) \in ThreeWayDiff(o, a, b) /\ ChangedAt(o, a, b, q)
    BY <1>2, <1>3, <2>2
  <2>4. r = Of(m, ChangeAt(o, a, b, q))
    BY <1>4, <2>1, <2>2, <2>3
  <2>5. QED
    BY <1>5, <2>3, <2>4
<1>8. QED
  BY <1>6, <1>7 DEF there

\* SidesAreSymmetric, for documents of any depth and policies that decide value by
\* value: with the systems swapped and the policies mirrored, a cycle comes to the
\* same document or to a conflict again.
THEOREM NeitherSideIsPrivileged ==
    ASSUME NEW Json, HoldJson(Json)
    PROVE  Spec => [](OfValues(map) => SidesAreSymmetric)
<1>1. ASSUME IInv(Json), OfValues(map) PROVE SidesAreSymmetric
  <2>1. DocsAreJson(Json) /\ IsJson(Json)
    BY <1>1 DEF IInv, HoldJson
  <2>2. ResolvedOf(MirroredMap(map), baseline, doc[SideB], doc[SideA])
          = ResolvedOf(map, baseline, doc[SideA], doc[SideB])
    BY <1>1, <2>1, MirroredResolution DEF DocsAreJson
  <2>3. \A m, o, a, b : Plan(m, o, a, b) =
            IF \E r \in ResolvedOf(m, o, a, b) : r.value = None THEN None
            ELSE ApplyResolution(o, ResolvedOf(m, o, a, b))
    BY DEF Plan, ResolvedOf
  <2>4. QED
    BY <2>2, <2>3 DEF SidesAreSymmetric, Planned
<1>2. IInv(Json) => (OfValues(map) => SidesAreSymmetric)
  BY <1>1
<1>3. Spec => []IInv(Json)
  BY JsonStaysJson
<1>4. QED
  BY <1>2, <1>3, PTL

-----------------------------------------------------------------------------
(* The retry of a cycle that was cut short.                                *)

\* A policy that resolves a change to what one of the sides made of the value, or to
\* what it was.  (Additive adds up what it is given: it counts a push that was not
\* committed again.)
IsSidePolicy(p) ==
    \/ \E s : p = OwnedBy(s)
    \/ \E s : p = LastWriteWins(s)
    \/ \E allowed : p = StateMachine(allowed)
    \/ p = NoPolicy

TakesSides(m) ==
    /\ \A path \in DOMAIN m.by_path : IsSidePolicy(m.by_path[path])
    /\ IsSidePolicy(m.default)

LEMMA LookupTakesSides ==
    ASSUME NEW m, TakesSides(m)
    PROVE  OfValues(m) /\ \A path : IsSidePolicy(Lookup(m, path))
  BY DEF OfValues, TakesSides, IsSidePolicy, IsValuePolicy, Lookup

LEMMA SidePicked ==
    ASSUME NEW c, c.new_from_a # None \/ c.new_from_b # None, NEW p, IsSidePolicy(p), Resolve(p, c) # None
    PROVE  \/ Resolve(p, c) = c.old_value
           \/ c.new_from_a # None /\ Resolve(p, c) = c.new_from_a
           \/ c.new_from_b # None /\ Resolve(p, c) = c.new_from_b
<1>1. CASE \E s : p = OwnedBy(s)
  BY <1>1, ResolvesAs DEF OwnedByMerge, NewA, NewB
<1>2. CASE \E s : p = LastWriteWins(s)
  <2>1. PICK s : p = LastWriteWins(s)
    BY <1>2
  <2>2. Resolve(p, c) = LastWriteWinsMerge(s, c)
    BY <2>1, ResolvesAs
  <2>3. QED
    BY <2>2 DEF LastWriteWinsMerge, BothMoved
<1>3. CASE \E allowed : p = StateMachine(allowed)
  <2>1. PICK allowed : p = StateMachine(allowed)
    BY <1>3
  <2>2. Resolve(p, c) = StateMachineMerge(allowed, c)
    BY <2>1, ResolvesAs
  <2>3. QED
    BY <2>2 DEF StateMachineMerge
<1>4. CASE p = NoPolicy
  BY <1>4, ResolvesAs
<1>5. QED
  BY <1>1, <1>2, <1>3, <1>4 DEF IsSidePolicy

\* Once A holds what was resolved, a policy that takes sides resolves the change to
\* that again, or it is a conflict (LastWriteWins, when the sides tie).
LEMMA DecidesAgain ==
    ASSUME NEW c, NEW z, NEW p, IsSidePolicy(p), NEW x, x = Resolve(p, c), x # None,
           c.new_from_a # None \/ c.new_from_b # None,
           c.new_from_a # None => ~Equal(c.old_value, c.new_from_a),
           c.new_from_b # None => ~Equal(c.old_value, c.new_from_b),
           z.old_value = c.old_value, z.new_from_b = c.new_from_b,
           z.new_from_a = IF Equal(c.old_value, x) THEN None ELSE x
    PROVE  Resolve(p, z) = None \/ Equal(Resolve(p, z), x)
<1>1. Equal(x, x) /\ (Equal(c.old_value, x) => Equal(c.old_value, x)) /\ Equal(c.old_value, c.old_value)
  BY DEF Equal
<1>2. CASE \E s : p = OwnedBy(s)
  <2>1. PICK s : p = OwnedBy(s)
    BY <1>2
  <2>2. x = OwnedByMerge(s, c) /\ Resolve(p, z) = OwnedByMerge(s, z)
    BY <2>1, ResolvesAs
  <2>3. s \in {SideA, SideB}
    BY <2>2 DEF OwnedByMerge
  <2>4. CASE s = SideA
    <3>1. Resolve(p, z) = NewA(z)
      BY <2>2, <2>4 DEF OwnedByMerge, SideA, SideB
    <3>2. Equal(NewA(z), x)
      BY <1>1 DEF NewA
    <3>3. QED
      BY <3>1, <3>2
  <2>5. CASE s = SideB
    <3>1. Resolve(p, z) = NewB(z) /\ x = NewB(c)
      BY <2>2, <2>5 DEF OwnedByMerge, SideA, SideB
    <3>2. NewB(z) = NewB(c)
      BY DEF NewB
    <3>3. QED
      BY <1>1, <3>1, <3>2
  <2>6. QED
    BY <2>3, <2>4, <2>5
<1>3. CASE \E s : p = LastWriteWins(s)
  <2>1. PICK s : p = LastWriteWins(s)
    BY <1>3
  <2>2. x = LastWriteWinsMerge(s, c) /\ Resolve(p, z) = LastWriteWinsMerge(s, z)
    BY <2>1, ResolvesAs
  <2>3. ~Equal(c.old_value, x) /\ z.new_from_a = x
    BY <2>2 DEF LastWriteWinsMerge, BothMoved
  <2>4. CASE ~BothMoved(c) /\ c.new_from_a # None
    <3>1. x = c.new_from_a /\ ~BothMoved(z)
      BY <2>2, <2>3, <2>4 DEF LastWriteWinsMerge, BothMoved
    <3>2. LastWriteWinsMerge(s, z) = x
      BY <2>3, <3>1 DEF LastWriteWinsMerge, BothMoved
    <3>3. QED
      BY <1>1, <2>2, <3>2
  <2>5. CASE ~BothMoved(c) /\ c.new_from_a = None
    <3>1. x = c.new_from_b /\ z.new_from_b = x
      BY <2>2, <2>5 DEF LastWriteWinsMerge, BothMoved
    <3>2. LastWriteWinsMerge(s, z) \in {x, None}
      BY <2>3, <3>1 DEF LastWriteWinsMerge, BothMoved
    <3>3. QED
      BY <1>1, <2>2, <3>2
  <2>6. CASE BothMoved(c)
    <3>1. BothMoved(z)
      BY <2>3, <2>6 DEF BothMoved
    <3>2. CASE s = SideA
      <4>1. LastWriteWinsMerge(s, z) = z.new_from_a
        BY <3>1, <3>2 DEF LastWriteWinsMerge, SideA, SideB
      <4>2. QED
        BY <1>1, <2>2, <2>3, <4>1
    <3>3. CASE s = SideB
      <4>1. x = c.new_from_b /\ LastWriteWinsMerge(s, z) = z.new_from_b
        BY <2>2, <2>6, <3>1, <3>3 DEF LastWriteWinsMerge, SideA, SideB
      <4>2. QED
        BY <1>1, <2>2, <4>1
    <3>4. CASE s # SideA /\ s # SideB
      BY <2>2, <2>6, <3>4 DEF LastWriteWinsMerge
    <3>5. QED
      BY <3>2, <3>3, <3>4
  <2>7. QED
    BY <2>4, <2>5, <2>6
<1>4. CASE \E allowed : p = StateMachine(allowed)
  <2>1. PICK allowed : p = StateMachine(allowed)
    BY <1>4
  <2>2. x = StateMachineMerge(allowed, c) /\ Resolve(p, z) = StateMachineMerge(allowed, z)
    BY <2>1, ResolvesAs
  <2>3. ~Equal(c.old_value, x) /\ z.new_from_a = x
    BY <2>2 DEF StateMachineMerge
  <2>4. StateMachineMerge(allowed, z) \in {x, None}
    BY <2>3 DEF StateMachineMerge
  <2>5. QED
    BY <1>1, <2>2, <2>4
<1>5. CASE p = NoPolicy
  BY <1>5, ResolvesAs
<1>6. QED
  BY <1>2, <1>3, <1>4, <1>5 DEF IsSidePolicy

ResolvedAt(m, o, a, b, q) == [path |-> q, value |-> Resolve(Lookup(m, q), ChangeAt(o, a, b, q))]

EachChangeResolved(m, o, a, b) ==
    \A r : r \in ResolvedOf(m, o, a, b) <=>
              \E q : ChangedAt(o, a, b, q) /\ r = ResolvedAt(m, o, a, b, q)

LEMMA ResolvedIs ==
    ASSUME NEW Json, IsJson(Json), NEW m, NEW o \in Json, NEW a \in Json, NEW b \in Json
    PROVE  EachChangeResolved(m, o, a, b)
<1>1. \A c : c \in ThreeWayDiff(o, a, b) <=> \E q : ChangedAt(o, a, b, q) /\ c = ChangeAt(o, a, b, q)
  BY ChangelogIs
<1> DEFINE Of(c) == [path |-> c.path, value |-> Resolve(Lookup(m, c.path), c)]
<1>2. \A q : Of(ChangeAt(o, a, b, q)) = ResolvedAt(m, o, a, b, q)
  <2> SUFFICES ASSUME NEW q PROVE Of(ChangeAt(o, a, b, q)) = ResolvedAt(m, o, a, b, q)
    OBVIOUS
  <2>1. ChangeAt(o, a, b, q).path = q
    BY DEF ChangeAt
  <2>2. QED
    BY <2>1 DEF ResolvedAt
<1>3. ResolvedOf(m, o, a, b) = {Of(c) : c \in ThreeWayDiff(o, a, b)}
  BY DEF ResolvedOf
<1> HIDE DEF Of
<1>4. QED
  BY <1>1, <1>2, <1>3 DEF EachChangeResolved

\* The resolution of a changelog without changes inside changes writes what a side
\* made of each change.
LEMMA ResolutionPicks ==
    ASSUME NEW Json, IsJson(Json), NEW m, TakesSides(m),
           NEW o \in Objects(Json), NEW a \in Objects(Json), NEW b \in Objects(Json),
           Apart(o, a, b), Plan(m, o, a, b) # None
    PROVE  /\ IsResolution(Json, ResolvedOf(m, o, a, b))
           /\ SidesPicked(o, a, b, ResolvedOf(m, o, a, b))
<1> DEFINE resolved == ResolvedOf(m, o, a, b)
<1>1. o \in Json /\ a \in Json /\ b \in Json
  BY DEF Objects
<1>2. \A r : r \in resolved <=> \E q : ChangedAt(o, a, b, q) /\ r = ResolvedAt(m, o, a, b, q)
  <2>1. EachChangeResolved(m, o, a, b)
    BY <1>1, ResolvedIs
  <2>2. QED
    BY <2>1 DEF EachChangeResolved
<1>3. IsWriting(Json, resolved)
  BY LookupTakesSides, PlanWrites
<1>4. \A r \in resolved : r.value # None
  BY PlanIs
<1> HIDE DEF resolved
<1>5. \A q : /\ ResolvedAt(m, o, a, b, q).path = q
             /\ ResolvedAt(m, o, a, b, q).value = Resolve(Lookup(m, q), ChangeAt(o, a, b, q))
  BY DEF ResolvedAt
<1>6. ASSUME NEW r \in resolved, NEW s \in resolved, Within(r.path, s.path) PROVE r = s
  <2>1. PICK p : ChangedAt(o, a, b, p) /\ r = ResolvedAt(m, o, a, b, p)
    BY <1>2
  <2>2. PICK q : ChangedAt(o, a, b, q) /\ s = ResolvedAt(m, o, a, b, q)
    BY <1>2
  <2>3. Within(p, q)
    BY <1>5, <1>6, <2>1, <2>2
  <2>4. p = q
    BY <2>1, <2>2, <2>3 DEF Apart
  <2>5. QED
    BY <2>1, <2>2, <2>4
<1>7. IsResolution(Json, resolved)
  BY <1>3, <1>6 DEF IsResolution, IsWriting
<1>8. ASSUME NEW q, ChangedAt(o, a, b, q) PROVE \E r \in resolved : r.path = q
  BY <1>2, <1>5, <1>8
<1>9. ASSUME NEW r \in resolved
      PROVE  /\ ChangedAt(o, a, b, r.path)
             /\ \/ r.value = At(o, r.path)
                \/ Differs(o, a, r.path) /\ r.value = At(a, r.path)
                \/ Differs(o, b, r.path) /\ r.value = At(b, r.path)
  <2>1. PICK q : ChangedAt(o, a, b, q) /\ r = ResolvedAt(m, o, a, b, q)
    BY <1>2
  <2> DEFINE c == ChangeAt(o, a, b, q)
             p == Lookup(m, q)
  <2>2. r.path = q /\ r.value = Resolve(p, c) /\ Resolve(p, c) # None
    BY <1>4, <1>5, <2>1
  <2>3. /\ c.old_value = At(o, q)
        /\ c.new_from_a = Moved1(o, a, q) /\ c.new_from_b = Moved1(o, b, q)
    BY DEF ChangeAt
  <2>4. c \in ThreeWayDiff(o, a, b)
    BY <1>1, <2>1, ChangelogIs
  <2>5. c.new_from_a # None \/ c.new_from_b # None
    BY <2>4, ChangesAre DEF IsChange
  <2>6. IsSidePolicy(p)
    BY LookupTakesSides
  <2> HIDE DEF c, p
  <2>7. \/ Resolve(p, c) = c.old_value
        \/ c.new_from_a # None /\ Resolve(p, c) = c.new_from_a
        \/ c.new_from_b # None /\ Resolve(p, c) = c.new_from_b
    BY <2>2, <2>5, <2>6, SidePicked
  <2>8. QED
    BY <2>1, <2>2, <2>3, <2>7 DEF Moved1
<1>10. SidesPicked(o, a, b, resolved)
  BY <1>8, <1>9 DEF SidesPicked
<1>11. QED
  BY <1>7, <1>10 DEF resolved

\* Planned again after it was pushed to A, a plan differs from the first one nowhere.
LEMMA PlannedAgain ==
    ASSUME NEW Json, IsJson(Json), NEW m, TakesSides(m),
           NEW o \in Objects(Json), NEW a \in Objects(Json), NEW b \in Objects(Json),
           Apart(o, a, b), NEW plan, plan = Plan(m, o, a, b), plan # None,
           NEW u, u = Upserted(a, plan), Plan(m, o, u, b) # None
    PROVE  SameJson(Plan(m, o, u, b), plan)
<1> DEFINE first == ResolvedOf(m, o, a, b)
           again == ResolvedOf(m, o, u, b)
<1>1. /\ o \in Json /\ a \in Json /\ b \in Json
      /\ IsObject(o) /\ IsObject(a) /\ IsObject(b)
  BY DEF Objects
<1>2. plan \in Objects(Json)
  BY LookupTakesSides, PlanIsJson
<1>3. u \in Objects(Json)
  <2>1. Upserted(a, plan) \in Json
    BY <1>1, <1>2 DEF IsJson, Objects
  <2>2. IsObject(Upserted(a, plan))
    BY <1>1, <1>2, UpsertedChild DEF Objects
  <2>3. QED
    BY <2>1, <2>2 DEF Objects
<1>4. plan = ApplyResolution(o, first) /\ \A r \in first : r.value # None
  BY PlanIs
<1>5. Plan(m, o, u, b) = ApplyResolution(o, again) /\ \A r \in again : r.value # None
  BY PlanIs
<1>6. IsResolution(Json, first) /\ SidesPicked(o, a, b, first)
  BY ResolutionPicks
<1>7. /\ \A r : r \in first <=> \E q : ChangedAt(o, a, b, q) /\ r = ResolvedAt(m, o, a, b, q)
      /\ \A r : r \in again <=> \E q : ChangedAt(o, u, b, q) /\ r = ResolvedAt(m, o, u, b, q)
  <2>1. u \in Json
    BY <1>3 DEF Objects
  <2>2. EachChangeResolved(m, o, a, b) /\ EachChangeResolved(m, o, u, b)
    BY <1>1, <2>1, ResolvedIs
  <2>3. QED
    BY <2>2 DEF EachChangeResolved
<1> HIDE DEF first, again
<1>8. /\ \A r \in first : At(u, r.path) = r.value
      /\ \A r \in first : ~Equal(At(o, r.path), r.value) => Differs(o, u, r.path)
      /\ \A p : Differs(o, u, p) => \E r \in first : r.path = p /\ ~Equal(At(o, p), r.value)
  <2>1. u = Upserted(a, ApplyResolution(o, first)) /\ IsObject(ApplyResolution(o, first))
    BY <1>2, <1>4 DEF Objects
  <2>2. QED
    BY <1>1, <1>6, <2>1, PushedDiffers
<1>9. \A q : ChangedAt(o, u, b, q) => ChangedAt(o, a, b, q)
  BY <1>6, <1>8 DEF ChangedAt, SidesPicked
<1>10. Apart(o, u, b)
  BY <1>9 DEF Apart
<1>11. IsResolution(Json, again)
  BY <1>3, <1>10, ResolutionPicks DEF again
<1>12. \A m1, o1, a1, b1, q : /\ ResolvedAt(m1, o1, a1, b1, q).path = q
                             /\ ResolvedAt(m1, o1, a1, b1, q).value
                                  = Resolve(Lookup(m1, q), ChangeAt(o1, a1, b1, q))
  BY DEF ResolvedAt
<1>13. ASSUME NEW r \in again PROVE \E s \in first : s.path = r.path /\ Equal(r.value, s.value)
  <2>1. PICK q : ChangedAt(o, u, b, q) /\ r = ResolvedAt(m, o, u, b, q)
    BY <1>7
  <2>2. ChangedAt(o, a, b, q)
    BY <1>9, <2>1
  <2> DEFINE s == ResolvedAt(m, o, a, b, q)
             c == ChangeAt(o, a, b, q)
             z == ChangeAt(o, u, b, q)
             p == Lookup(m, q)
  <2>3. s \in first
    BY <1>7, <2>2
  <2>4. s.path = q /\ r.path = q /\ s.value = Resolve(p, c) /\ r.value = Resolve(p, z)
    BY <1>12, <2>1
  <2>5. /\ c.old_value = At(o, q)
        /\ c.new_from_a = Moved1(o, a, q) /\ c.new_from_b = Moved1(o, b, q)
        /\ z.old_value = At(o, q)
        /\ z.new_from_a = Moved1(o, u, q) /\ z.new_from_b = Moved1(o, b, q)
    BY DEF ChangeAt
  <2>6. c \in ThreeWayDiff(o, a, b)
    BY <1>1, <2>2, ChangelogIs
  <2>7. c.new_from_a # None \/ c.new_from_b # None
    BY <2>6, ChangesAre DEF IsChange
  <2>8. IsSidePolicy(p)
    BY LookupTakesSides
  <2>9. s.value # None /\ r.value # None
    BY <1>4, <1>5, <2>3
  <2> HIDE DEF c, z, p, s
  <2>10. z.new_from_a = IF Equal(c.old_value, s.value) THEN None ELSE s.value
    <3>1. CASE Equal(c.old_value, s.value)
      <4>1. ~Differs(o, u, q)
        <5> SUFFICES ASSUME Differs(o, u, q) PROVE FALSE
          OBVIOUS
        <5>1. PICK t \in first : t.path = q /\ ~Equal(At(o, q), t.value)
          BY <1>8
        <5>2. q \in Seq(STRING)
          BY DEF Differs, Reached
        <5>3. t = s
          BY <1>6, <2>3, <2>4, <5>1, <5>2, WithinItself DEF IsResolution
        <5>4. QED
          BY <2>5, <3>1, <5>1, <5>3
      <4>2. QED
        BY <2>5, <3>1, <4>1 DEF Moved1
    <3>2. CASE ~Equal(c.old_value, s.value)
      <4>1. Differs(o, u, q) /\ At(u, q) = s.value
        BY <1>8, <2>3, <2>4, <2>5, <3>2
      <4>2. QED
        BY <2>5, <3>2, <4>1 DEF Moved1
    <3>3. QED
      BY <3>1, <3>2
  <2>11. /\ c.new_from_a # None => ~Equal(c.old_value, c.new_from_a)
         /\ c.new_from_b # None => ~Equal(c.old_value, c.new_from_b)
    BY <2>5 DEF Moved1, Differs, At
  <2>12. Resolve(p, z) = None \/ Equal(Resolve(p, z), s.value)
    <3>1. s.value = Resolve(p, c) /\ z.old_value = c.old_value /\ z.new_from_b = c.new_from_b
      BY <2>4, <2>5
    <3>2. QED
      BY <2>7, <2>8, <2>9, <2>10, <2>11, <3>1, DecidesAgain
  <2>13. QED
    BY <2>3, <2>4, <2>9, <2>12
<1>14. ASSUME NEW s \in first
       PROVE  (\E r \in again : r.path = s.path) \/ Equal(At(o, s.path), s.value)
  <2>1. SUFFICES ASSUME ~Equal(At(o, s.path), s.value) PROVE \E r \in again : r.path = s.path
    OBVIOUS
  <2>2. ChangedAt(o, u, b, s.path)
    BY <1>8, <2>1 DEF ChangedAt
  <2>3. QED
    BY <1>7, <1>12, <2>2
<1>15. ASSUME NEW s \in first, NEW q \in Seq(STRING), Within(q, s.path), Len(q) < Len(s.path)
       PROVE  IsObject(At(o, q))
  <2>1. ChangedAt(o, a, b, s.path)
    BY <1>6 DEF SidesPicked
  <2>2. QED
    BY <1>1, <1>15, <2>1, ChangedIs
<1>16. SameJson(ApplyResolution(o, again), ApplyResolution(o, first))
  BY <1>1, <1>6, <1>11, <1>13, <1>14, <1>15, OverlaysAgree
<1>17. QED
  BY <1>4, <1>5, <1>16

\* A cycle cut short after its push to A, planned again, comes to what it pushed.
LEMMA RetryStep ==
    ASSUME NEW Json, HoldJson(Json), IInv(Json),
           SyncCutShort(Planned), TakesSides(map), ~Overlaps(Moved)
    PROVE  RetryNeverForks'
<1> DEFINE a == doc[SideA]
           b == doc[SideB]
           u == doc'[SideA]
<1>1. /\ Planned # None /\ map' = map /\ baseline' = baseline /\ pushing' = Planned
      /\ doc' = [doc EXCEPT ![SideA] = Upserted(@, Planned)]
  BY DEF SyncCutShort
<1>2. DocsAreJson(Json) /\ IsJson(Json)
  BY LookupTakesSides DEF IInv, HoldJson
<1>3. u = Upserted(a, Planned) /\ doc'[SideB] = b
  BY <1>1 DEF IInv, Sides, SideA, SideB
<1>4. Apart(baseline, a, b)
  <2>1. baseline \in Json /\ a \in Json /\ b \in Json
    BY <1>2 DEF DocsAreJson, Objects
  <2>2. ASSUME NEW p, NEW q, ChangedAt(baseline, a, b, p), ChangedAt(baseline, a, b, q), Within(p, q)
        PROVE  p = q
    BY <1>2, <2>1, <2>2, ChangesApart DEF Moved
  <2>3. QED
    BY <2>2 DEF Apart
<1>5. Planned' = Plan(map, baseline, u, b)
  BY <1>1, <1>3 DEF Planned
<1>6. ASSUME Planned' # None PROVE SameJson(Planned', Planned)
  <2>1. baseline \in Objects(Json) /\ a \in Objects(Json) /\ b \in Objects(Json)
    BY <1>2 DEF DocsAreJson
  <2>2. Planned = Plan(map, baseline, a, b) /\ Plan(map, baseline, u, b) # None
    BY <1>5, <1>6 DEF Planned
  <2> HIDE DEF a, b, u
  <2>3. SameJson(Plan(map, baseline, u, b), Planned)
    BY <1>1, <1>2, <1>3, <1>4, <2>1, <2>2, PlannedAgain
  <2>4. QED
    BY <1>5, <2>3
<1>7. QED
  BY <1>1, <1>6 DEF RetryNeverForks

\* RetryNeverForks, for documents of any depth: right after a cycle was cut short
\* between its pushes, under policies that take what a side holds and with no
\* changed path inside another one, the next cycle comes to the document that was
\* being pushed, or asks (orchestrator.rs, "Every earlier step retries
\* idempotently").  It is so until a side is edited or a cycle commits: nothing
\* else changes what is planned.
THEOREM RetryComesToTheSame ==
    ASSUME NEW Json, HoldJson(Json)
    PROVE  Spec => [][SyncCutShort(Planned) /\ TakesSides(map) /\ ~Overlaps(Moved)
                        => RetryNeverForks']_vars
<1>1. IInv(Json) /\ [Next]_vars
         => [SyncCutShort(Planned) /\ TakesSides(map) /\ ~Overlaps(Moved) => RetryNeverForks']_vars
  BY RetryStep
<1>2. QED
  BY <1>1, JsonStaysJson, PTL DEF Spec

-----------------------------------------------------------------------------
(* Flat documents, whose changed paths are their fields.                   *)

IsFlat(d) == IsObject(d) /\ \A key : ~IsObject(Child(d, key))

FlatDocs(Json) == {d \in Json : IsFlat(d)}

LEMMA OneKey ==
    ASSUME NEW S, NEW f \in S
    PROVE  <<f>> \in Seq(S) /\ Len(<<f>>) = 1 /\ <<f>>[1] = f
OBVIOUS

\* What a path of one key leads to.
LEMMA AtOneKey ==
    ASSUME NEW v, NEW q \in Seq(STRING), Len(q) = 1
    PROVE  At(v, q) = Child(v, q[1])
<1>1. 1 \in 1..Len(q) /\ 1 - 1 = 0
  OBVIOUS
<1>2. Node(v, q, 0) = v /\ Node(v, q, 1) = Child(Node(v, q, 1 - 1), q[1])
  BY <1>1, NodeSteps
<1>3. QED
  BY <1>1, <1>2 DEF At

LEMMA AtField ==
    ASSUME NEW v, NEW f \in STRING
    PROVE  <<f>> \in Seq(STRING) /\ Len(<<f>>) = 1 /\ At(v, <<f>>) = Child(v, f)
<1> DEFINE q == <<f>>
<1>1. q \in Seq(STRING)
  BY OneKey, Zenon
<1>2. Len(q) = 1 /\ q[1] = f
  OBVIOUS
<1> HIDE DEF q
<1>3. At(v, q) = Child(v, q[1])
  BY <1>1, <1>2, AtOneKey
<1>4. q \in Seq(STRING) /\ Len(q) = 1 /\ At(v, q) = Child(v, f)
  BY <1>1, <1>2, <1>3
<1>5. QED
  BY <1>4 DEF q

\* Two flat documents differ at fields.
LEMMA FlatDiffers ==
    ASSUME NEW o, NEW d, IsFlat(o), IsFlat(d), NEW q, Differs(o, d, q)
    PROVE  \E f \in STRING : q = <<f>>
<1>1. q \in Seq(STRING) /\ \A i \in 0..(Len(q) - 1) : Enters(o, d, q, i)
  BY DEF Differs, Reached
<1>2. Node(o, q, 0) = o /\ Node(d, q, 0) = d
  BY <1>1, NodeSteps
<1>3. Len(q) # 0
  <2> SUFFICES ASSUME Len(q) = 0 PROVE FALSE
    OBVIOUS
  <2>1. QED
    BY <1>2 DEF Differs, IsFlat
<1>4. ~(Len(q) > 1)
  <2> SUFFICES ASSUME Len(q) > 1 PROVE FALSE
    OBVIOUS
  <2>1. 1 \in 0..(Len(q) - 1) /\ 1 \in 1..Len(q) /\ 1 - 1 = 0
    BY <1>1
  <2>2. Node(o, q, 1) = Child(Node(o, q, 0), q[1])
    BY <1>1, <2>1, NodeSteps
  <2>3. IsObject(Node(o, q, 1))
    BY <1>1, <2>1 DEF Enters
  <2>4. QED
    BY <1>2, <2>2, <2>3 DEF IsFlat
<1>5. Len(q) = 1
  <2>1. Len(q) \in Nat
    BY <1>1
  <2>2. ASSUME NEW n \in Nat, n # 0, ~(n > 1) PROVE n = 1
    BY <2>2
  <2>3. QED
    BY <1>3, <1>4, <2>1, <2>2, Zenon
<1>6. q[1] \in STRING
  BY <1>1, <1>5, ElementOfSeq
<1>7. q = <<q[1]>>
  BY <1>1, <1>5
<1>8. QED
  BY <1>6, <1>7

\* At the other fields they are equal.
LEMMA FlatEqual ==
    ASSUME NEW o, NEW d, IsFlat(o), IsFlat(d), MaxDepth # 0, NEW f \in STRING, ~Differs(o, d, <<f>>)
    PROVE  Equal(Child(o, f), Child(d, f))
<1>1. /\ <<f>> \in Seq(STRING) /\ Len(<<f>>) = 1
      /\ At(o, <<f>>) = Child(o, f) /\ At(d, <<f>>) = Child(d, f)
  BY AtField
<1>2. Len(<<f>>) <= MaxDepth
  BY <1>1, MaxDepthAssumption
<1>3. \/ Equal(At(o, <<f>>), At(d, <<f>>))
      \/ DiffersWithin(o, d, <<f>>)
      \/ IsObject(At(o, <<f>>)) /\ IsObject(At(d, <<f>>))
  BY <1>1, <1>2, WhereTheyPart
<1>4. ~DiffersWithin(o, d, <<f>>)
  <2> SUFFICES ASSUME NEW p, Differs(o, d, p), Within(p, <<f>>) PROVE FALSE
    BY DEF DiffersWithin
  <2>1. PICK g \in STRING : p = <<g>>
    <3>1. Differs(o, d, p)
      OBVIOUS
    <3>2. QED
      BY <3>1, FlatDiffers, Zenon
  <2>2. p[1] = g /\ 1 \in 1..Len(p)
    BY <2>1
  <2>3. p[1] = <<f>>[1]
    BY <2>2, Zenon DEF Within
  <2>4. p[1] = f
    BY <2>3
  <2>5. QED
    BY <2>1, <2>2, <2>4
<1>5. QED
  BY <1>1, <1>3, <1>4 DEF IsFlat

\* A value for each changed field, and for nothing else.
ResolvesFields(m, o, a, b) ==
    \A r : r \in ResolvedOf(m, o, a, b) <=>
              \E f \in STRING : ChangedAt(o, a, b, <<f>>) /\ r = ResolvedAt(m, o, a, b, <<f>>)

\* What a cycle of flat documents writes.
LEMMA FlatResolution ==
    ASSUME NEW Json, IsJson(Json), NEW m, OfValues(m),
           NEW o \in FlatDocs(Json), NEW a \in FlatDocs(Json), NEW b \in FlatDocs(Json),
           Plan(m, o, a, b) # None
    PROVE  IsResolution(Json, ResolvedOf(m, o, a, b)) /\ ResolvesFields(m, o, a, b)
<1>1. /\ o \in Json /\ a \in Json /\ b \in Json /\ IsFlat(o) /\ IsFlat(a) /\ IsFlat(b)
      /\ o \in Objects(Json) /\ a \in Objects(Json) /\ b \in Objects(Json)
  BY DEF FlatDocs, IsFlat, Objects
<1>2. EachChangeResolved(m, o, a, b)
  BY <1>1, ResolvedIs
<1>3. \A q : ChangedAt(o, a, b, q) => \E f \in STRING : q = <<f>>
  BY <1>1, FlatDiffers DEF ChangedAt
<1>4. \A r : r \in ResolvedOf(m, o, a, b) <=>
         \E f \in STRING : ChangedAt(o, a, b, <<f>>) /\ r = ResolvedAt(m, o, a, b, <<f>>)
  BY <1>2, <1>3 DEF EachChangeResolved
<1>5. IsWriting(Json, ResolvedOf(m, o, a, b))
  BY <1>1, PlanWrites
<1>6. ASSUME NEW r \in ResolvedOf(m, o, a, b), NEW s \in ResolvedOf(m, o, a, b), Within(r.path, s.path)
      PROVE  r = s
  <2>1. PICK f \in STRING : r = ResolvedAt(m, o, a, b, <<f>>)
    BY <1>4
  <2>2. PICK g \in STRING : s = ResolvedAt(m, o, a, b, <<g>>)
    BY <1>4
  <2>3. r.path = <<f>> /\ s.path = <<g>>
    BY <2>1, <2>2 DEF ResolvedAt
  <2>4. f = g
    <3>1. r.path[1] = f /\ s.path[1] = g /\ 1 \in 1..Len(r.path)
      BY <2>3
    <3>2. r.path[1] = s.path[1]
      BY <1>6, <3>1, Zenon DEF Within
    <3>3. QED
      BY <3>1, <3>2
  <2>5. QED
    BY <2>1, <2>2, <2>4
<1>7. QED
  BY <1>4, <1>5, <1>6 DEF IsResolution, IsWriting, ResolvesFields

LEMMA EqualIsSame ==
    ASSUME NEW Json, IsJson(Json), NEW x \in Json, NEW y \in Json, Equal(x, y)
    PROVE  SameJson(x, y)
<1>1. ASSUME NEW q, Differs(x, y, q) PROVE FALSE
  <2>1. q \in Seq(STRING) /\ \A i \in 0..(Len(q) - 1) : Enters(x, y, q, i)
    BY <1>1 DEF Differs, Reached
  <2>2. Node(x, q, 0) = x /\ Node(y, q, 0) = y
    BY <2>1, NodeSteps
  <2>3. CASE Len(q) = 0
    BY <1>1, <2>2, <2>3 DEF Differs
  <2>4. CASE Len(q) # 0
    <3>1. 0 \in 0..(Len(q) - 1)
      BY <2>1, <2>4
    <3>2. Enters(x, y, q, 0)
      BY <2>1, <3>1
    <3>3. QED
      BY <2>2, <3>2 DEF Enters
  <2>5. QED
    BY <2>3, <2>4
<1>2. \A c : c \in CompareJson(x, y) <=> \E q : Differs(x, y, q) /\ c = PairAt(x, y, q)
  BY CompareIs
<1>3. QED
  BY <1>1, <1>2 DEF SameJson

\* What a field's policy makes of its change, or what the ancestor has there.
ResolvedField(m, o, a, b, f) ==
    IF ChangedAt(o, a, b, <<f>>) THEN Resolve(Lookup(m, <<f>>), ChangeAt(o, a, b, <<f>>))
    ELSE Child(o, f)

\* What a cycle of flat documents comes to, field by field.
LEMMA FlatPlan ==
    ASSUME NEW Json, IsJson(Json), NEW m, OfValues(m),
           NEW o \in FlatDocs(Json), NEW a \in FlatDocs(Json), NEW b \in FlatDocs(Json),
           Plan(m, o, a, b) # None, NEW f \in STRING
    PROVE  Child(Plan(m, o, a, b), f) = ResolvedField(m, o, a, b, f)
<1> DEFINE resolved == ResolvedOf(m, o, a, b)
           plan == Plan(m, o, a, b)
<1>1. IsResolution(Json, resolved) /\ ResolvesFields(m, o, a, b)
  BY FlatResolution
<1>2. \A r : r \in resolved <=>
         \E g \in STRING : ChangedAt(o, a, b, <<g>>) /\ r = ResolvedAt(m, o, a, b, <<g>>)
  BY <1>1 DEF ResolvesFields
<1>3. plan = ApplyResolution(o, resolved)
  BY PlanIs
<1>4. o \in Json
  BY DEF FlatDocs
<1> HIDE DEF resolved, plan
<1>5. Overlaid(o, plan, resolved)
  BY <1>1, <1>3, <1>4, OverlayHolds
<1>6. /\ <<f>> \in Seq(STRING)
      /\ At(plan, <<f>>) = Child(plan, f) /\ At(o, <<f>>) = Child(o, f)
  BY AtField
<1>7. CASE ChangedAt(o, a, b, <<f>>)
  <2> DEFINE r == ResolvedAt(m, o, a, b, <<f>>)
  <2>1. r \in resolved
    BY <1>2, <1>7
  <2>2. r.path = <<f>> /\ r.value = Resolve(Lookup(m, <<f>>), ChangeAt(o, a, b, <<f>>))
    BY DEF ResolvedAt
  <2> HIDE DEF r
  <2>3. At(plan, r.path) = r.value
    BY <1>5, <2>1 DEF Overlaid
  <2>4. QED
    BY <1>6, <1>7, <2>2, <2>3 DEF plan, ResolvedField
<1>8. CASE ~ChangedAt(o, a, b, <<f>>)
  <2>1. ASSUME NEW r \in resolved PROVE ~Within(r.path, <<f>>) /\ ~Within(<<f>>, r.path)
    <3>1. PICK g \in STRING : ChangedAt(o, a, b, <<g>>) /\ r = ResolvedAt(m, o, a, b, <<g>>)
      BY <1>2
    <3>2. r.path = <<g>>
      BY <3>1 DEF ResolvedAt
    <3>3. g # f
      BY <1>8, <3>1
    <3>4. /\ 1 \in 1..Len(r.path) /\ 1 \in 1..Len(<<f>>)
          /\ r.path[1] = g /\ <<f>>[1] = f
      BY <3>2
    <3>5. QED
      BY <3>3, <3>4, Zenon DEF Within
  <2>2. At(plan, <<f>>) = At(o, <<f>>)
    BY <1>5, <1>6, <2>1, Zenon DEF Overlaid
  <2>3. QED
    BY <1>6, <1>8, <2>2 DEF plan, ResolvedField
<1>9. QED
  BY <1>7, <1>8

\* Of flat documents, a field that its policy gives to side A keeps the value it has
\* there when A is pushed what the cycle came to (OwnedBy::merge, policy/owned_by.rs;
\* apply_resolution, orchestrator.rs).
THEOREM FlatOwnerKeepsFields ==
    ASSUME NEW Json, IsJson(Json), MaxDepth # 0, NEW m, OfValues(m),
           NEW o \in FlatDocs(Json), NEW a \in FlatDocs(Json), NEW b \in FlatDocs(Json),
           Plan(m, o, a, b) # None, NEW f \in STRING, Lookup(m, <<f>>) = OwnedBy(SideA)
    PROVE  SameJson(Child(a, f), Child(Pushed(a, Plan(m, o, a, b)), f))
<1> DEFINE plan == Plan(m, o, a, b)
<1>1. /\ o \in Json /\ a \in Json /\ b \in Json /\ IsFlat(o) /\ IsFlat(a)
      /\ o \in Objects(Json) /\ a \in Objects(Json) /\ b \in Objects(Json)
  BY DEF FlatDocs, IsFlat, Objects
<1>2. plan \in Json /\ IsObject(plan)
  <2>1. plan \in Objects(Json)
    BY <1>1, PlanIsJson
  <2>2. QED
    BY <2>1 DEF Objects
<1>3. Child(plan, f) = ResolvedField(m, o, a, b, f)
  BY FlatPlan
<1>4. At(a, <<f>>) = Child(a, f) /\ At(o, <<f>>) = Child(o, f)
  BY AtField
<1>5. ~Differs(o, a, <<f>>) => Equal(Child(o, f), Child(a, f))
  BY <1>1, FlatEqual
<1> HIDE DEF plan
<1>6. Equal(Child(plan, f), Child(a, f))
  <2>1. CASE ChangedAt(o, a, b, <<f>>)
    <3>1. Child(plan, f) = Owned(o, a, <<f>>)
      <4>1. \A q : ChangedAt(o, a, b, q) => OwnedByMerge(SideA, ChangeAt(o, a, b, q)) = Owned(o, a, q)
        BY <1>1, OwnerTakes
      <4>2. Resolve(OwnedBy(SideA), ChangeAt(o, a, b, <<f>>)) = Owned(o, a, <<f>>)
        BY <2>1, <4>1, ResolvesAs, Zenon
      <4>3. QED
        BY <1>3, <2>1, <4>2 DEF ResolvedField
    <3>2. CASE Differs(o, a, <<f>>)
      BY <1>4, <3>1, <3>2 DEF Owned, Equal
    <3>3. CASE ~Differs(o, a, <<f>>)
      BY <1>4, <1>5, <3>1, <3>3 DEF Owned
    <3>4. QED
      BY <3>2, <3>3
  <2>2. CASE ~ChangedAt(o, a, b, <<f>>)
    BY <1>3, <1>5, <2>2 DEF ChangedAt, ResolvedField
  <2>3. QED
    BY <2>1, <2>2
<1>7. \/ Child(Pushed(a, plan), f) = Child(a, f)
      \/ Child(Pushed(a, plan), f) = Child(plan, f)
  <2>1. CASE plan = a
    BY <2>1 DEF Pushed
  <2>2. CASE plan # a
    <3>1. Pushed(a, plan) = Upserted(a, plan)
      BY <2>2 DEF Pushed
    <3>2. IsObject(a)
      BY <1>1 DEF IsFlat
    <3>3. Child(Upserted(a, plan), f) = IF f \in DOMAIN plan[2] THEN Child(plan, f) ELSE Child(a, f)
      BY <1>2, <3>2, UpsertedChild, Zenon
    <3>4. QED
      BY <3>1, <3>3
  <2>3. QED
    BY <2>1, <2>2
<1>8. Child(a, f) \in Json /\ Child(plan, f) \in Json
  BY <1>1, <1>2 DEF IsJson, Child
<1>9. Equal(Child(a, f), Child(Pushed(a, plan), f)) /\ Child(Pushed(a, plan), f) \in Json
  BY <1>6, <1>7, <1>8 DEF Equal, NumericallyEqual
<1>10. QED
  BY <1>8, <1>9, EqualIsSame DEF plan

\* A value that is no object resolves to one only if a side made it one.
LEMMA ResolvesToNoObject ==
    ASSUME NEW Json, IsJson(Json), NEW c, IsChange(Json, c), NEW p, IsValuePolicy(p),
           ~IsObject(c.old_value), c.new_from_a # None => ~IsObject(c.new_from_a),
           c.new_from_b # None => ~IsObject(c.new_from_b), Resolve(p, c) # None
    PROVE  ~IsObject(Resolve(p, c))
<1>1. ~IsObject(NewA(c)) /\ ~IsObject(NewB(c))
  BY DEF NewA, NewB
<1>2. CASE \E s : p = OwnedBy(s)
  <2>1. PICK s : p = OwnedBy(s)
    BY <1>2
  <2>2. Resolve(p, c) = OwnedByMerge(s, c)
    BY <2>1, ResolvesAs
  <2>3. QED
    BY <1>1, <2>2 DEF OwnedByMerge
<1>3. CASE \E s : p = LastWriteWins(s)
  <2>1. PICK s : p = LastWriteWins(s)
    BY <1>3
  <2>2. Resolve(p, c) = LastWriteWinsMerge(s, c)
    BY <2>1, ResolvesAs
  <2>3. QED
    BY <2>2 DEF LastWriteWinsMerge, BothMoved
<1>4. CASE \E allowed : p = StateMachine(allowed)
  <2>1. PICK allowed : p = StateMachine(allowed)
    BY <1>4
  <2>2. Resolve(p, c) = StateMachineMerge(allowed, c)
    BY <2>1, ResolvesAs
  <2>3. QED
    BY <2>2 DEF StateMachineMerge
<1>5. CASE p = Additive
  <2>1. Resolve(p, c) = AdditiveMerge(c)
    BY <1>5, ResolvesAs
  <2>2. Resolve(p, c) = FloatNumber(NewA(c)[2] + NewB(c)[2] - c.old_value[2])
    BY <2>1 DEF AdditiveMerge
  <2>3. \A n : ~IsObject(FloatNumber(n))
    BY DEF FloatNumber, IsObject
  <2>4. QED
    BY <2>2, <2>3
<1>6. CASE p = NoPolicy
  BY <1>6, ResolvesAs
<1>7. QED
  BY <1>2, <1>3, <1>4, <1>5, <1>6 DEF IsValuePolicy

\* Flat documents merge to a flat document, and stay flat when they are pushed to
\* (apply_resolution of orchestrator.rs, upsert of the memory adapter).  This and
\* FlatOwnerKeepsFields are what OneWayOwns of SyncEngineProofs asks of the diff and
\* the merge.
THEOREM FlatStaysFlat ==
    ASSUME NEW Json, IsJson(Json), NEW m, OfValues(m),
           NEW o \in FlatDocs(Json), NEW a \in FlatDocs(Json), NEW b \in FlatDocs(Json),
           Plan(m, o, a, b) # None
    PROVE  /\ Plan(m, o, a, b) \in FlatDocs(Json)
           /\ Pushed(a, Plan(m, o, a, b)) \in FlatDocs(Json)
           /\ Pushed(b, Plan(m, o, a, b)) \in FlatDocs(Json)
<1> DEFINE plan == Plan(m, o, a, b)
<1>1. /\ o \in Json /\ a \in Json /\ b \in Json /\ IsFlat(o) /\ IsFlat(a) /\ IsFlat(b)
      /\ o \in Objects(Json) /\ a \in Objects(Json) /\ b \in Objects(Json)
  BY DEF FlatDocs, IsFlat, Objects
<1>2. plan \in Json /\ IsObject(plan)
  <2>1. plan \in Objects(Json)
    BY <1>1, PlanIsJson
  <2>2. QED
    BY <2>1 DEF Objects
<1>3. ASSUME NEW f \in STRING PROVE ~IsObject(Child(plan, f))
  <2>1. Child(plan, f) = ResolvedField(m, o, a, b, f)
    BY FlatPlan
  <2>2. CASE ~ChangedAt(o, a, b, <<f>>)
    BY <1>1, <2>1, <2>2 DEF ResolvedField, IsFlat
  <2>3. CASE ChangedAt(o, a, b, <<f>>)
    <3> DEFINE c == ChangeAt(o, a, b, <<f>>)
    <3>1. c.path = <<f>>
      BY DEF ChangeAt
    <3>2. c \in ThreeWayDiff(o, a, b)
      <4>1. \A e : e \in ThreeWayDiff(o, a, b) <=> \E q : ChangedAt(o, a, b, q) /\ e = ChangeAt(o, a, b, q)
        BY <1>1, ChangelogIs
      <4>2. QED
        BY <2>3, <4>1
    <3>3. At(o, <<f>>) = Child(o, f) /\ At(a, <<f>>) = Child(a, f) /\ At(b, <<f>>) = Child(b, f)
      BY AtField
    <3>4. /\ c.old_value = Child(o, f)
          /\ c.new_from_a # None => c.new_from_a = Child(a, f)
          /\ c.new_from_b # None => c.new_from_b = Child(b, f)
      BY <3>3 DEF ChangeAt, Moved1
    <3> HIDE DEF c
    <3>5. IsChange(Json, c)
      BY <1>1, <3>2, ChangesAre
    <3>6. ~IsObject(Child(o, f)) /\ ~IsObject(Child(a, f)) /\ ~IsObject(Child(b, f))
      BY <1>1 DEF IsFlat
    <3>7. IsValuePolicy(Lookup(m, <<f>>))
      BY LookupOfValues
    <3>8. Child(plan, f) = Resolve(Lookup(m, <<f>>), c)
      BY <2>1, <2>3 DEF ResolvedField, c
    <3>9. Resolve(Lookup(m, <<f>>), c) # None
      <4>1. \A r \in ResolvedOf(m, o, a, b) : r.value # None
        BY PlanIs
      <4> DEFINE r == [path |-> c.path, value |-> Resolve(Lookup(m, c.path), c)]
      <4>2. r \in ResolvedOf(m, o, a, b)
        BY <3>2 DEF ResolvedOf
      <4>3. r.value = Resolve(Lookup(m, <<f>>), c)
        BY <3>1
      <4> HIDE DEF r
      <4>4. QED
        BY <4>1, <4>2, <4>3
    <3>10. QED
      BY <3>4, <3>5, <3>6, <3>7, <3>8, <3>9, ResolvesToNoObject
  <2>4. QED
    BY <2>2, <2>3
<1> HIDE DEF plan
<1>4. ASSUME NEW v \in Json, IsObject(v), \A f \in STRING : ~IsObject(Child(v, f)) PROVE IsFlat(v)
  <2>1. ASSUME NEW key, key \notin DOMAIN v[2] PROVE ~IsObject(Child(v, key))
    BY <2>1 DEF Child, Null, IsObject
  <2>2. DOMAIN v[2] \subseteq STRING
    BY <1>4 DEF IsJson
  <2>3. QED
    BY <1>4, <2>1, <2>2 DEF IsFlat
<1>5. plan \in FlatDocs(Json) /\ IsFlat(plan)
  BY <1>2, <1>3, <1>4 DEF FlatDocs
<1>6. ASSUME NEW d \in FlatDocs(Json) PROVE Pushed(d, plan) \in FlatDocs(Json)
  <2>1. d \in Json /\ IsFlat(d) /\ IsObject(d)
    BY DEF FlatDocs, IsFlat
  <2>2. \A key : Child(Upserted(d, plan), key) =
                    IF key \in DOMAIN plan[2] THEN Child(plan, key) ELSE Child(d, key)
    BY <1>2, <2>1, UpsertedChild
  <2>3. IsObject(Upserted(d, plan))
    BY <1>2, <2>1, UpsertedChild
  <2>4. IsFlat(Upserted(d, plan))
    BY <1>5, <2>1, <2>2, <2>3 DEF IsFlat
  <2>5. Upserted(d, plan) \in Json
    BY <1>2, <2>1 DEF IsJson
  <2>6. QED
    BY <2>4, <2>5 DEF Pushed, FlatDocs
<1>7. QED
  BY <1>5, <1>6 DEF plan

-----------------------------------------------------------------------------
(* Retries on flat documents, however many of them fail in turn.           *)

\* Both applications keep flat documents.
HoldFlat(Json) ==
    /\ HoldJson(Json)
    /\ InitialDocs \subseteq FlatDocs(Json)
    /\ \A s \in Sides : \A d \in FlatDocs(Json) : Editions(s, d) \subseteq FlatDocs(Json)

DocsAreFlat(Json) ==
    baseline \in FlatDocs(Json) /\ doc[SideA] \in FlatDocs(Json) /\ doc[SideB] \in FlatDocs(Json)

\* Under policies that take what a side holds, the documents stay flat, and what is
\* planned while a push is pending is what was pushed.
FlatRetries(Json) == TakesSides(map) => DocsAreFlat(Json) /\ RetryNeverForks

\* No change of a flat document lies inside another one.
LEMMA FlatApart ==
    ASSUME NEW Json, IsJson(Json),
           NEW o \in FlatDocs(Json), NEW a \in FlatDocs(Json), NEW b \in FlatDocs(Json)
    PROVE  ~Overlaps(ThreeWayDiff(o, a, b))
<1>1. /\ o \in Json /\ a \in Json /\ b \in Json /\ IsFlat(o) /\ IsFlat(a) /\ IsFlat(b)
  BY DEF FlatDocs
<1>2. \A c : c \in ThreeWayDiff(o, a, b) <=> \E q : ChangedAt(o, a, b, q) /\ c = ChangeAt(o, a, b, q)
  BY <1>1, ChangelogIs
<1>3. ASSUME NEW c \in ThreeWayDiff(o, a, b) PROVE Len(c.path) = 1
  <2>1. PICK q : ChangedAt(o, a, b, q) /\ c = ChangeAt(o, a, b, q)
    BY <1>2
  <2>2. PICK f \in STRING : q = <<f>>
    BY <1>1, <2>1, FlatDiffers DEF ChangedAt
  <2>3. c.path = <<f>>
    BY <2>1, <2>2 DEF ChangeAt
  <2>4. QED
    BY <2>3
<1>4. QED
  BY <1>3 DEF Overlaps

LEMMA FlatRetriesStep ==
    ASSUME NEW Json, HoldFlat(Json), IInv(Json), FlatRetries(Json), [Next]_vars
    PROVE  FlatRetries(Json)'
<1>1. SideA \in Sides /\ SideB \in Sides /\ IsJson(Json) /\ HoldJson(Json)
  BY DEF Sides, HoldFlat, HoldJson
<1>2. map' = map
  BY DEF Next, Edit, Sync, SyncCutShort, SyncEscalated, vars
<1> SUFFICES ASSUME TakesSides(map) PROVE DocsAreFlat(Json)' /\ RetryNeverForks'
  BY <1>2 DEF FlatRetries
<1>3. DocsAreFlat(Json) /\ RetryNeverForks /\ OfValues(map)
  BY LookupTakesSides DEF FlatRetries
<1>4. \A s \in Sides : doc[s] \in FlatDocs(Json)
  BY <1>3 DEF DocsAreFlat, Sides
<1>5. ASSUME NEW s \in Sides, Edit(s) PROVE DocsAreFlat(Json)' /\ RetryNeverForks'
  <2>1. PICK d \in Editions(s, doc[s]) :
            doc' = [doc EXCEPT ![s] = d] /\ baseline' = baseline /\ pushing' = None
    BY <1>5 DEF Edit
  <2>2. \A t \in Sides : doc'[t] = IF t = s THEN d ELSE doc[t]
    BY <2>1 DEF IInv
  <2>3. d \in FlatDocs(Json)
    BY <1>4, <2>1 DEF HoldFlat
  <2>4. DocsAreFlat(Json)'
    BY <1>1, <1>3, <2>1, <2>2, <2>3 DEF DocsAreFlat, FlatDocs, IsFlat
  <2>5. RetryNeverForks'
    BY <2>1 DEF RetryNeverForks
  <2>6. QED
    BY <2>4, <2>5
<1>6. ASSUME Planned # None
      PROVE  /\ Planned \in FlatDocs(Json)
             /\ \A s \in Sides : Pushed(doc[s], Planned) \in FlatDocs(Json)
  <2>1. /\ Planned \in FlatDocs(Json)
        /\ Pushed(doc[SideA], Planned) \in FlatDocs(Json)
        /\ Pushed(doc[SideB], Planned) \in FlatDocs(Json)
    BY <1>1, <1>3, <1>6, FlatStaysFlat DEF Planned, DocsAreFlat
  <2>2. QED
    BY <2>1 DEF Sides
<1>7. CASE Sync(Planned)
  <2>1. /\ Planned # None /\ doc' = [s \in Sides |-> Pushed(doc[s], Planned)]
        /\ baseline' = Planned /\ pushing' = None
    BY <1>7 DEF Sync
  <2>2. DocsAreFlat(Json)'
    BY <1>1, <1>6, <2>1 DEF DocsAreFlat, FlatDocs, IsFlat
  <2>3. RetryNeverForks'
    BY <2>1 DEF RetryNeverForks
  <2>4. QED
    BY <2>2, <2>3
<1>8. CASE SyncCutShort(Planned)
  <2>1. /\ Planned # None /\ Planned # doc[SideA] /\ baseline' = baseline
        /\ doc' = [doc EXCEPT ![SideA] = Upserted(@, Planned)]
    BY <1>8 DEF SyncCutShort
  <2>2. doc'[SideA] = Pushed(doc[SideA], Planned) /\ doc'[SideB] = doc[SideB]
    BY <1>1, <2>1 DEF Pushed, IInv, SideA, SideB
  <2>3. DocsAreFlat(Json)'
    BY <1>1, <1>3, <1>6, <2>1, <2>2 DEF DocsAreFlat, FlatDocs, IsFlat
  <2>4. ~Overlaps(Moved)
    BY <1>1, <1>3, FlatApart DEF Moved, DocsAreFlat
  <2>5. RetryNeverForks'
    BY <1>1, <1>8, <2>4, RetryStep
  <2>6. QED
    BY <2>3, <2>5
<1>9. CASE UNCHANGED <<doc, baseline, map, pushing>>
  <2>1. Planned' = Planned /\ Moved' = Moved /\ Unites' = Unites
    BY <1>9 DEF Planned, Moved, Unites, Tables
  <2>2. QED
    BY <1>3, <1>9, <2>1 DEF RetryNeverForks, DocsAreFlat, FlatDocs, IsFlat
<1>10. CASE SyncEscalated(Planned)
  BY <1>9, <1>10 DEF SyncEscalated
<1>11. CASE UNCHANGED vars
  BY <1>9, <1>11 DEF vars
<1>12. QED
  BY <1>5, <1>7, <1>8, <1>10, <1>11 DEF Next

\* RetryNeverForks in every state, when both applications keep flat documents and
\* the policies take what a side holds: however often a cycle asks or is cut short
\* again, what is planned until the next edit is the document that was last being
\* pushed (run_cycle_at of orchestrator.rs, "Every earlier step retries
\* idempotently").
THEOREM FlatRetriesNeverFork ==
    ASSUME NEW Json, HoldFlat(Json)
    PROVE  Spec => [](TakesSides(map) => RetryNeverForks)
<1>1. Init => FlatRetries(Json)
  <2> SUFFICES ASSUME Init PROVE DocsAreFlat(Json) /\ RetryNeverForks
    BY DEF FlatRetries
  <2>1. PICK d \in InitialDocs : doc = [s \in Sides |-> d] /\ baseline = d /\ pushing = None
    BY DEF Init
  <2>2. d \in FlatDocs(Json)
    BY DEF HoldFlat
  <2>3. QED
    BY <2>1, <2>2 DEF DocsAreFlat, RetryNeverForks, Sides
<1>2. IInv(Json) /\ FlatRetries(Json) /\ [Next]_vars => FlatRetries(Json)'
  BY FlatRetriesStep
<1>3. FlatRetries(Json) => (TakesSides(map) => RetryNeverForks)
  BY DEF FlatRetries
<1>4. HoldJson(Json)
  BY DEF HoldFlat
<1>5. Spec => []IInv(Json)
  BY <1>4, JsonStaysJson
<1>6. QED
  BY <1>1, <1>2, <1>3, <1>5, PTL DEF Spec
=============================================================================
