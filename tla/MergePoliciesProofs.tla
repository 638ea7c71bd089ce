------------------------ MODULE MergePoliciesProofs ------------------------
(***************************************************************************)
(* What the operators of MergePolicies return, for every document.         *)
(***************************************************************************)
EXTENDS MergePolicies, WellFoundedInduction, NaturalsInduction, TLAPS

\* A nonempty set of naturals has a least element: the induction of the two
\* lemmas that follow.
LEMMA LeastNatural ==
    ASSUME NEW T, T \subseteq Nat, T # {}
    PROVE  \E n \in T : \A m \in T : ~(m < n)
<1> DEFINE R == {ss \in Nat \X Nat : ss[1] < ss[2]}
<1>1. IsWellFoundedOn(R, Nat)
  BY NatLessThanWellFounded, Zenon DEF OpToRel
<1>2. \A m, n \in Nat : m < n => <<m, n>> \in R
  OBVIOUS
<1> HIDE DEF R
<1>3. \E n \in T : \A m \in T : <<m, n>> \notin R
  BY <1>1, WFMin, Zenon
<1>4. QED
  BY <1>2, <1>3

\* The recursion of Additions is well defined: a function that satisfies it
\* exists for every prefix, by induction on the prefix.
LEMMA AdditionsRecursion ==
    ASSUME NEW q \in Seq(Items), NEW New
    PROVE  \E g : g = [i \in 0..Len(q) |->
                          IF i = 0 THEN <<>>
                          ELSE IF q[i] \in New THEN Append(g[i - 1], q[i])
                          ELSE g[i - 1]]
<1> DEFINE IsPrefix(g, n) ==
             \A i \in 0..n : g[i] = IF i = 0 THEN <<>>
                                   ELSE IF q[i] \in New THEN Append(g[i - 1], q[i])
                                   ELSE g[i - 1]
           Missing == {n \in Nat : ~ \E g : IsPrefix(g, n)}
<1>1. Missing = {}
  <2> SUFFICES ASSUME Missing # {} PROVE FALSE
    OBVIOUS
  <2>1. PICK n \in Missing : \A m \in Missing : ~(m < n)
    BY LeastNatural, Zenon
  <2>2. n # 0
    <3>1. IsPrefix([i \in {0} |-> <<>>], 0)
      OBVIOUS
    <3>2. QED
      BY <3>1, <2>1
  <2>3. \E g : IsPrefix(g, n - 1)
    <3>1. n - 1 \in Nat /\ n - 1 < n
      BY <2>2
    <3> HIDE DEF IsPrefix
    <3>2. n - 1 \notin Missing
      BY <2>1, <3>1
    <3>3. QED
      BY <3>1, <3>2
  <2>4. PICK g : IsPrefix(g, n - 1)
    BY <2>3
  <2> DEFINE h == [i \in 0..n |->
                     IF i < n THEN g[i]
                     ELSE IF q[n] \in New THEN Append(g[n - 1], q[n]) ELSE g[n - 1]]
  <2>5. IsPrefix(h, n)
    <3> SUFFICES ASSUME NEW i \in 0..n
                 PROVE  h[i] = IF i = 0 THEN <<>>
                               ELSE IF q[i] \in New THEN Append(h[i - 1], q[i])
                               ELSE h[i - 1]
      OBVIOUS
    <3>1. CASE i < n
      <4>1. i \in 0..(n - 1) /\ h[i] = g[i] /\ (i # 0 => h[i - 1] = g[i - 1])
        BY <3>1, <2>1
      <4>2. QED
        BY <4>1, <2>4
    <3>2. CASE i = n
      <4>1. h[n - 1] = g[n - 1]
        BY <2>1, <2>2
      <4>2. QED
        BY <4>1, <3>2, <2>1, <2>2
    <3>3. QED
      BY <3>1, <3>2, <2>1
  <2>6. QED
    BY <2>1, <2>5
<1>2. PICK g : IsPrefix(g, Len(q))
  <2>1. Len(q) \in Nat
    OBVIOUS
  <2>2. QED
    BY <1>1, <2>1
<1> DEFINE r == [i \in 0..Len(q) |-> g[i]]
<1>3. r = [i \in 0..Len(q) |-> IF i = 0 THEN <<>>
                               ELSE IF q[i] \in New THEN Append(r[i - 1], q[i])
                               ELSE r[i - 1]]
  <2>1. \A i \in 0..Len(q) : r[i] = g[i] /\ (i # 0 => r[i - 1] = g[i - 1])
    OBVIOUS
  <2>2. \A i \in 0..Len(q) : r[i] = IF i = 0 THEN <<>>
                                    ELSE IF q[i] \in New THEN Append(r[i - 1], q[i])
                                    ELSE r[i - 1]
    BY <2>1, <1>2
  <2>3. QED
    BY <2>2
<1>4. QED
  BY <1>3

\* The items that an array q has and old has not.
NewTo(old) == Items \ {old[j] : j \in DOMAIN old}

\* f has, for each prefix of q, its items that are in New.
TakesByPrefix(f, q, New) ==
    \A i \in 0..Len(q) : f[i] = IF i = 0 THEN <<>>
                               ELSE IF q[i] \in New THEN Append(f[i - 1], q[i])
                               ELSE f[i - 1]

\* What Append takes from one side's array is found prefix by prefix.
LEMMA AdditionsByPrefix ==
    ASSUME NEW q \in Seq(Items), NEW old
    PROVE  \E f : Additions(q, old) = f[Len(q)] /\ TakesByPrefix(f, q, NewTo(old))
<1> DEFINE New == Items \ {old[j] : j \in DOMAIN old}
           F(g) == [i \in 0..Len(q) |-> IF i = 0 THEN <<>>
                                       ELSE IF q[i] \in New THEN Append(g[i - 1], q[i])
                                       ELSE g[i - 1]]
           f == CHOOSE g : g = F(g)
<1>1. \E g : g = F(g)
  BY AdditionsRecursion
<1>2. f = F(f)
  BY <1>1, Zenon
<1>3. Additions(q, old) = f[Len(q)]
  BY DEF Additions
<1> HIDE DEF f, New
<1>4. \A i \in 0..Len(q) : f[i] = IF i = 0 THEN <<>>
                                 ELSE IF q[i] \in New THEN Append(f[i - 1], q[i])
                                 ELSE f[i - 1]
  <2> DEFINE step(i) == IF i = 0 THEN <<>>
                        ELSE IF q[i] \in New THEN Append(f[i - 1], q[i])
                        ELSE f[i - 1]
  <2>1. f = [i \in 0..Len(q) |-> step(i)]
    BY <1>2
  <2> HIDE DEF step
  <2>2. \A i \in 0..Len(q) : f[i] = step(i)
    BY <2>1
  <2>3. QED
    BY <2>2 DEF step
<1> HIDE DEF F
<1>5. TakesByPrefix(f, q, NewTo(old))
  BY <1>4 DEF TakesByPrefix, NewTo, New
<1>6. QED
  BY <1>3, <1>5

\* It is an array again.
LEMMA AdditionsType ==
    ASSUME NEW q \in Seq(Items), NEW old
    PROVE  Additions(q, old) \in Seq(Items)
<1> DEFINE New == NewTo(old)
<1>1. PICK f : Additions(q, old) = f[Len(q)] /\ TakesByPrefix(f, q, New)
  BY AdditionsByPrefix
<1> HIDE DEF New
<1>2. Additions(q, old) = f[Len(q)]
  BY <1>1
<1>3. \A i \in 0..Len(q) : f[i] = IF i = 0 THEN <<>>
                                 ELSE IF q[i] \in New THEN Append(f[i - 1], q[i])
                                 ELSE f[i - 1]
  BY <1>1 DEF TakesByPrefix
<1> DEFINE Bad == {i \in Nat : i <= Len(q) /\ f[i] \notin Seq(Items)}
<1>4. Bad = {}
  <2> SUFFICES ASSUME Bad # {} PROVE FALSE
    OBVIOUS
  <2>1. PICK n \in Bad : \A m \in Bad : ~(m < n)
    BY LeastNatural, Zenon
  <2>2. f[n] = IF n = 0 THEN <<>>
               ELSE IF q[n] \in New THEN Append(f[n - 1], q[n]) ELSE f[n - 1]
    BY <1>3, <2>1
  <2>3. CASE n = 0
    <3>1. <<>> \in Seq(Items)
      OBVIOUS
    <3>2. f[n] = <<>> /\ f[n] \notin Seq(Items)
      BY <2>1, <2>2, <2>3
    <3>3. QED
      BY <3>1, <3>2, Zenon
  <2>4. CASE n # 0
    <3>1. n \in Nat /\ n <= Len(q) /\ f[n] \notin Seq(Items) /\ n - 1 \notin Bad
      BY <2>1, <2>4
    <3>2. f[n - 1] \in Seq(Items) /\ q[n] \in Items
      BY <3>1, <2>4
    <3>3. Append(f[n - 1], q[n]) \in Seq(Items)
      BY <3>2
    <3>4. QED
      BY <3>1, <3>2, <3>3, <2>2, <2>4
  <2>5. QED
    BY <2>3, <2>4
<1>5. QED
  <2>1. Len(q) \in Nat
    OBVIOUS
  <2>2. f[Len(q)] \in Seq(Items)
    BY <1>4, <2>1
  <2>3. QED
    BY <1>2, <2>2

-----------------------------------------------------------------------------
(* The merges yield a value or a conflict.                                 *)

\* A value's kind says what its payload is.
LEMMA ValueKinds ==
    ASSUME NEW v \in Value
    PROVE  /\ IsNumber(v) => v[2] \in Int
           /\ v[1] = "array" => v[2] \in Seq(Items)
  BY DEF Value, Number, Array, String, Null, IsNumber

\* None is not a value: a resolved path and a conflict are told apart.
LEMMA NoneIsNoValue ==
    None \notin Value /\ None # Absent /\ None \notin Doc /\ None \notin Nat
  BY NoneAssumption

\* The two sides' views of a change are values.
LEMMA NewType ==
    ASSUME NEW c \in FieldChanges
    PROVE  NewA(c) \in Value /\ NewB(c) \in Value
  BY DEF FieldChanges, NewA, NewB

\* Additive resolves to a number or is a conflict.
LEMMA AdditiveType ==
    ASSUME NEW c \in FieldChanges
    PROVE  AdditiveMerge(c) \in Value \cup {None}
<1>1. c.old_value \in Value
  BY DEF FieldChanges
<1>2. CASE IsNumber(c.old_value) /\ IsNumber(NewA(c)) /\ IsNumber(NewB(c))
  <2>1. NewA(c)[2] + NewB(c)[2] - c.old_value[2] \in Int
    BY <1>1, <1>2, NewType, ValueKinds
  <2>2. QED
    BY <1>2, <2>1 DEF AdditiveMerge, FloatNumber, Value, Number
<1>3. QED
  BY <1>2 DEF AdditiveMerge

\* Append resolves to an array, to one side's value, or is a conflict.
LEMMA AppendType ==
    ASSUME NEW c \in FieldChanges
    PROVE  AppendMerge(c) \in Value \cup {None}
<1>1. c.old_value \in Value /\ NewA(c) \in Value /\ NewB(c) \in Value
  BY NewType DEF FieldChanges
<1>2. CASE /\ c.old_value[1] = "array" /\ NewA(c)[1] = "array" /\ NewB(c)[1] = "array"
           /\ BothMoved(c)
  <2> DEFINE old == c.old_value[2]
             fromA == Additions(NewA(c)[2], old)
             fromB == Additions(NewB(c)[2], old)
  <2>1. old \in Seq(Items) /\ fromA \in Seq(Items) /\ fromB \in Seq(Items)
    BY <1>1, <1>2, ValueKinds, AdditionsType
  <2> HIDE DEF old, fromA, fromB
  <2>2. old \o fromA \o fromB \in Seq(Items)
    BY <2>1
  <2>3. JsonArray(old \o fromA \o fromB) \in Value
    BY <2>2 DEF JsonArray, Value, Array
  <2>4. AppendMerge(c) = JsonArray(old \o fromA \o fromB)
    BY <1>2 DEF AppendMerge, old, fromA, fromB
  <2>5. QED
    BY <2>3, <2>4
<1>3. CASE ~BothMoved(c)
  BY <1>3 DEF AppendMerge, FieldChanges, BothMoved
<1>4. QED
  BY <1>2, <1>3 DEF AppendMerge

\* The policies that pick one of the values at hand resolve to a value, or are
\* a conflict: nobody's value is made up.
LEMMA PickedType ==
    ASSUME NEW c \in FieldChanges, NEW system, NEW allowed
    PROVE  /\ OwnedByMerge(system, c) \in Value \cup {None}
           /\ StateMachineMerge(allowed, c) \in Value \cup {None}
           /\ LastWriteWinsMerge(system, c) \in Value \cup {None}
<1>1. OwnedByMerge(system, c) \in Value \cup {None}
  BY NewType DEF OwnedByMerge
<1>2. StateMachineMerge(allowed, c) \in Value \cup {None}
  BY DEF StateMachineMerge, FieldChanges
<1>3. LastWriteWinsMerge(system, c) \in Value \cup {None}
  BY DEF LastWriteWinsMerge, FieldChanges, BothMoved
<1>4. QED
  BY <1>1, <1>2, <1>3

\* Whatever the policy, a merge resolves to a JSON value or is a conflict.
THEOREM MergeType ==
    ASSUME NEW policy, NEW c \in FieldChanges
    PROVE  Merge(policy, c) \in Value \cup {None}
  BY AdditiveType, AppendType, PickedType, Zenon DEF Merge

-----------------------------------------------------------------------------
(* Documents.                                                              *)

\* A missing key reads as null, which is a value.
LEMMA AsJsonType ==
    ASSUME NEW v \in Value \cup {Absent}
    PROVE  AsJson(v) \in Value
  BY DEF AsJson, Value, Null

\* Every entry of a changelog has a value from at least one side.
LEMMA FieldChangeType ==
    ASSUME NEW ancestor \in Doc, NEW a \in Doc, NEW b \in Doc,
           NEW f \in Changes(ancestor, a, b)
    PROVE  f \in Fields /\ FieldChange(ancestor, a, b, f) \in FieldChanges
<1>1. f \in Fields /\ (f \in Changed(ancestor, a) \/ f \in Changed(ancestor, b))
  BY DEF Changes, Changed
<1>2. AsJson(ancestor[f]) \in Value /\ AsJson(a[f]) \in Value /\ AsJson(b[f]) \in Value
  BY <1>1, AsJsonType DEF Doc
<1>3. /\ SideChange(ancestor, a, f) \in Value \cup {None}
      /\ SideChange(ancestor, b, f) \in Value \cup {None}
      /\ SideChange(ancestor, a, f) # None \/ SideChange(ancestor, b, f) # None
  BY <1>1, <1>2, NoneIsNoValue DEF SideChange
<1>4. QED
  BY <1>1, <1>2, <1>3 DEF FieldChange, FieldChanges

\* A cycle without conflicts merges two documents into a document.
THEOREM CandidateType ==
    ASSUME NEW map, NEW ancestor \in Doc, NEW a \in Doc, NEW b \in Doc,
           Conflicts(map, ancestor, a, b) = {}
    PROVE  Candidate(map, ancestor, a, b) \in Doc
<1>1. ASSUME NEW f \in Changes(ancestor, a, b)
      PROVE  ResolveField(map, ancestor, a, b, f) \in Value
  BY FieldChangeType, MergeType, Zenon DEF Conflicts, ResolveField
<1>2. ASSUME NEW f \in Fields
      PROVE  Candidate(map, ancestor, a, b)[f] \in Value \cup {Absent}
  BY <1>1 DEF Candidate, Doc
<1>3. QED
  BY <1>2 DEF Candidate, Doc

\* The values of a side: the document that is merged for it.
Own(s, a, b) == IF s = SideA THEN a ELSE b

\* A field that a side owns is never in conflict, and merges to the side's own
\* value: to what it moved to, or to the ancestor's where it did not move.
THEOREM OwnerMergesItsOwn ==
    ASSUME NEW map, NEW s \in Sides, NEW ancestor \in Doc, NEW a \in Doc, NEW b \in Doc,
           NEW f \in Fields, Lookup(map, f) = OwnedBy(s)
    PROVE  /\ f \notin Conflicts(map, ancestor, a, b)
           /\ Same(Candidate(map, ancestor, a, b)[f], Own(s, a, b)[f])
<1> DEFINE d == Own(s, a, b)
           c == FieldChange(ancestor, a, b, f)
<1>1. d \in Doc
  BY DEF Own
<1>2. ResolveField(map, ancestor, a, b, f) = IF s = SideA THEN NewA(c) ELSE NewB(c)
  <2>1. DOMAIN OwnedBy(s) = {"owned_by"} /\ OwnedBy(s).owned_by = s
    BY DEF OwnedBy
  <2>2. Merge(OwnedBy(s), c) = OwnedByMerge(s, c)
    BY <2>1 DEF Merge
  <2>3. QED
    BY <2>2 DEF ResolveField, OwnedByMerge, Sides, SideA, SideB
<1>3. f \notin Conflicts(map, ancestor, a, b)
  BY <1>2, FieldChangeType, NewType, NoneIsNoValue DEF Conflicts
<1>4. AsJson(d[f]) \in Value
  BY <1>1, AsJsonType DEF Doc
<1>5. ResolveField(map, ancestor, a, b, f)
        = IF f \in Changed(ancestor, d) THEN AsJson(d[f]) ELSE AsJson(ancestor[f])
  BY <1>2, <1>4, NoneIsNoValue
     DEF NewA, NewB, FieldChange, SideChange, Own, Sides, SideA, SideB
<1>6. Same(Candidate(map, ancestor, a, b)[f], d[f])
  <2>1. CASE f \in Changed(ancestor, d)
    <3>1. f \in Changes(ancestor, a, b)
      BY <2>1 DEF Changes, Own
    <3>2. Candidate(map, ancestor, a, b)[f] = AsJson(d[f])
      BY <3>1, <2>1, <1>5 DEF Candidate
    <3>3. QED
      BY <3>2 DEF Same, AsJson, Absent, Null
  <2>2. CASE f \notin Changed(ancestor, d)
    <3>1. Same(ancestor[f], d[f])
      BY <2>2 DEF Changed
    <3>2. Same(AsJson(ancestor[f]), d[f])
      BY <3>1 DEF Same, AsJson, Null, Absent, IsNumber
    <3>3. Candidate(map, ancestor, a, b)[f] \in {ancestor[f], AsJson(ancestor[f])}
      BY <2>2, <1>5 DEF Candidate
    <3>4. QED
      BY <3>1, <3>2, <3>3
  <2>3. QED
    BY <2>1, <2>2
<1>7. QED
  BY <1>3, <1>6

\* A one-way engine never escalates, and what it merges has A's values.
THEOREM OneWayMergesA ==
    ASSUME NEW ancestor \in Doc, NEW a \in Doc, NEW b \in Doc
    PROVE  /\ Conflicts(OwnedByDefault(SideA), ancestor, a, b) = {}
           /\ Agree(Candidate(OwnedByDefault(SideA), ancestor, a, b), a)
<1>1. SideA \in Sides /\ Own(SideA, a, b) = a
  BY DEF Sides, Own
<1>2. ASSUME NEW f \in Fields
      PROVE  Lookup(OwnedByDefault(SideA), f) = OwnedBy(SideA)
  BY DEF Lookup, OwnedByDefault
<1>3. ASSUME NEW f \in Fields
      PROVE  /\ f \notin Conflicts(OwnedByDefault(SideA), ancestor, a, b)
             /\ Same(Candidate(OwnedByDefault(SideA), ancestor, a, b)[f], a[f])
  BY <1>1, <1>2, OwnerMergesItsOwn
<1>4. Conflicts(OwnedByDefault(SideA), ancestor, a, b) \subseteq Fields
  BY DEF Conflicts, Changes, Changed
<1>5. QED
  BY <1>3, <1>4 DEF Agree

-----------------------------------------------------------------------------
(* One policy at a time.                                                   *)

\* A policy is of one kind, and merges by the rule of that kind.
LEMMA MergeByKind ==
    ASSUME NEW policy \in Policy \cup {NoPolicy}, NEW c
    PROVE  \/ /\ DOMAIN policy = {"owned_by"}
              /\ Merge(policy, c) = OwnedByMerge(policy.owned_by, c)
           \/ /\ DOMAIN policy = {"additive"}
              /\ Merge(policy, c) = AdditiveMerge(c)
           \/ /\ DOMAIN policy = {"append"}
              /\ Merge(policy, c) = AppendMerge(c)
           \/ /\ DOMAIN policy = {"state_machine"}
              /\ Merge(policy, c) = StateMachineMerge(policy.state_machine, c)
           \/ /\ DOMAIN policy = {"last_write_wins"}
              /\ Merge(policy, c) = LastWriteWinsMerge(policy.last_write_wins, c)
           \/ /\ DOMAIN policy = {"no_policy"}
              /\ Merge(policy, c) = None
<1>1. CASE policy \in [owned_by : STRING]
  <2>1. DOMAIN policy = {"owned_by"}
    BY <1>1
  <2>2. QED
    BY <2>1 DEF Merge
<1>2. CASE policy \in [additive : {TRUE}]
  <2>1. DOMAIN policy = {"additive"}
    BY <1>2
  <2>2. QED
    BY <2>1 DEF Merge
<1>3. CASE policy \in [append : {TRUE}]
  <2>1. DOMAIN policy = {"append"}
    BY <1>3
  <2>2. QED
    BY <2>1 DEF Merge
<1>4. CASE policy \in [state_machine : SUBSET (Strings \X Strings)]
  <2>1. DOMAIN policy = {"state_machine"}
    BY <1>4
  <2>2. QED
    BY <2>1 DEF Merge
<1>5. CASE policy \in [last_write_wins : STRING]
  <2>1. DOMAIN policy = {"last_write_wins"}
    BY <1>5
  <2>2. QED
    BY <2>1 DEF Merge
<1>6. CASE policy = NoPolicy
  <2>1. DOMAIN policy = {"no_policy"}
    BY <1>6 DEF NoPolicy
  <2>2. QED
    BY <2>1 DEF Merge
<1>7. QED
  BY <1>1, <1>2, <1>3, <1>4, <1>5, <1>6 DEF Policy

\* What a policy map has for a path is a policy, or none.
LEMMA LookupType ==
    ASSUME NEW map, IsPolicyMap(map), NEW f
    PROVE  Lookup(map, f) \in Policy \cup {NoPolicy}
  BY DEF IsPolicyMap, Lookup

\* The moves that a state machine lets a value make: none, or a transition.
LegalMove(allowed, u, v) == Same(u, v) \/ <<u[2], v[2]>> \in allowed

\* What a state machine makes of a change is a legal move from the ancestor's
\* value, whichever side moved.
LEMMA StateMachineMovesLegally ==
    ASSUME NEW allowed, NEW u \in Value \cup {Absent}, NEW c \in FieldChanges,
           c.old_value = AsJson(u), StateMachineMerge(allowed, c) # None
    PROVE  LegalMove(allowed, u, StateMachineMerge(allowed, c))
<1> DEFINE to == IF c.new_from_a # None THEN c.new_from_a ELSE c.new_from_b
<1>1. /\ StateMachineMerge(allowed, c) = to
      /\ c.old_value[1] = "string"
      /\ to[1] = "string"
      /\ c.old_value[2] = to[2] \/ <<c.old_value[2], to[2]>> \in allowed
  BY DEF StateMachineMerge, IsAllowed
<1>2. c.old_value \in Value /\ to \in Value
  BY DEF FieldChanges
<1> HIDE DEF to
<1>3. u = c.old_value
  BY <1>1 DEF AsJson, Null
<1>4. c.old_value = <<"string", c.old_value[2]>> /\ to = <<"string", to[2]>>
  BY <1>1, <1>2 DEF Value, Number, Array, String, Null
<1>5. CASE c.old_value[2] = to[2]
  BY <1>1, <1>3, <1>4, <1>5 DEF LegalMove, Same
<1>6. CASE <<c.old_value[2], to[2]>> \in allowed
  BY <1>1, <1>3, <1>6 DEF LegalMove
<1>7. QED
  BY <1>1, <1>5, <1>6

-----------------------------------------------------------------------------
(* Sameness of values, and the change of one path.                         *)

\* What a document may have at a path.
Entry == Value \cup {Absent}

\* Sameness is an equivalence, and tells the kinds apart but for the two forms
\* of a number.
LEMMA SameIsEquivalence ==
    /\ \A u : Same(u, u)
    /\ \A u, v : Same(u, v) => Same(v, u)
    /\ \A u, v, x \in Entry : Same(u, v) /\ Same(v, x) => Same(u, x)
<1>1. \A u : Same(u, u)
  BY DEF Same
<1>2. \A u, v : Same(u, v) => Same(v, u)
  BY DEF Same
<1>3. ASSUME NEW u \in Entry, NEW v \in Entry, NEW x \in Entry, Same(u, v), Same(v, x)
      PROVE  Same(u, x)
  <2>1. \A y \in Entry : IsNumber(y) => AsJson(y) = y
    BY DEF Entry, AsJson, IsNumber, Absent
  <2>2. \A y, z \in Entry : AsJson(y) = AsJson(z) /\ IsNumber(z) => IsNumber(y) /\ y = z
    BY DEF Entry, AsJson, IsNumber, Absent, Null
  <2> HIDE DEF Entry
  <2>3. QED
    BY <1>3, <2>1, <2>2 DEF Same
<1>4. QED
  BY <1>1, <1>2, <1>3

\* Of values that are not numbers, only equal ones are the same.
LEMMA SameKind ==
    ASSUME NEW u \in Value, NEW v \in Value, Same(u, v)
    PROVE  /\ IsNumber(u) <=> IsNumber(v)
           /\ ~IsNumber(u) => u = v
<1>1. AsJson(u) = u /\ AsJson(v) = v
  BY DEF AsJson, Value, Number, Array, String, Null, Absent
<1>2. QED
  BY <1>1 DEF Same

\* A missing key and a null are the same.
LEMMA AsJsonSame ==
    ASSUME NEW v \in Entry
    PROVE  AsJson(v) \in Value /\ Same(AsJson(v), v)
<1>1. AsJson(v) \in Value
  BY AsJsonType DEF Entry
<1>2. AsJson(AsJson(v)) = AsJson(v)
  BY DEF AsJson, Null, Absent
<1>3. QED
  BY <1>1, <1>2 DEF Same

\* The change of a path that has o in the ancestor and a and b on the sides.
ChangeOf(o, a, b) ==
    [old_value  |-> AsJson(o),
     new_from_a |-> IF Same(o, a) THEN None ELSE AsJson(a),
     new_from_b |-> IF Same(o, b) THEN None ELSE AsJson(b)]

\* A side has moved if its value is not the same as the ancestor's; what the
\* policies take for its value is the same as its value.
LEMMA ChangeOfFacts ==
    ASSUME NEW o \in Entry, NEW a \in Entry, NEW b \in Entry
    PROVE  LET c == ChangeOf(o, a, b)
           IN  /\ c.old_value \in Value /\ Same(c.old_value, o)
               /\ c.new_from_a = None <=> Same(o, a)
               /\ c.new_from_b = None <=> Same(o, b)
               /\ ~Same(o, a) => c.new_from_a \in Value /\ Same(c.new_from_a, a)
               /\ ~Same(o, b) => c.new_from_b \in Value /\ Same(c.new_from_b, b)
               /\ NewA(c) \in Value /\ Same(NewA(c), a)
               /\ NewB(c) \in Value /\ Same(NewB(c), b)
<1> DEFINE c == ChangeOf(o, a, b)
<1>1. /\ c.old_value = AsJson(o)
      /\ c.new_from_a = IF Same(o, a) THEN None ELSE AsJson(a)
      /\ c.new_from_b = IF Same(o, b) THEN None ELSE AsJson(b)
  BY DEF ChangeOf
<1> HIDE DEF c
<1>2. /\ AsJson(o) \in Value /\ Same(AsJson(o), o)
      /\ AsJson(a) \in Value /\ Same(AsJson(a), a)
      /\ AsJson(b) \in Value /\ Same(AsJson(b), b)
  BY AsJsonSame
<1>3. AsJson(o) \in Entry /\ AsJson(a) # None /\ AsJson(b) # None
  BY <1>2, NoneIsNoValue DEF Entry
<1>4. NewA(c) \in Value /\ Same(NewA(c), a)
  BY <1>1, <1>2, <1>3, SameIsEquivalence DEF NewA
<1>5. NewB(c) \in Value /\ Same(NewB(c), b)
  BY <1>1, <1>2, <1>3, SameIsEquivalence DEF NewB
<1>6. QED
  BY <1>1, <1>2, <1>3, <1>4, <1>5 DEF c

-----------------------------------------------------------------------------
(* A merge that is repeated.  One that came to m was pushed, to one side,  *)
(* to both or to none, before the ancestor was stored.                     *)

\* The values of a path in the second merge: each side still has what it had in
\* the first one, or m; the ancestor is that of the first one, or, where there is
\* none, A's value both times.
Repeats(m, o, a, b, o2, a2, b2) ==
    /\ m \in Value
    /\ {o, a, b, o2, a2, b2} \subseteq Entry
    /\ Same(a2, a) \/ Same(a2, m)
    /\ Same(b2, b) \/ Same(b2, m)
    /\ o2 = o \/ (o = a /\ o2 = a2)
    /\ ~Same(o, a) \/ ~Same(o, b)

\* A path that no side has changed any more already has m in the ancestor.
LEMMA RepeatedChange ==
    ASSUME NEW m, NEW o, NEW a, NEW b, NEW o2, NEW a2, NEW b2,
           Repeats(m, o, a, b, o2, a2, b2), Same(o2, a2), Same(o2, b2)
    PROVE  Same(o2, m)
<1>1. m \in Entry /\ {o, a, b, o2, a2, b2} \subseteq Entry
  BY DEF Repeats, Entry
<1>2. /\ Same(a2, a) \/ Same(a2, m)
      /\ Same(b2, b) \/ Same(b2, m)
      /\ o2 = o \/ (o = a /\ o2 = a2)
      /\ ~Same(o, a) \/ ~Same(o, b)
  BY DEF Repeats
<1>3. QED
  BY <1>1, <1>2, SameIsEquivalence

\* The owner's value is the owner's value again.
LEMMA RepeatedOwnedBy ==
    ASSUME NEW m, NEW o, NEW a, NEW b, NEW o2, NEW a2, NEW b2,
           Repeats(m, o, a, b, o2, a2, b2), NEW system,
           OwnedByMerge(system, ChangeOf(o, a, b)) = m
    PROVE  LET again == OwnedByMerge(system, ChangeOf(o2, a2, b2))
           IN  again # None /\ Same(again, m)
<1> DEFINE c  == ChangeOf(o, a, b)
           c2 == ChangeOf(o2, a2, b2)
<1>1. m \in Value /\ {o, a, b, o2, a2, b2} \subseteq Entry /\ None \notin Value
  BY NoneIsNoValue DEF Repeats
<1>2. /\ NewA(c) \in Value /\ Same(NewA(c), a) /\ NewB(c) \in Value /\ Same(NewB(c), b)
      /\ NewA(c2) \in Value /\ Same(NewA(c2), a2) /\ NewB(c2) \in Value /\ Same(NewB(c2), b2)
  BY <1>1, ChangeOfFacts
<1> HIDE DEF c, c2
<1>3. CASE system = SideA
  <2>1. OwnedByMerge(system, c) = NewA(c) /\ OwnedByMerge(system, c2) = NewA(c2)
    BY <1>3 DEF OwnedByMerge, SideA, SideB
  <2>2. Same(NewA(c2), m)
    BY <1>1, <1>2, <2>1, SameIsEquivalence DEF Repeats, Entry, c
  <2>3. QED
    BY <1>1, <1>2, <2>1, <2>2 DEF c2
<1>4. CASE system = SideB
  <2>1. OwnedByMerge(system, c) = NewB(c) /\ OwnedByMerge(system, c2) = NewB(c2)
    BY <1>4 DEF OwnedByMerge, SideA, SideB
  <2>2. Same(NewB(c2), m)
    BY <1>1, <1>2, <2>1, SameIsEquivalence DEF Repeats, Entry, c
  <2>3. QED
    BY <1>1, <1>2, <2>1, <2>2 DEF c2
<1>5. CASE system \notin {SideA, SideB}
  BY <1>1, <1>5 DEF OwnedByMerge, c
<1>6. QED
  BY <1>3, <1>4, <1>5

\* The side that won wins again, or both sides hold what it wrote.
LEMMA RepeatedLastWriteWins ==
    ASSUME NEW m, NEW o, NEW a, NEW b, NEW o2, NEW a2, NEW b2,
           Repeats(m, o, a, b, o2, a2, b2), NEW newer \in Sides,
           LastWriteWinsMerge(newer, ChangeOf(o, a, b)) = m,
           ~Same(o2, a2) \/ ~Same(o2, b2)
    PROVE  LET again == LastWriteWinsMerge(newer, ChangeOf(o2, a2, b2))
           IN  again # None /\ Same(again, m)
<1> DEFINE c  == ChangeOf(o, a, b)
           c2 == ChangeOf(o2, a2, b2)
           again == LastWriteWinsMerge(newer, c2)
<1>1. m \in Entry /\ {o, a, b, o2, a2, b2} \subseteq Entry /\ None \notin Value
  BY NoneIsNoValue DEF Repeats, Entry
<1>2. /\ c.new_from_a = None <=> Same(o, a)
      /\ c.new_from_b = None <=> Same(o, b)
      /\ ~Same(o, a) => c.new_from_a \in Value /\ Same(c.new_from_a, a)
      /\ ~Same(o, b) => c.new_from_b \in Value /\ Same(c.new_from_b, b)
  BY <1>1, ChangeOfFacts
<1>3. /\ c2.new_from_a = None <=> Same(o2, a2)
      /\ c2.new_from_b = None <=> Same(o2, b2)
      /\ ~Same(o2, a2) => c2.new_from_a \in Value /\ Same(c2.new_from_a, a2)
      /\ ~Same(o2, b2) => c2.new_from_b \in Value /\ Same(c2.new_from_b, b2)
  BY <1>1, ChangeOfFacts
<1>4. LastWriteWinsMerge(newer, c) = m
  OBVIOUS
<1> HIDE DEF c, c2
<1>5. /\ Same(m, a) \/ Same(m, b)
      /\ Same(m, a) \/ (~Same(o, b) /\ (Same(o, a) \/ newer = SideB))
      /\ Same(m, b) \/ (~Same(o, a) /\ (Same(o, b) \/ newer = SideA))
  <2>1. ~Same(o, a) \/ ~Same(o, b)
    BY DEF Repeats
  <2>2. \/ m = c.new_from_a /\ ~Same(o, a) /\ (Same(o, b) \/ newer = SideA)
        \/ m = c.new_from_b /\ ~Same(o, b) /\ (Same(o, a) \/ newer = SideB)
    BY <1>2, <1>4, <2>1 DEF LastWriteWinsMerge, BothMoved, Sides, SideA, SideB
  <2>3. QED
    BY <1>2, <2>2
<1>6. /\ ~Same(o2, a2) /\ (Same(o2, b2) \/ newer = SideA) => again = c2.new_from_a
      /\ ~Same(o2, b2) /\ (Same(o2, a2) \/ newer = SideB) => again = c2.new_from_b
  BY <1>3 DEF LastWriteWinsMerge, BothMoved, Sides, SideA, SideB
<1>7. /\ Same(a2, a) \/ Same(a2, m)
      /\ Same(b2, b) \/ Same(b2, m)
      /\ o2 = o \/ (o = a /\ o2 = a2)
      /\ ~Same(o, a) \/ ~Same(o, b)
  BY DEF Repeats
<1> HIDE DEF again
<1>8. CASE ~Same(o2, a2) /\ (Same(o2, b2) \/ newer = SideA)
  <2>1. o2 = o
    BY <1>7, <1>8, SameIsEquivalence
  <2>2. Same(a2, m)
    BY <1>1, <1>5, <1>7, <1>8, <2>1, SameIsEquivalence DEF Sides, SideA, SideB
  <2>3. again \in Value /\ Same(again, a2)
    BY <1>3, <1>6, <1>8
  <2>4. QED
    BY <1>1, <2>2, <2>3, SameIsEquivalence DEF Entry, again, c2
<1>9. CASE ~Same(o2, b2) /\ (Same(o2, a2) \/ newer = SideB)
  <2>1. Same(b2, m)
    BY <1>1, <1>5, <1>7, <1>9, SameIsEquivalence DEF Sides, SideA, SideB
  <2>2. again \in Value /\ Same(again, b2)
    BY <1>3, <1>6, <1>9
  <2>3. QED
    BY <1>1, <2>1, <2>2, SameIsEquivalence DEF Entry, again, c2
<1>10. QED
  BY <1>8, <1>9 DEF Sides

\* A state machine makes the same move again.
LEMMA RepeatedStateMachine ==
    ASSUME NEW m, NEW o, NEW a, NEW b, NEW o2, NEW a2, NEW b2,
           Repeats(m, o, a, b, o2, a2, b2), NEW allowed,
           StateMachineMerge(allowed, ChangeOf(o, a, b)) = m,
           ~Same(o2, a2) \/ ~Same(o2, b2)
    PROVE  LET again == StateMachineMerge(allowed, ChangeOf(o2, a2, b2))
           IN  again # None /\ Same(again, m)
<1> DEFINE c  == ChangeOf(o, a, b)
           c2 == ChangeOf(o2, a2, b2)
           to == IF c.new_from_a # None THEN c.new_from_a ELSE c.new_from_b
           to2 == IF c2.new_from_a # None THEN c2.new_from_a ELSE c2.new_from_b
<1>1. m \in Entry /\ {o, a, b, o2, a2, b2} \subseteq Entry /\ None \notin Value /\ m \in Value
  BY NoneIsNoValue DEF Repeats, Entry
<1>2. /\ c.new_from_a = None <=> Same(o, a)
      /\ c.new_from_b = None <=> Same(o, b)
      /\ ~Same(o, a) => c.new_from_a \in Value /\ Same(c.new_from_a, a)
      /\ ~Same(o, b) => c.new_from_b \in Value /\ Same(c.new_from_b, b)
      /\ c.old_value \in Value /\ Same(c.old_value, o)
  BY <1>1, ChangeOfFacts
<1>3. /\ c2.new_from_a = None <=> Same(o2, a2)
      /\ c2.new_from_b = None <=> Same(o2, b2)
      /\ ~Same(o2, a2) => c2.new_from_a \in Value /\ Same(c2.new_from_a, a2)
      /\ ~Same(o2, b2) => c2.new_from_b \in Value /\ Same(c2.new_from_b, b2)
      /\ c2.old_value \in Value /\ Same(c2.old_value, o2)
  BY <1>1, ChangeOfFacts
<1>4. StateMachineMerge(allowed, c) = m /\ m # None
  BY <1>1
<1> HIDE DEF c, c2
<1>5. /\ m = to
      /\ c.old_value[1] = "string" /\ m[1] = "string"
      /\ BothMoved(c) => c.new_from_a = c.new_from_b
      /\ IsAllowed(allowed, c.old_value[2], m[2])
  BY <1>4 DEF StateMachineMerge
<1>6. /\ Same(a2, a) \/ Same(a2, m)
      /\ Same(b2, b) \/ Same(b2, m)
      /\ o2 = o \/ (o = a /\ o2 = a2)
      /\ ~Same(o, a) \/ ~Same(o, b)
  BY DEF Repeats
<1>7. (Same(a, o) \/ Same(a, m)) /\ (Same(b, o) \/ Same(b, m))
  <2>1. ~Same(o, a) => Same(a, m)
    BY <1>1, <1>2, <1>5, SameIsEquivalence DEF Entry
  <2>2. ~Same(o, b) => Same(b, m)
    <3>1. CASE Same(o, a)
      BY <1>1, <1>2, <1>5, <3>1, SameIsEquivalence DEF Entry
    <3>2. CASE ~Same(o, a) /\ ~Same(o, b)
      BY <1>1, <1>2, <1>5, <3>2, SameIsEquivalence DEF Entry, BothMoved
    <3>3. QED
      BY <3>1, <3>2
  <2>3. QED
    BY <2>1, <2>2, SameIsEquivalence
<1>8. (Same(a2, o) \/ Same(a2, m)) /\ (Same(b2, o) \/ Same(b2, m))
  BY <1>1, <1>6, <1>7, SameIsEquivalence
<1>9. Same(o2, o)
  <2>1. CASE o2 # o /\ ~Same(o2, o)
    <3>1. o = a /\ o2 = a2 /\ Same(o2, m)
      BY <1>6, <1>8, <2>1
    <3>2. Same(b, m)
      BY <1>6, <1>7, <3>1, SameIsEquivalence
    <3>3. Same(b2, m)
      BY <1>1, <1>6, <3>2, SameIsEquivalence
    <3>4. Same(o2, b2)
      BY <1>1, <3>1, <3>3, SameIsEquivalence
    <3>5. QED
      BY <3>1, <3>4, SameIsEquivalence
  <2>2. QED
    BY <2>1, SameIsEquivalence
<1>10. /\ ~Same(o2, a2) => Same(a2, m)
       /\ ~Same(o2, b2) => Same(b2, m)
  BY <1>1, <1>8, <1>9, SameIsEquivalence
<1>11. /\ ~Same(o2, a2) => Same(c2.new_from_a, m)
       /\ ~Same(o2, b2) => Same(c2.new_from_b, m)
       /\ Same(c2.old_value, c.old_value)
  BY <1>1, <1>2, <1>3, <1>9, <1>10, SameIsEquivalence DEF Entry
<1>12. ~IsNumber(m) /\ ~IsNumber(c.old_value)
  BY <1>5 DEF IsNumber
<1>13. /\ ~Same(o2, a2) => c2.new_from_a = m
       /\ ~Same(o2, b2) => c2.new_from_b = m
       /\ c2.old_value = c.old_value
  BY <1>1, <1>2, <1>3, <1>11, <1>12, SameKind, SameIsEquivalence
<1>14. to2 = m
  BY <1>3, <1>13
<1>15. BothMoved(c2) => c2.new_from_a = c2.new_from_b
  BY <1>3, <1>13 DEF BothMoved
<1> HIDE DEF to2
<1>16. StateMachineMerge(allowed, c2) = m
  BY <1>5, <1>13, <1>14, <1>15 DEF StateMachineMerge, to2
<1>17. QED
  BY <1>1, <1>16, SameIsEquivalence DEF c2
\* What is the same as a number is a number, what is the same as an array is that
\* array.
LEMMA SameKeepsKind ==
    ASSUME NEW u \in Entry, NEW v \in Entry, Same(u, v)
    PROVE  /\ IsNumber(u) => IsNumber(v)
           /\ u[1] = "array" => v = u
<1>1. IsNumber(u) => AsJson(u) = u
  BY DEF Entry, AsJson, IsNumber, Absent
<1>2. u[1] = "array" => AsJson(u) = u /\ ~IsNumber(u)
  BY DEF Entry, AsJson, IsNumber, Absent
<1>3. AsJson(v) = v \/ AsJson(v) = Null
  BY DEF AsJson
<1> HIDE DEF Entry
<1>4. IsNumber(u) => IsNumber(v)
  BY <1>1, <1>3 DEF Same, IsNumber, Null
<1>5. u[1] = "array" => v = u
  BY <1>2, <1>3 DEF Same, Null
<1>6. QED
  BY <1>4, <1>5

\* Three numbers are three numbers again: Additive has no conflict the second
\* time.  (It counts the deltas that were pushed once more.)
LEMMA RepeatedAdditive ==
    ASSUME NEW m, NEW o, NEW a, NEW b, NEW o2, NEW a2, NEW b2,
           Repeats(m, o, a, b, o2, a2, b2), AdditiveMerge(ChangeOf(o, a, b)) = m
    PROVE  AdditiveMerge(ChangeOf(o2, a2, b2)) # None
<1> DEFINE c  == ChangeOf(o, a, b)
           c2 == ChangeOf(o2, a2, b2)
<1>1. m \in Entry /\ m # None /\ {o, a, b, o2, a2, b2} \subseteq Entry
  BY NoneIsNoValue DEF Repeats, Entry
<1>2. /\ c.old_value \in Value /\ Same(c.old_value, o)
      /\ NewA(c) \in Value /\ Same(NewA(c), a) /\ NewB(c) \in Value /\ Same(NewB(c), b)
      /\ c2.old_value \in Value /\ Same(c2.old_value, o2)
      /\ NewA(c2) \in Value /\ Same(NewA(c2), a2) /\ NewB(c2) \in Value /\ Same(NewB(c2), b2)
  BY <1>1, ChangeOfFacts
<1>3. AdditiveMerge(c) = m
  OBVIOUS
<1> HIDE DEF c, c2
<1>4. IsNumber(c.old_value) /\ IsNumber(NewA(c)) /\ IsNumber(NewB(c)) /\ IsNumber(m)
  BY <1>1, <1>3 DEF AdditiveMerge, FloatNumber, IsNumber
<1>5. IsNumber(o) /\ IsNumber(a) /\ IsNumber(b)
  BY <1>1, <1>2, <1>4, SameKeepsKind DEF Entry
<1>6. IsNumber(o2) /\ IsNumber(a2) /\ IsNumber(b2)
  BY <1>1, <1>4, <1>5, SameKeepsKind, SameIsEquivalence DEF Repeats
<1>7. IsNumber(c2.old_value) /\ IsNumber(NewA(c2)) /\ IsNumber(NewB(c2))
  BY <1>1, <1>2, <1>6, SameKeepsKind, SameIsEquivalence DEF Entry
<1>8. NewA(c2)[2] + NewB(c2)[2] - c2.old_value[2] \in Int
  BY <1>2, <1>7, ValueKinds
<1>9. FloatNumber(NewA(c2)[2] + NewB(c2)[2] - c2.old_value[2]) \in Value
  BY <1>8 DEF FloatNumber, Value, Number
<1>10. AdditiveMerge(c2) \in Value
  BY <1>7, <1>9 DEF AdditiveMerge
<1>11. QED
  BY <1>10, NoneIsNoValue DEF c2

\* Three arrays are three arrays again: neither has Append.
LEMMA RepeatedAppend ==
    ASSUME NEW m, NEW o, NEW a, NEW b, NEW o2, NEW a2, NEW b2,
           Repeats(m, o, a, b, o2, a2, b2), AppendMerge(ChangeOf(o, a, b)) = m,
           ~Same(o2, a2) \/ ~Same(o2, b2)
    PROVE  AppendMerge(ChangeOf(o2, a2, b2)) # None
<1> DEFINE c  == ChangeOf(o, a, b)
           c2 == ChangeOf(o2, a2, b2)
<1>1. m \in Entry /\ m # None /\ {o, a, b, o2, a2, b2} \subseteq Entry
  BY NoneIsNoValue DEF Repeats, Entry
<1>2. /\ c.old_value \in Value /\ Same(c.old_value, o)
      /\ NewA(c) \in Value /\ Same(NewA(c), a) /\ NewB(c) \in Value /\ Same(NewB(c), b)
      /\ c2.old_value \in Value /\ Same(c2.old_value, o2)
      /\ NewA(c2) \in Value /\ Same(NewA(c2), a2) /\ NewB(c2) \in Value /\ Same(NewB(c2), b2)
      /\ c2.new_from_a = None <=> Same(o2, a2)
      /\ c2.new_from_b = None <=> Same(o2, b2)
  BY <1>1, ChangeOfFacts
<1>3. AppendMerge(c) = m
  OBVIOUS
<1> HIDE DEF c, c2
<1>4. /\ c.old_value[1] = "array" /\ NewA(c)[1] = "array" /\ NewB(c)[1] = "array"
      /\ m[1] = "array"
  <2>1. c.old_value[1] = "array" /\ NewA(c)[1] = "array" /\ NewB(c)[1] = "array"
    BY <1>1, <1>3 DEF AppendMerge
  <2>2. CASE BothMoved(c)
    <3>1. \E q : m = JsonArray(q)
      BY <1>3, <2>1, <2>2 DEF AppendMerge
    <3>2. QED
      BY <2>1, <3>1 DEF JsonArray
  <2>3. CASE ~BothMoved(c)
    <3>1. m = IF c.new_from_a # None THEN c.new_from_a ELSE c.new_from_b
      BY <1>3, <2>1, <2>3 DEF AppendMerge
    <3>2. m = NewA(c) \/ m = NewB(c)
      BY <1>1, <3>1 DEF NewA, NewB
    <3>3. QED
      BY <2>1, <3>2
  <2>4. QED
    BY <2>2, <2>3
<1>5. o[1] = "array" /\ a[1] = "array" /\ b[1] = "array"
  BY <1>1, <1>2, <1>4, SameKeepsKind DEF Entry
<1>6. o2[1] = "array" /\ a2[1] = "array" /\ b2[1] = "array"
  BY <1>1, <1>4, <1>5, SameKeepsKind, SameIsEquivalence DEF Repeats
<1>7. c2.old_value[1] = "array" /\ NewA(c2)[1] = "array" /\ NewB(c2)[1] = "array"
  BY <1>1, <1>2, <1>6, SameKeepsKind, SameIsEquivalence DEF Entry
<1>8. CASE BothMoved(c2)
  <2> DEFINE old == c2.old_value[2]
             fromA == Additions(NewA(c2)[2], old)
             fromB == Additions(NewB(c2)[2], old)
  <2>1. old \in Seq(Items) /\ fromA \in Seq(Items) /\ fromB \in Seq(Items)
    BY <1>2, <1>7, ValueKinds, AdditionsType
  <2>2. AppendMerge(c2) = JsonArray(old \o fromA \o fromB)
    BY <1>7, <1>8 DEF AppendMerge
  <2> HIDE DEF old, fromA, fromB
  <2>3. old \o fromA \o fromB \in Seq(Items)
    BY <2>1
  <2>4. JsonArray(old \o fromA \o fromB) \in Value
    BY <2>3 DEF JsonArray, Value, Array
  <2>5. QED
    BY <2>2, <2>4, NoneIsNoValue DEF c2
<1>9. CASE ~BothMoved(c2)
  BY <1>2, <1>7, <1>9 DEF AppendMerge, c2
<1>10. QED
  BY <1>8, <1>9
=============================================================================
