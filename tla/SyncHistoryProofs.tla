------------------------- MODULE SyncHistoryProofs -------------------------
(***************************************************************************)
(* What a retry does, for every history of cycles, edits, failures and     *)
(* restarts, every document and every policy map: it repeats what it       *)
(* retries, but for what accumulates; and no delta of a counter and no     *)
(* item of a list is lost or counted twice as long as the cycles that      *)
(* write get to their commit.                                              *)
(***************************************************************************)
EXTENDS SyncHistory, SyncCycleProofs, FiniteSetTheorems, SequenceTheorems, FunctionTheorems

-----------------------------------------------------------------------------
(* The history variables constrain nothing, and have their types.          *)

\* How often an array holds an item is a number.
LEMMA OccurrencesType ==
    ASSUME NEW v, v[2] \in Seq(Items), NEW x
    PROVE  Occurrences(v, x) \in Nat
<1> DEFINE at == {i \in DOMAIN v[2] : v[2][i] = x}
<1>1. Len(v[2]) \in Nat /\ DOMAIN v[2] = 1..Len(v[2])
  OBVIOUS
<1>2. IsFiniteSet(1..Len(v[2]))
  BY <1>1, FS_Interval
<1>3. at \in SUBSET (1..Len(v[2]))
  BY <1>1
<1> HIDE DEF at
<1>4. IsFiniteSet(at)
  BY <1>2, <1>3, FS_Subset
<1>5. Cardinality(at) \in Nat
  BY <1>4, FS_CardinalityType
<1>6. QED
  BY <1>5 DEF Occurrences, at

Tally == [sum : Int, items : [Items -> Int]]

\* The contents of a value are numbers.
LEMMA ContentsType ==
    ASSUME NEW v \in Value \cup {Absent}
    PROVE  Contents(v) \in Tally
<1>1. CASE IsNumber(v)
  <2>1. v \in Value
    BY <1>1 DEF IsNumber, Absent
  <2>2. v[2] \in Int
    BY <1>1, <2>1, ValueKinds
  <2>3. Contents(v) = [sum |-> v[2], items |-> [x \in Items |-> 0]]
    BY <1>1 DEF Contents, IsNumber
  <2>4. QED
    BY <2>2, <2>3 DEF Tally
<1>2. CASE v[1] = "array"
  <2>1. v \in Value /\ ~IsNumber(v)
    BY <1>2 DEF Absent, IsNumber
  <2>2. \A x \in Items : Occurrences(v, x) \in Int
    BY <1>2, <2>1, ValueKinds, OccurrencesType
  <2>3. Contents(v) = [sum |-> 0, items |-> [x \in Items |-> Occurrences(v, x)]]
    BY <1>2, <2>1 DEF Contents
  <2>4. QED
    BY <2>2, <2>3 DEF Tally
<1>3. CASE ~IsNumber(v) /\ v[1] # "array"
  BY <1>3 DEF Contents, Tally
<1>4. QED
  BY <1>1, <1>2, <1>3

\* An edit leaves a tally a tally.
LEMMA ContributeType ==
    ASSUME NEW t \in Tally, NEW u \in Value \cup {Absent}, NEW v \in Value \cup {Absent}
    PROVE  Contribute(t, u, v) \in Tally
<1>1. Contents(u) \in Tally /\ Contents(v) \in Tally
  BY ContentsType
<1>2. QED
  BY <1>1 DEF Contribute, Tally

\* A step with its history is a step of the sync cycle.
LEMMA HistoryIsSilent ==
    /\ HInit => Init
    /\ [HNext]_hvars => [Next]_vars
<1>1. ASSUME NEW w \in Workers, HOther(w) PROVE Next
  BY <1>1 DEF HOther, Next, CycleStep
<1>2. ASSUME NEW w \in Workers, HCommit(w) \/ HFail(w) PROVE Next
  BY <1>2 DEF HCommit, HFail, Next, CycleStep
<1>3. ASSUME NEW w \in Workers, NEW s \in Sides, HPush(w, s) PROVE Next
  BY <1>3 DEF HPush, Next, CycleStep
<1>4. ASSUME NEW s \in Sides, HEdit(s) PROVE Next
  BY <1>4 DEF HEdit, Next
<1>5. HRestart => Next
  BY DEF HRestart, Next
<1>6. QED
  BY <1>1, <1>2, <1>3, <1>4, <1>5 DEF HInit, HNext, hvars

\* Every behaviour with histories is one of the cycle without.
LEMMA HistoryRefines == HSpec => Spec
  BY HistoryIsSilent, PTL DEF HSpec, Spec

\* What is in the systems, and what a worker pushes, are documents.
LEMMA StoredType ==
    ASSUME TypeOK
    PROVE  /\ \A s \in Sides : store[s] \in Record /\ store[s].doc \in Doc
           /\ \A w \in Workers : /\ merged[w] \in Doc /\ base[w] \in Doc
                                 /\ \A s \in Sides : view[w][s].doc \in Doc
           /\ policies \in PolicyMaps /\ IsPolicyMap(policies)
  BY PolicyMapsAssumption DEF TypeOK, Record

\* The type invariant of the history variables is inductive, given the other one.
LEMMA HistoryTypeStep ==
    ASSUME TypeOK, TypeOK', HistoryTypeOK, [HNext]_hvars
    PROVE  HistoryTypeOK'
<1>1. ASSUME NEW w \in Workers, HCommit(w) \/ HFail(w) \/ HOther(w) PROVE HistoryTypeOK'
  BY <1>1 DEF HCommit, HFail, HOther, HistoryTypeOK, histories, Writing
<1>2. ASSUME NEW w \in Workers, NEW s \in Sides, HPush(w, s) PROVE HistoryTypeOK'
  BY <1>2, StoredType DEF HPush, HistoryTypeOK
<1>3. ASSUME NEW s \in Sides, HEdit(s) PROVE HistoryTypeOK'
  <2>1. store[s].doc \in Doc /\ store'[s].doc \in Doc
    BY DEF TypeOK, Record
  <2>2. \A f \in Fields : Contribute(tally[f], store[s].doc[f], store'[s].doc[f]) \in Tally
    BY <2>1, ContributeType DEF HistoryTypeOK, Tally, Doc
  <2>3. tally' \in [Fields -> Tally]
    BY <1>3, <2>2 DEF HEdit
  <2>4. QED
    BY <1>3, <2>3 DEF HEdit, HistoryTypeOK, Tally, ViewOfBHeld
<1>4. HRestart => HistoryTypeOK'
  BY DEF HRestart, HistoryTypeOK, Writing
<1>5. UNCHANGED hvars => HistoryTypeOK'
  BY DEF hvars, histories, HistoryTypeOK
<1>6. QED
  BY <1>1, <1>2, <1>3, <1>4, <1>5 DEF HNext

\* The histories keep their types: sums and numbers of items are integers and
\* what a cycle was pushing is a document.
THEOREM HistoryTypeCorrect == HSpec => []HistoryTypeOK
<1>1. TypeOK /\ HInit => HistoryTypeOK
  <2> SUFFICES ASSUME TypeOK, HInit PROVE HistoryTypeOK
    OBVIOUS
  <2> DEFINE known(f) == IF ancestor = None THEN Absent ELSE ancestor[f]
  <2>1. \A f \in Fields : known(f) \in Value \cup {Absent}
    BY DEF TypeOK, Doc
  <2>2. tally = [f \in Fields |-> Contents(known(f))] /\ intent = None /\ interrupted = FALSE
    BY DEF HInit
  <2> HIDE DEF known
  <2>3. ASSUME NEW f \in Fields PROVE Contents(known(f)) \in Tally
    BY <2>1, ContentsType
  <2>4. QED
    BY <2>2, <2>3 DEF HistoryTypeOK, Tally
<1>2. TypeOK /\ TypeOK' /\ HistoryTypeOK /\ [HNext]_hvars => HistoryTypeOK'
  BY HistoryTypeStep
<1>3. QED
  BY <1>1, <1>2, HistoryRefines, TypeCorrect, PTL DEF HSpec

-----------------------------------------------------------------------------
(* A merge that is repeated.                                               *)

\* Whatever the policy, a path that is merged again is no conflict, and comes to
\* the same value if its policy does not accumulate.
LEMMA RepeatedMerge ==
    ASSUME NEW policy \in Policy \cup {NoPolicy},
           "last_write_wins" \in DOMAIN policy => policy.last_write_wins \in Sides,
           NEW m, NEW o, NEW a, NEW b, NEW o2, NEW a2, NEW b2,
           Repeats(m, o, a, b, o2, a2, b2),
           Merge(policy, ChangeOf(o, a, b)) = m,
           ~Same(o2, a2) \/ ~Same(o2, b2)
    PROVE  LET again == Merge(policy, ChangeOf(o2, a2, b2))
           IN  again # None /\ (Accumulates(policy) \/ Same(again, m))
<1> DEFINE c  == ChangeOf(o, a, b)
           c2 == ChangeOf(o2, a2, b2)
<1>1. m # None /\ Merge(policy, c) = m
  BY NoneIsNoValue DEF Repeats
<1> SUFFICES Merge(policy, c2) # None /\ (Accumulates(policy) \/ Same(Merge(policy, c2), m))
  OBVIOUS
<1> DEFINE owner == policy.owned_by
           allowed == policy.state_machine
           newer == policy.last_write_wins
<1>2. OwnedByMerge(owner, c) = m =>
        OwnedByMerge(owner, c2) # None /\ Same(OwnedByMerge(owner, c2), m)
  BY RepeatedOwnedBy
<1>3. AdditiveMerge(c) = m => AdditiveMerge(c2) # None
  BY RepeatedAdditive
<1>4. AppendMerge(c) = m => AppendMerge(c2) # None
  BY RepeatedAppend
<1>5. StateMachineMerge(allowed, c) = m =>
        StateMachineMerge(allowed, c2) # None /\ Same(StateMachineMerge(allowed, c2), m)
  BY RepeatedStateMachine
<1>6. newer \in Sides /\ LastWriteWinsMerge(newer, c) = m =>
        LastWriteWinsMerge(newer, c2) # None /\ Same(LastWriteWinsMerge(newer, c2), m)
  BY RepeatedLastWriteWins
<1> HIDE DEF c, c2
<1>7. CASE DOMAIN policy = {"owned_by"}
  BY <1>1, <1>2, <1>7, MergeByKind
<1>8. CASE DOMAIN policy = {"additive"}
  BY <1>1, <1>3, <1>8, MergeByKind DEF Accumulates
<1>9. CASE DOMAIN policy = {"append"}
  BY <1>1, <1>4, <1>9, MergeByKind DEF Accumulates
<1>10. CASE DOMAIN policy = {"state_machine"}
  BY <1>1, <1>5, <1>10, MergeByKind
<1>11. CASE DOMAIN policy = {"last_write_wins"}
  BY <1>1, <1>6, <1>11, MergeByKind
<1>12. CASE DOMAIN policy = {"no_policy"}
  BY <1>1, <1>12, MergeByKind
<1>13. QED
  BY <1>7, <1>8, <1>9, <1>10, <1>11, <1>12, MergeByKind

\* d has, at each path, the value of e or that of m.
Between(d, e, m) == \A f \in Fields : Same(d[f], e[f]) \/ Same(d[f], m[f])

\* The same for a whole document: merged again from the same ancestor, with each
\* side as it was or as it was to be, it has no conflict and comes to the same
\* values but for what accumulates.
LEMMA RepeatedCandidate ==
    ASSUME NEW map \in PolicyMaps, NoTies,
           NEW o \in Doc, NEW a \in Doc, NEW b \in Doc, Conflicts(map, o, a, b) = {},
           NEW m, m = Candidate(map, o, a, b),
           NEW o2 \in Doc, NEW a2 \in Doc, NEW b2 \in Doc,
           Between(a2, a, m), Between(b2, b, m), o2 = o \/ (o = a /\ o2 = a2)
    PROVE  /\ Conflicts(map, o2, a2, b2) = {}
           /\ AgreeElsewhere(map, Candidate(map, o2, a2, b2), m)
<1>1. ASSUME NEW p \in Doc, NEW d \in Doc, NEW e \in Doc, NEW f \in Fields
      PROVE  /\ FieldChange(p, d, e, f) = ChangeOf(p[f], d[f], e[f])
             /\ f \in Changes(p, d, e) <=> (~Same(p[f], d[f]) \/ ~Same(p[f], e[f]))
  BY DEF FieldChange, SideChange, Changed, Changes, ChangeOf
<1>2. ASSUME NEW f \in Fields
      PROVE  /\ {o[f], a[f], b[f], o2[f], a2[f], b2[f]} \subseteq Entry
             /\ Same(a2[f], a[f]) \/ Same(a2[f], m[f])
             /\ Same(b2[f], b[f]) \/ Same(b2[f], m[f])
             /\ o2[f] = o[f] \/ (o[f] = a[f] /\ o2[f] = a2[f])
  BY DEF Between, Doc, Entry
<1>3. ASSUME NEW f \in Fields, f \notin Changes(o, a, b)
      PROVE  m[f] = o[f] /\ Same(o2[f], o[f]) /\ f \notin Changes(o2, a2, b2)
  <2>1. m[f] = o[f] /\ Same(o[f], a[f]) /\ Same(o[f], b[f])
    BY <1>1, <1>3 DEF Candidate
  <2>2. Same(a2[f], o[f]) /\ Same(b2[f], o[f])
    BY <1>2, <2>1, SameIsEquivalence
  <2>3. Same(o2[f], o[f])
    BY <1>2, <2>2, SameIsEquivalence
  <2>4. Same(o2[f], a2[f]) /\ Same(o2[f], b2[f])
    BY <1>2, <2>2, <2>3, SameIsEquivalence
  <2>5. QED
    BY <1>1, <2>1, <2>3, <2>4
<1>4. ASSUME NEW f \in Fields, f \in Changes(o, a, b)
      PROVE  /\ Repeats(m[f], o[f], a[f], b[f], o2[f], a2[f], b2[f])
             /\ Merge(Lookup(map, f), ChangeOf(o[f], a[f], b[f])) = m[f]
  <2>1. m[f] = ResolveField(map, o, a, b, f) /\ m[f] # None
    BY <1>4 DEF Candidate, Conflicts
  <2>2. m[f] = Merge(Lookup(map, f), ChangeOf(o[f], a[f], b[f]))
    BY <1>1, <2>1 DEF ResolveField
  <2>3. m \in Doc
    BY CandidateType
  <2>4. m[f] \in Value
    <3>1. FieldChange(o, a, b, f) \in FieldChanges
      BY <1>4, FieldChangeType
    <3>2. QED
      BY <2>1, <3>1, MergeType DEF ResolveField
  <2>5. QED
    BY <1>1, <1>2, <1>4, <2>2, <2>4 DEF Repeats
<1>5. ASSUME NEW f \in Changes(o2, a2, b2)
      PROVE  /\ ResolveField(map, o2, a2, b2, f) # None
             /\ \/ Accumulates(Lookup(map, f))
                \/ Same(ResolveField(map, o2, a2, b2, f), m[f])
  <2>1. f \in Fields /\ f \in Changes(o, a, b)
    BY <1>3 DEF Changes, Changed
  <2>2. ~Same(o2[f], a2[f]) \/ ~Same(o2[f], b2[f])
    BY <1>1, <2>1
  <2> DEFINE policy == Lookup(map, f)
  <2>3. /\ policy \in Policy \cup {NoPolicy}
        /\ "last_write_wins" \in DOMAIN policy => policy.last_write_wins \in Sides
    BY <2>1, PolicyMapsAssumption, LookupType DEF NoTies
  <2>4. /\ Repeats(m[f], o[f], a[f], b[f], o2[f], a2[f], b2[f])
        /\ Merge(policy, ChangeOf(o[f], a[f], b[f])) = m[f]
    BY <1>4, <2>1
  <2>5. ResolveField(map, o2, a2, b2, f) = Merge(policy, ChangeOf(o2[f], a2[f], b2[f]))
    BY <1>1, <2>1 DEF ResolveField
  <2> HIDE DEF policy
  <2>6. LET again == Merge(policy, ChangeOf(o2[f], a2[f], b2[f]))
        IN  again # None /\ (Accumulates(policy) \/ Same(again, m[f]))
    BY <2>2, <2>3, <2>4, RepeatedMerge
  <2>7. QED
    BY <2>5, <2>6 DEF policy
<1>6. ASSUME NEW f \in Fields
      PROVE  Accumulates(Lookup(map, f)) \/ Same(Candidate(map, o2, a2, b2)[f], m[f])
  <2>1. CASE f \in Changes(o2, a2, b2)
    <3>1. Accumulates(Lookup(map, f)) \/ Same(ResolveField(map, o2, a2, b2, f), m[f])
      BY <1>5, <2>1
    <3>2. Candidate(map, o2, a2, b2)[f] = ResolveField(map, o2, a2, b2, f)
      BY <2>1 DEF Candidate
    <3>3. QED
      BY <3>1, <3>2
  <2>2. CASE f \notin Changes(o2, a2, b2)
    <3>1. Candidate(map, o2, a2, b2)[f] = o2[f]
      BY <2>2 DEF Candidate
    <3>2. Same(o2[f], m[f])
      <4>1. CASE f \in Changes(o, a, b)
        BY <1>1, <1>4, <2>2, <4>1, RepeatedChange
      <4>2. CASE f \notin Changes(o, a, b)
        BY <1>3, <4>2
      <4>3. QED
        BY <4>1, <4>2
    <3>3. QED
      BY <3>1, <3>2
  <2>3. QED
    BY <2>1, <2>2
<1>7. QED
  BY <1>5, <1>6 DEF Conflicts, AgreeElsewhere

-----------------------------------------------------------------------------
(* A cycle that is repeated.                                               *)

\* Where the cycle of w decides, its ancestor is still the stored one.
Based(w) == pc[w] = "decide" \/ HasDecided(w) => base[w] = AncestorView(w)

\* What it has decided is what its policies make of what it has read.
Decided(w) ==
    HasDecided(w) =>
        /\ CycleConflicts(w, policies) = {}
        /\ merged[w] = CycleCandidate(w, policies)
        /\ ApplyInvariants(base[w], merged[w]) # None

\* Until it decides, what it has read of an interrupted push is what is stored.
SeesStore(w) ==
    intent # None /\ ~HasDecided(w) =>
        \A s \in Sides : HasRead(w, s) => view[w][s].doc = store[s].doc

\* The pending push is what the policies make of o, a and b, accepted by the
\* tier-2 invariants; the ancestor is still that of the cycle that pushed, and
\* each side has at each path what that cycle read or what it pushed.
Planned(o, a, b) ==
    /\ Conflicts(policies, o, a, b) = {}
    /\ intent = Candidate(policies, o, a, b)
    /\ ApplyInvariants(o, intent) # None
    /\ o = IF ancestor = None THEN a ELSE ancestor
    /\ Between(store[SideA].doc, a, intent)
    /\ Between(store[SideB].doc, b, intent)

\* Why a retry repeats: all that the interrupted cycle was pushing still follows
\* from what is stored.
RetryInvariant ==
    /\ \A w \in Workers : Based(w) /\ Decided(w) /\ SeesStore(w)
    /\ intent # None => \E o, a, b \in Doc : Planned(o, a, b)

\* Invariants that only judge pass the candidate itself.
LEMMA JudgedCandidate ==
    ASSUME InvariantsOnlyJudge, TypeOK, NEW p \in Doc, NEW c \in Doc,
           ApplyInvariants(p, c) # None
    PROVE  ApplyInvariants(p, c) = c
<1>1. policies \in PolicyMaps
  BY DEF TypeOK
<1>2. AgreeElsewhere(policies, c, c)
  BY SameIsEquivalence DEF AgreeElsewhere
<1>3. QED
  BY <1>1, <1>2 DEF InvariantsOnlyJudge

\* A step of the cycle of w keeps what is known of it.
LEMMA OtherKeepsCycle ==
    ASSUME InvariantsOnlyJudge, TypeOK, NEW w \in Workers,
           Based(w), Decided(w), SeesStore(w), HOther(w)
    PROVE  (Based(w) /\ Decided(w) /\ SeesStore(w))'
<1>1. UNCHANGED <<policies, ancestor, store, intent>>
  BY DEF HOther, histories, StartCycle, ReadSide, NotFound, NoOp, ReadAncestor, Escalate,
         RejectCandidate, Decide, PushDuplicate, PushStale
<1>2. CASE pc'[w] \in {"idle", "read_a"}
  BY <1>2 DEF Based, Decided, SeesStore, HasDecided, HasRead
<1>3. ASSUME NEW s \in Sides, ReadSide(w, s)
      PROVE  (Based(w) /\ Decided(w) /\ SeesStore(w))'
  <2>1. pc'[w] \in {"read_b", "read_ancestor"}
    BY <1>3 DEF ReadSide, GoTo, TypeOK
  <2>2. ASSUME NEW t \in Sides, HasRead(w, t)', intent' # None
        PROVE  view'[w][t].doc = store'[t].doc
    <3>1. CASE t = s
      BY <1>1, <1>3, <3>1 DEF ReadSide, TypeOK
    <3>2. CASE t # s
      <4>1. pc[w] = "read_b" /\ HasRead(w, t)
        BY <1>3, <2>2, <3>2 DEF ReadSide, ReadPC, GoTo, HasRead, Sides, SideA, SideB, TypeOK
      <4>2. view'[w][t] = view[w][t]
        BY <1>3, <3>2 DEF ReadSide, TypeOK
      <4>3. QED
        BY <1>1, <2>2, <4>1, <4>2 DEF SeesStore, HasDecided
    <3>3. QED
      BY <3>1, <3>2
  <2>3. QED
    BY <2>1, <2>2 DEF Based, Decided, SeesStore, HasDecided
<1>4. CASE ReadAncestor(w)
  <2>1. /\ pc[w] = "read_ancestor" /\ pc'[w] = "decide" /\ view' = view
        /\ base'[w] = AncestorView(w)
    BY <1>4 DEF ReadAncestor, GoTo, TypeOK
  <2>2. AncestorView(w)' = AncestorView(w)
    BY <1>1, <2>1 DEF AncestorView
  <2>3. QED
    BY <1>1, <2>1, <2>2 DEF Based, Decided, SeesStore, HasDecided, HasRead
<1>5. CASE Decide(w)
  <2> DEFINE m == ApplyInvariants(base[w], CycleCandidate(w, policies))
  <2>1. /\ pc[w] = "decide" /\ HasDecided(w)' /\ view' = view /\ base' = base
        /\ merged'[w] = m /\ m # None /\ CycleConflicts(w, policies) = {}
    BY <1>5 DEF Decide, GoTo, AfterMerge, AfterPushA, HasDecided, TypeOK
  <2>2. base[w] \in Doc /\ view[w][SideA].doc \in Doc /\ view[w][SideB].doc \in Doc
    BY StoredType DEF Sides
  <2>3. m = CycleCandidate(w, policies)
    <3>1. CycleCandidate(w, policies) \in Doc
      BY <2>1, <2>2, CandidateType DEF CycleCandidate, CycleConflicts
    <3>2. QED
      BY <2>1, <2>2, <3>1, JudgedCandidate
  <2> HIDE DEF m
  <2>4. ApplyInvariants(base[w], m) # None
    BY <2>1, <2>3 DEF m
  <2>5. /\ CycleCandidate(w, policies)' = CycleCandidate(w, policies)
        /\ CycleConflicts(w, policies)' = CycleConflicts(w, policies)
        /\ AncestorView(w)' = AncestorView(w)
    BY <1>1, <2>1 DEF CycleCandidate, CycleConflicts, AncestorView
  <2>6. QED
    BY <1>1, <2>1, <2>3, <2>4, <2>5 DEF Based, Decided, SeesStore
<1>6. ASSUME NEW s \in Sides, PushDuplicate(w, s)
      PROVE  (Based(w) /\ Decided(w) /\ SeesStore(w))'
  <2>1. HasDecided(w) /\ HasDecided(w)' /\ UNCHANGED <<view, base, merged>>
    BY <1>6 DEF PushDuplicate, AfterPush, AfterPushA, GoTo, PushPC, HasDecided, locals, TypeOK
  <2>2. QED
    BY <1>1, <2>1 DEF Based, Decided, SeesStore, CycleCandidate, CycleConflicts, AncestorView
<1>7. QED
  <2>1. CASE StartCycle(w) \/ NoOp(w) \/ Escalate(w) \/ RejectCandidate(w)
    BY <1>2, <2>1 DEF StartCycle, NoOp, Escalate, RejectCandidate, GoTo, Return, TypeOK
  <2>2. ASSUME NEW s \in Sides, NotFound(w, s) \/ PushStale(w, s)
        PROVE  (Based(w) /\ Decided(w) /\ SeesStore(w))'
    BY <1>2, <2>2 DEF NotFound, PushStale, Return, TypeOK
  <2>3. QED
    BY <1>3, <1>4, <1>5, <1>6, <2>1, <2>2 DEF HOther

\* So does every step: of another worker there is none.
LEMMA StepKeepsCycle ==
    ASSUME InvariantsOnlyJudge, OneCycleAtATime, TypeOK, NEW w \in Workers,
           Based(w), Decided(w), SeesStore(w), [HNext]_hvars
    PROVE  (Based(w) /\ Decided(w) /\ SeesStore(w))'
<1> DEFINE Goal == (Based(w) /\ Decided(w) /\ SeesStore(w))'
<1>1. ASSUME NEW v \in Workers PROVE v = w
  BY DEF OneCycleAtATime
<1>2. ASSUME pc'[w] = "idle" PROVE Goal
  BY <1>2 DEF Based, Decided, SeesStore, HasDecided, HasRead
<1>3. CASE HCommit(w) \/ HFail(w) \/ HRestart
  <2>1. pc'[w] = "idle"
    BY <1>3 DEF HCommit, HFail, HRestart, Commit, Fail, Restart, Return, TypeOK
  <2>2. QED
    BY <1>2, <2>1
<1>4. ASSUME NEW s \in Sides, HPush(w, s) PROVE Goal
  <2>1. CASE PushResponseLost(w, s)
    <3>1. pc'[w] = "idle"
      BY <2>1 DEF PushResponseLost, Return, TypeOK
    <3>2. QED
      BY <1>2, <3>1
  <2>2. CASE PushApplied(w, s)
    <3>1. /\ HasDecided(w) /\ HasDecided(w)'
          /\ UNCHANGED <<policies, ancestor, view, base, merged>>
      BY <2>2 DEF PushApplied, WritePush, AfterPush, AfterPushA, GoTo, PushPC, HasDecided,
                  locals, TypeOK
    <3>2. QED
      BY <3>1 DEF Based, Decided, SeesStore, CycleCandidate, CycleConflicts, AncestorView
  <2>3. QED
    BY <1>4, <2>1, <2>2 DEF HPush
<1>5. ASSUME NEW s \in Sides, HEdit(s) PROVE Goal
  <2>1. intent' = None /\ UNCHANGED <<policies, ancestor, pc, view, base, merged>>
    BY <1>5 DEF HEdit, AppEdit, locals
  <2>2. QED
    BY <2>1 DEF Based, Decided, SeesStore, HasDecided, CycleCandidate, CycleConflicts, AncestorView
<1>6. CASE UNCHANGED hvars
  BY <1>6 DEF hvars, vars, locals, histories, Based, Decided, SeesStore, HasDecided, HasRead,
              CycleCandidate, CycleConflicts, AncestorView
<1>7. CASE HOther(w)
  BY <1>7, OtherKeepsCycle
<1> HIDE DEF Goal
<1>8. QED
  BY <1>1, <1>3, <1>4, <1>5, <1>6, <1>7 DEF HNext, Goal

\* A write leaves at each path what was there or what is pushed.
LEMMA WrittenBetween ==
    ASSUME NEW r \in Record, NEW m \in Doc, NEW f \in Fields
    PROVE  Written(r, m, idempotency_key(m)).doc[f] \in {r.doc[f], m[f]}
  BY DEF Written, ShallowMerge

\* A push is pending only where it follows from what is stored.
LEMMA PushPlans ==
    ASSUME TypeOK, NEW w \in Workers, Based(w), Decided(w), NEW s \in Sides, HPush(w, s),
           intent' # None, NEW CONSTANT o, NEW CONSTANT a, NEW CONSTANT b,
           o = base[w], a = view[w][SideA].doc, b = view[w][SideB].doc
    PROVE  Planned(o, a, b)'
<1>1. /\ HasDecided(w) /\ UNCHANGED <<policies, ancestor>> /\ intent' = merged[w]
      /\ \A t \in Sides : Unmoved(w, t)
      /\ store' = [store EXCEPT ![s] = Written(store[s], merged[w], idempotency_key(merged[w]))]
  BY DEF HPush, PushApplied, PushResponseLost, WritePush, Store, PushPC, HasDecided
<1>2. ASSUME NEW t \in Sides
      PROVE  Between(store'[t].doc, view[w][t].doc, merged[w])
  <2>1. store[t] \in Record /\ merged[w] \in Doc
    BY DEF TypeOK
  <2>2. ASSUME NEW f \in Fields
        PROVE  store'[t].doc[f] \in {store[t].doc[f], merged[w][f]}
    BY <1>1, <2>1, WrittenBetween DEF TypeOK
  <2>3. Between(store[t].doc, view[w][t].doc, merged[w])
    BY <1>1 DEF Unmoved, Between, Agree
  <2>4. QED
    BY <2>2, <2>3, SameIsEquivalence DEF Between
<1>3. base[w] = AncestorView(w)
  BY <1>1 DEF Based
<1>4. /\ Conflicts(policies, base[w], view[w][SideA].doc, view[w][SideB].doc) = {}
      /\ merged[w] = Candidate(policies, base[w], view[w][SideA].doc, view[w][SideB].doc)
      /\ ApplyInvariants(base[w], merged[w]) # None
  BY <1>1 DEF Decided, CycleConflicts, CycleCandidate
<1>5. SideA \in Sides /\ SideB \in Sides
  BY DEF Sides
<1>6. QED
  BY <1>1, <1>2, <1>3, <1>4, <1>5 DEF Planned, AncestorView

\* A pending push stays one until it is committed, overtaken by an edit or lost.
LEMMA StepKeepsPlan ==
    ASSUME TypeOK, RetryInvariant, [HNext]_hvars, intent' # None
    PROVE  \E o, a, b \in Doc : Planned(o, a, b)'
<1> DEFINE Goal == \E o, a, b \in Doc : Planned(o, a, b)'
<1>1. ASSUME UNCHANGED <<policies, ancestor, intent, store>> PROVE Goal
  <2>1. PICK o \in Doc, a \in Doc, b \in Doc : Planned(o, a, b)
    BY <1>1 DEF RetryInvariant
  <2>2. Planned(o, a, b)'
    BY <1>1, <2>1 DEF Planned
  <2>3. QED
    BY <2>2
<1>2. ASSUME NEW w \in Workers, HOther(w) PROVE Goal
  BY <1>1, <1>2 DEF HOther, histories, StartCycle, ReadSide, NotFound, NoOp, ReadAncestor,
                    Escalate, RejectCandidate, Decide, PushDuplicate, PushStale
<1>3. ASSUME NEW w \in Workers, HCommit(w) \/ HFail(w) PROVE Goal
  BY <1>1, <1>3 DEF HCommit, HFail, Fail
<1>4. ASSUME NEW w \in Workers, NEW s \in Sides, HPush(w, s) PROVE Goal
  <2> DEFINE o == base[w]
             a == view[w][SideA].doc
             b == view[w][SideB].doc
  <2>1. o \in Doc /\ a \in Doc /\ b \in Doc
    BY StoredType DEF Sides
  <2>2. Based(w) /\ Decided(w)
    BY DEF RetryInvariant
  <2>3. \A p, d, e \in Doc : p = o /\ d = a /\ e = b => Planned(p, d, e)'
    BY <1>4, <2>2, PushPlans
  <2> HIDE DEF o, a, b
  <2>4. QED
    BY <2>1, <2>3
<1>5. ASSUME NEW s \in Sides, HEdit(s) PROVE Goal
  BY <1>5 DEF HEdit
<1>6. CASE HRestart
  BY <1>1, <1>6 DEF HRestart, Restart
<1>7. CASE UNCHANGED hvars
  BY <1>1, <1>7 DEF hvars, vars, histories
<1> HIDE DEF Goal
<1>8. QED
  BY <1>2, <1>3, <1>4, <1>5, <1>6, <1>7 DEF HNext, Goal

\* The invariant is inductive, given the type invariant.
LEMMA RetryInvariantStep ==
    ASSUME InvariantsOnlyJudge, OneCycleAtATime, TypeOK, RetryInvariant, [HNext]_hvars
    PROVE  RetryInvariant'
<1>1. \A w \in Workers : (Based(w) /\ Decided(w) /\ SeesStore(w))'
  BY StepKeepsCycle DEF RetryInvariant
<1>2. intent' # None => \E o, a, b \in Doc : Planned(o, a, b)'
  BY StepKeepsPlan
<1>3. QED
  BY <1>1, <1>2 DEF RetryInvariant

\* A retry merges without a conflict, is accepted by the invariants, and comes to
\* what was being pushed.
LEMMA RetriedMerge ==
    ASSUME InvariantsOnlyJudge, NoTies, TypeOK, RetryInvariant, NEW w \in Workers,
           pc[w] = "decide", intent # None
    PROVE  /\ CycleConflicts(w, policies) = {}
           /\ ApplyInvariants(base[w], CycleCandidate(w, policies)) = CycleCandidate(w, policies)
           /\ AgreeElsewhere(policies, CycleCandidate(w, policies), intent)
<1> DEFINE o2 == base[w]
           a2 == view[w][SideA].doc
           b2 == view[w][SideB].doc
<1>1. o2 \in Doc /\ a2 \in Doc /\ b2 \in Doc /\ policies \in PolicyMaps
  BY StoredType DEF Sides
<1>2. PICK o \in Doc, a \in Doc, b \in Doc : Planned(o, a, b)
  BY DEF RetryInvariant
<1>3. o2 = AncestorView(w)
  BY DEF RetryInvariant, Based
<1>4. a2 = store[SideA].doc /\ b2 = store[SideB].doc
  BY DEF RetryInvariant, SeesStore, HasDecided, HasRead, Sides, SideA, SideB
<1>5. /\ Conflicts(policies, o, a, b) = {} /\ intent = Candidate(policies, o, a, b)
      /\ ApplyInvariants(o, intent) # None
      /\ Between(a2, a, intent) /\ Between(b2, b, intent)
      /\ o2 = o \/ (o = a /\ o2 = a2)
  BY <1>2, <1>3, <1>4 DEF Planned, AncestorView
<1>6. intent \in Doc
  BY <1>5, CandidateType
<1>7. CycleConflicts(w, policies) = Conflicts(policies, o2, a2, b2)
      /\ CycleCandidate(w, policies) = Candidate(policies, o2, a2, b2)
  BY DEF CycleConflicts, CycleCandidate
<1> HIDE DEF o2, a2, b2
<1>8. /\ Conflicts(policies, o2, a2, b2) = {}
      /\ AgreeElsewhere(policies, Candidate(policies, o2, a2, b2), intent)
  BY <1>1, <1>5, RepeatedCandidate
<1> DEFINE again == Candidate(policies, o2, a2, b2)
<1>9. again \in Doc
  BY <1>1, <1>8, CandidateType
<1>10. AgreeElsewhere(policies, again, intent)
  BY <1>8
<1> HIDE DEF again
<1>11. ApplyInvariants(o2, again) = again
  BY <1>1, <1>5, <1>6, <1>9, <1>10 DEF InvariantsOnlyJudge
<1>12. QED
  BY <1>7, <1>8, <1>10, <1>11 DEF again, o2

\* A cycle that is about to decide and does not fail decides, escalates or rejects.
LEMMA WhatARetryDoes ==
    ASSUME OneCycleAtATime, TypeOK, NEW w \in Workers, [HNext]_hvars, Retries(w)
    PROVE  Escalate(w) \/ RejectCandidate(w) \/ Decide(w)
<1>1. pc[w] = "decide" /\ pc'[w] # pc[w] /\ faults' = faults /\ faults \in Nat
  BY DEF Retries, TypeOK
<1>2. ASSUME NEW v \in Workers PROVE v = w
  BY DEF OneCycleAtATime
<1>3. CASE HOther(w)
  BY <1>1, <1>3 DEF HOther, StartCycle, ReadSide, NotFound, NoOp, ReadAncestor, PushDuplicate,
                    PushStale, ReadPC, PushPC
<1>4. CASE HCommit(w) \/ HFail(w)
  BY <1>1, <1>4 DEF HCommit, HFail, Commit, Fail
<1>5. ASSUME NEW s \in Sides, HPush(w, s) PROVE FALSE
  BY <1>1, <1>5 DEF HPush, PushApplied, PushResponseLost, WritePush, PushPC
<1>6. ASSUME NEW s \in Sides, HEdit(s) PROVE FALSE
  BY <1>1, <1>6 DEF HEdit, AppEdit
<1>7. CASE HRestart
  BY <1>1, <1>7 DEF HRestart, Restart
<1>8. CASE UNCHANGED hvars
  BY <1>1, <1>8 DEF hvars, vars
<1>9. QED
  BY <1>2, <1>3, <1>4, <1>5, <1>6, <1>7, <1>8 DEF HNext

\* The step of a retry.
LEMMA RetryRepeats ==
    ASSUME InvariantsOnlyJudge, NoTies, OneCycleAtATime, TypeOK, RetryInvariant,
           NEW w \in Workers, [HNext]_hvars, Retries(w)
    PROVE  pc'[w] # "idle" /\ AgreeElsewhere(policies, merged'[w], intent)
<1>1. pc[w] = "decide" /\ intent # None
  BY DEF Retries
<1>2. /\ CycleConflicts(w, policies) = {}
      /\ ApplyInvariants(base[w], CycleCandidate(w, policies)) = CycleCandidate(w, policies)
      /\ AgreeElsewhere(policies, CycleCandidate(w, policies), intent)
  BY <1>1, RetriedMerge
<1>3. CycleCandidate(w, policies) \in Doc
  BY <1>2, StoredType, CandidateType DEF CycleConflicts, CycleCandidate, Sides
<1>4. Decide(w)
  BY <1>2, <1>3, WhatARetryDoes, NoneIsNoValue DEF Escalate, RejectCandidate
<1>5. merged'[w] = CycleCandidate(w, policies)
  BY <1>2, <1>4 DEF Decide, TypeOK
<1>6. pc'[w] # "idle"
  BY <1>4 DEF Decide, GoTo, AfterMerge, AfterPushA, TypeOK
<1>7. QED
  BY <1>2, <1>5, <1>6

\* The invariant holds, whatever is edited, fails or restarts.
LEMMA RetryInvariantHolds ==
    ASSUME InvariantsOnlyJudge, OneCycleAtATime
    PROVE  HSpec => [](TypeOK /\ RetryInvariant)
<1>1. HInit => RetryInvariant
  BY DEF HInit, Init, RetryInvariant, Based, Decided, SeesStore, HasDecided
<1>2. TypeOK /\ RetryInvariant /\ [HNext]_hvars => RetryInvariant'
  BY RetryInvariantStep
<1>3. QED
  BY <1>1, <1>2, HistoryRefines, TypeCorrect, PTL DEF HSpec

\* A cycle that was cut short after a write is repeated by the next one: with no
\* edit in between it comes to no conflict, and to the same values at every path
\* whose policy does not accumulate.  Each hypothesis is needed: two cycles that
\* race may push different documents, timestamps that tie make a conflict of the
\* value that B has not got yet, and a tier-2 invariant may reject its own work.
THEOREM RetriesRepeat ==
    ASSUME OneCycleAtATime, NoTies, InvariantsOnlyJudge
    PROVE  HSpec => RetryIdempotentUnlessAccumulating
<1>1. TypeOK /\ RetryInvariant /\ [HNext]_hvars =>
        [\A w \in Workers :
            Retries(w) => pc'[w] # "idle" /\ AgreeElsewhere(policies, merged'[w], intent)]_hvars
  BY RetryRepeats
<1>2. QED
  BY <1>1, RetryInvariantHolds, PTL DEF HSpec, RetryIdempotentUnlessAccumulating

\* "Every earlier step retries idempotently" is so for a host that declares no
\* Additive and no Append.
THEOREM RetriesAreIdempotent ==
    ASSUME OneCycleAtATime, NoTies, InvariantsOnlyJudge,
           \A map \in PolicyMaps, f \in Fields : ~Accumulates(Lookup(map, f))
    PROVE  HSpec => RetryIdempotent
<1>1. TypeOK /\ RetryInvariant /\ [HNext]_hvars =>
        [\A w \in Workers : Retries(w) => pc'[w] # "idle" /\ Agree(merged'[w], intent)]_hvars
  <2> SUFFICES ASSUME TypeOK, RetryInvariant, [HNext]_hvars, NEW w \in Workers, Retries(w)
               PROVE  pc'[w] # "idle" /\ Agree(merged'[w], intent)
    OBVIOUS
  <2>1. pc'[w] # "idle" /\ AgreeElsewhere(policies, merged'[w], intent)
    BY RetryRepeats
  <2>2. QED
    BY <2>1 DEF AgreeElsewhere, Agree, TypeOK
<1>2. QED
  BY <1>1, RetryInvariantHolds, PTL DEF HSpec, RetryIdempotent

-----------------------------------------------------------------------------
(* What is conserved.                                                      *)

\* t is what a and b hold together beyond o.
Linear(t, a, b, o) ==
    /\ t.sum = Contents(a).sum + Contents(b).sum - Contents(o).sum
    /\ \A x \in Items :
          t.items[x] = Contents(a).items[x] + Contents(b).items[x] - Contents(o).items[x]

\* The value a is o with items of mine at its end, or no list has ever been here.
Extends(mine, o, a) ==
    IF o[1] = "array" THEN a[1] = "array" /\ Grown(o[2], a[2], mine) ELSE Same(a, o)

\* What the applications put in is in the two sides, counted from the ancestor o.
Balanced(own, policy, t, a, b, o) ==
    /\ Linear(t, a, b, o)
    /\ "append" \in DOMAIN policy => Extends(own[SideA], o, a) /\ Extends(own[SideB], o, b)

\* The value a may be what the application makes of u.
Later(mine, policy, u, a) ==
    \/ a = u
    \/ "additive" \in DOMAIN policy /\ a[1] = "int"
    \/ "append" \in DOMAIN policy /\ Extends(mine, u, a)

\* What a cycle makes of a path, changed or not.
MergedValue(policy, o, a, b) ==
    IF Same(o, a) /\ Same(o, b) THEN o ELSE Merge(policy, ChangeOf(o, a, b))

-----------------------------------------------------------------------------
(* Sequences that grow at their end.                                       *)

\* What has not changed has grown by nothing.
LEMMA GrownItself ==
    ASSUME NEW q \in Seq(Items), NEW mine
    PROVE  Grown(q, q, mine)
  BY DEF Grown

\* What has grown twice has grown.
LEMMA GrownTransitive ==
    ASSUME NEW p \in Seq(Items), NEW q \in Seq(Items), NEW r \in Seq(Items), NEW mine,
           Grown(p, q, mine), Grown(q, r, mine)
    PROVE  Grown(p, r, mine)
<1>1. Len(p) \in Nat /\ Len(q) \in Nat /\ Len(r) \in Nat /\ Len(p) <= Len(q) /\ Len(q) <= Len(r)
  BY DEF Grown
<1>2. \A i \in 1..Len(p) : i \in 1..Len(q) /\ q[i] = p[i] /\ r[i] = q[i]
  BY <1>1 DEF Grown
<1>3. ASSUME NEW i \in (Len(p) + 1)..Len(r)
      PROVE  r[i] \in mine \ {p[j] : j \in 1..Len(p)}
  <2>1. CASE i <= Len(q)
    <3>1. i \in (Len(p) + 1)..Len(q) /\ i \in 1..Len(q)
      BY <1>1, <2>1
    <3>2. r[i] = q[i] /\ q[i] \in mine \ {p[j] : j \in 1..Len(p)}
      BY <3>1 DEF Grown
    <3>3. QED
      BY <3>2
  <2>2. CASE i > Len(q)
    <3>1. i \in (Len(q) + 1)..Len(r)
      BY <1>1, <2>2
    <3>2. r[i] \in mine \ {q[j] : j \in 1..Len(q)}
      BY <3>1 DEF Grown
    <3>3. {p[j] : j \in 1..Len(p)} \subseteq {q[j] : j \in 1..Len(q)}
      BY <1>2
    <3>4. QED
      BY <3>2, <3>3
  <2>3. QED
    BY <1>1, <2>1, <2>2
<1>4. \A i \in 1..Len(p) : r[i] = p[i]
  BY <1>2
<1>5. QED
  BY <1>1, <1>3, <1>4 DEF Grown

\* A sequence that both sides may have grown, each by its own items, is one that
\* neither has.
LEMMA GrownByNobody ==
    ASSUME NEW q \in Seq(Items), NEW r \in Seq(Items), NEW mine, NEW yours,
           mine \cap yours = {}, Grown(q, r, mine), Grown(q, r, yours)
    PROVE  r = q
<1>1. Len(q) \in Nat /\ Len(r) \in Nat /\ Len(q) <= Len(r)
  BY DEF Grown
<1>2. CASE Len(q) < Len(r)
  <2>1. Len(r) \in (Len(q) + 1)..Len(r)
    BY <1>1, <1>2
  <2>2. r[Len(r)] \in mine /\ r[Len(r)] \in yours
    BY <2>1 DEF Grown
  <2>3. QED
    BY <2>2
<1>3. CASE Len(q) = Len(r)
  <2>1. \A i \in 1..Len(r) : r[i] = q[i]
    BY <1>3 DEF Grown
  <2>2. QED
    BY <1>3, <2>1, SeqEqual
<1>4. QED
  BY <1>1, <1>2, <1>3

\* The places of x in a concatenation are those in its two parts.
LEMMA OccurrencesOfConcat ==
    ASSUME NEW p \in Seq(Items), NEW q \in Seq(Items), NEW x
    PROVE  Occurrences(JsonArray(p \o q), x)
             = Occurrences(JsonArray(p), x) + Occurrences(JsonArray(q), x)
<1> DEFINE inP == {i \in 1..Len(p) : p[i] = x}
           inQ == {i \in 1..Len(q) : q[i] = x}
           moved == {i \in (Len(p) + 1)..(Len(p) + Len(q)) : q[i - Len(p)] = x}
           shift == [i \in inQ |-> i + Len(p)]
<1>1. Len(p) \in Nat /\ Len(q) \in Nat
  OBVIOUS
<1>2. /\ p \o q \in Seq(Items) /\ Len(p \o q) = Len(p) + Len(q)
      /\ \A i \in 1..(Len(p) + Len(q)) :
            (p \o q)[i] = IF i <= Len(p) THEN p[i] ELSE q[i - Len(p)]
  BY ConcatProperties
<1>3. {i \in DOMAIN (p \o q) : (p \o q)[i] = x} = inP \cup moved
  <2>1. DOMAIN (p \o q) = 1..(Len(p) + Len(q))
    BY <1>2
  <2>2. QED
    BY <1>1, <1>2, <2>1
<1>4. IsFiniteSet(inP) /\ IsFiniteSet(inQ)
  <2>1. IsFiniteSet(1..Len(p)) /\ IsFiniteSet(1..Len(q))
    BY <1>1, FS_Interval
  <2>2. inP \in SUBSET (1..Len(p)) /\ inQ \in SUBSET (1..Len(q))
    OBVIOUS
  <2> HIDE DEF inP, inQ
  <2>3. QED
    BY <2>1, <2>2, FS_Subset
<1>5. shift \in Bijection(inQ, moved)
  <2>1. shift \in [inQ -> moved]
    BY <1>1
  <2>2. \A i, j \in inQ : shift[i] = shift[j] => i = j
    BY <1>1
  <2>3. \A k \in moved : \E i \in inQ : shift[i] = k
    <3> SUFFICES ASSUME NEW k \in moved PROVE \E i \in inQ : shift[i] = k
      OBVIOUS
    <3>1. k - Len(p) \in inQ
      BY <1>1
    <3>2. shift[k - Len(p)] = k
      BY <1>1, <3>1
    <3>3. QED
      BY <3>1, <3>2
  <2> HIDE DEF inQ, moved, shift
  <2>4. QED
    BY <2>1, <2>2, <2>3, Fun_IsBij
<1>6. inP \cap moved = {}
  BY <1>1
<1>7. Occurrences(JsonArray(p \o q), x) = Cardinality(inP \cup moved)
  BY <1>3 DEF Occurrences, JsonArray
<1>8. Occurrences(JsonArray(p), x) = Cardinality(inP)
  <2>1. DOMAIN p = 1..Len(p)
    OBVIOUS
  <2>2. QED
    BY <2>1 DEF Occurrences, JsonArray
<1>9. Occurrences(JsonArray(q), x) = Cardinality(inQ)
  <2>1. DOMAIN q = 1..Len(q)
    OBVIOUS
  <2>2. QED
    BY <2>1 DEF Occurrences, JsonArray
<1> HIDE DEF inP, inQ, moved, shift
<1>10. IsFiniteSet(moved) /\ Cardinality(moved) = Cardinality(inQ)
  BY <1>4, <1>5, FS_Bijection DEF ExistsBijection
<1>11. Cardinality(inP \cup moved) = Cardinality(inP) + Cardinality(moved)
  <2>1. Cardinality(inP \cap moved) = 0
    BY <1>6, FS_EmptySet
  <2>2. Cardinality(inP) \in Nat /\ Cardinality(moved) \in Nat
    BY <1>4, <1>10, FS_CardinalityType
  <2>3. Cardinality(inP \cup moved)
          = Cardinality(inP) + Cardinality(moved) - Cardinality(inP \cap moved)
    BY <1>4, <1>10, FS_Union, Zenon
  <2>4. QED
    BY <2>1, <2>2, <2>3
<1>12. QED
  BY <1>7, <1>8, <1>9, <1>10, <1>11

\* g is what a prefix of a, of length i, has behind its first n items.
IsTail(g, a, n, i) ==
    /\ g \in Seq(Items)
    /\ Len(g) = IF i <= n THEN 0 ELSE i - n
    /\ \A j \in 1..Len(g) : g[j] = a[n + j]

\* Of an array that has grown, Append takes what it has grown by.
LEMMA AdditionsOfGrown ==
    ASSUME NEW o \in Seq(Items), NEW a \in Seq(Items), NEW mine, Grown(o, a, mine)
    PROVE  a = o \o Additions(a, o)
<1> DEFINE New == NewTo(o)
           n == Len(o)
<1>1. PICK f : Additions(a, o) = f[Len(a)] /\ TakesByPrefix(f, a, New)
  BY AdditionsByPrefix
<1>2. n \in Nat /\ Len(a) \in Nat /\ n <= Len(a)
  BY DEF Grown
<1>3. ASSUME NEW i \in 1..Len(a) PROVE a[i] \in Items /\ (a[i] \in New <=> i > n)
  <2>1. a[i] \in Items
    OBVIOUS
  <2>2. DOMAIN o = 1..n
    OBVIOUS
  <2>3. CASE i <= n
    BY <1>2, <2>2, <2>3 DEF Grown, NewTo
  <2>4. CASE i > n
    <3>1. i \in (n + 1)..Len(a)
      BY <1>2, <2>4
    <3>2. a[i] \notin {o[j] : j \in 1..n}
      BY <3>1 DEF Grown
    <3>3. QED
      BY <2>1, <2>2, <2>4, <3>2 DEF NewTo
  <2>5. QED
    BY <1>2, <2>1, <2>3, <2>4
<1> HIDE DEF New
<1>4. f[0] = <<>> /\ \A i \in 1..Len(a) : f[i] = IF i > n THEN Append(f[i - 1], a[i]) ELSE f[i - 1]
  BY <1>1, <1>2, <1>3 DEF TakesByPrefix
<1> HIDE DEF n
<1> DEFINE Bad == {i \in Nat : i <= Len(a) /\ ~IsTail(f[i], a, n, i)}
<1>5. Bad = {}
  <2> SUFFICES ASSUME Bad # {} PROVE FALSE
    OBVIOUS
  <2>1. PICK i \in Bad : \A k \in Bad : ~(k < i)
    BY LeastNatural, Zenon
  <2>2. i \in Nat /\ i <= Len(a) /\ ~IsTail(f[i], a, n, i)
    BY <2>1
  <2>3. CASE i = 0
    <3>1. <<>> \in Seq(Items) /\ Len(<<>>) = 0
      OBVIOUS
    <3>2. IsTail(<<>>, a, n, 0)
      BY <1>2, <3>1 DEF IsTail
    <3>3. QED
      BY <1>4, <2>2, <2>3, <3>2
  <2>4. CASE i # 0
    <3>1. i - 1 \in Nat /\ i - 1 \notin Bad /\ i \in 1..Len(a)
      BY <2>1, <2>2, <2>4
    <3>2. IsTail(f[i - 1], a, n, i - 1)
      BY <2>2, <3>1
    <3> DEFINE g == f[i - 1]
    <3>3. /\ g \in Seq(Items) /\ Len(g) = (IF i - 1 <= n THEN 0 ELSE (i - 1) - n)
          /\ \A j \in 1..Len(g) : g[j] = a[n + j]
      BY <3>2 DEF IsTail
    <3>4. CASE i <= n
      <4>1. f[i] = g /\ Len(g) = 0
        BY <1>2, <1>4, <2>2, <3>1, <3>3, <3>4
      <4> HIDE DEF g
      <4>2. IsTail(f[i], a, n, i)
        BY <3>3, <3>4, <4>1 DEF IsTail
      <4>3. QED
        BY <2>2, <4>2
    <3>5. CASE i > n
      <4>1. f[i] = Append(g, a[i]) /\ a[i] \in Items /\ Len(g) = (i - 1) - n
        <5>1. i \in 1..Len(a) /\ i - 1 >= n
          BY <1>2, <2>2, <3>1, <3>5
        <5>2. f[i] = Append(g, a[i]) /\ a[i] \in Items
          BY <1>3, <1>4, <3>5, <5>1
        <5> HIDE DEF g
        <5>3. Len(g) = (i - 1) - n
          BY <1>2, <2>2, <3>3, <5>1
        <5>4. QED
          BY <5>2, <5>3
      <4> HIDE DEF g
      <4>2. /\ f[i] \in Seq(Items) /\ Len(f[i]) = Len(g) + 1
            /\ \A j \in 1..Len(g) : f[i][j] = g[j]
            /\ f[i][Len(g) + 1] = a[i]
        BY <3>3, <4>1, AppendProperties
      <4>3. \A j \in 1..Len(f[i]) : f[i][j] = a[n + j]
        BY <1>2, <2>2, <3>3, <4>1, <4>2
      <4>4. IsTail(f[i], a, n, i)
        BY <1>2, <2>2, <3>5, <4>1, <4>2, <4>3 DEF IsTail
      <4>5. QED
        BY <2>2, <4>4
    <3>6. QED
      BY <1>2, <2>2, <3>4, <3>5
  <2>5. QED
    BY <2>3, <2>4
<1> DEFINE tail == Additions(a, o)
<1>6. IsTail(f[Len(a)], a, n, Len(a))
  BY <1>2, <1>5
<1>7. tail \in Seq(Items) /\ Len(tail) = Len(a) - n /\ \A j \in 1..Len(tail) : tail[j] = a[n + j]
  BY <1>1, <1>2, <1>6 DEF IsTail
<1> HIDE DEF tail
<1>8. /\ o \o tail \in Seq(Items) /\ Len(o \o tail) = Len(a)
      /\ \A i \in 1..Len(a) : (o \o tail)[i] = IF i <= n THEN o[i] ELSE tail[i - n]
  BY <1>2, <1>7, ConcatProperties DEF n
<1>9. ASSUME NEW i \in 1..Len(a) PROVE (o \o tail)[i] = a[i]
  <2>1. CASE i <= n
    <3>1. i \in 1..n
      BY <1>2, <2>1
    <3>2. a[i] = o[i]
      BY <3>1 DEF Grown, n
    <3>3. QED
      BY <1>8, <2>1, <3>2
  <2>2. CASE i > n
    <3>1. i - n \in 1..Len(tail) /\ n + (i - n) = i
      BY <1>2, <1>7, <2>2
    <3>2. tail[i - n] = a[i]
      BY <1>7, <3>1
    <3>3. QED
      BY <1>2, <1>8, <2>2, <3>2
  <2>3. i <= n \/ i > n
    BY <1>2
  <2>4. QED
    BY <2>1, <2>2, <2>3
<1>10. a = o \o tail
  BY <1>8, <1>9, SeqEqual
<1>11. QED
  BY <1>10 DEF tail

\* What one side has added goes behind what the other side has.
LEMMA GrownSideways ==
    ASSUME NEW o \in Seq(Items), NEW a \in Seq(Items), NEW b \in Seq(Items),
           NEW mine, NEW yours, mine \cap yours = {},
           Grown(o, a, mine), Grown(o, b, yours)
    PROVE  Grown(a, a \o Additions(b, o), yours)
<1> DEFINE tail == Additions(b, o)
           m == a \o tail
<1>1. tail \in Seq(Items) /\ b = o \o tail
  BY AdditionsType, AdditionsOfGrown
<1>2. /\ Len(o) \in Nat /\ Len(a) \in Nat /\ Len(b) \in Nat /\ Len(tail) \in Nat
      /\ Len(o) <= Len(a)
  BY <1>1 DEF Grown
<1> HIDE DEF tail
<1>3. /\ Len(b) = Len(o) + Len(tail)
      /\ \A i \in 1..(Len(o) + Len(tail)) : b[i] = IF i <= Len(o) THEN o[i] ELSE tail[i - Len(o)]
  BY <1>1, ConcatProperties
<1>4. /\ Len(m) = Len(a) + Len(tail)
      /\ \A i \in 1..(Len(a) + Len(tail)) : m[i] = IF i <= Len(a) THEN a[i] ELSE tail[i - Len(a)]
  BY <1>1, ConcatProperties
<1> HIDE DEF m
<1>5. ASSUME NEW k \in 1..Len(tail)
      PROVE  tail[k] \in yours \ {o[j] : j \in 1..Len(o)}
  <2>1. Len(o) + k \in (Len(o) + 1)..Len(b)
    BY <1>2, <1>3
  <2>2. b[Len(o) + k] = tail[k]
    <3>1. Len(o) + k \in 1..(Len(o) + Len(tail)) /\ ~(Len(o) + k <= Len(o))
          /\ (Len(o) + k) - Len(o) = k
      BY <1>2
    <3>2. QED
      BY <1>3, <3>1
  <2>3. QED
    BY <2>1, <2>2 DEF Grown
<1>6. ASSUME NEW k \in 1..Len(tail), NEW j \in 1..Len(a)
      PROVE  tail[k] # a[j]
  <2>1. CASE j <= Len(o)
    <3>1. j \in 1..Len(o)
      BY <1>2, <2>1
    <3>2. a[j] = o[j]
      BY <3>1 DEF Grown
    <3>3. QED
      BY <1>5, <3>1, <3>2
  <2>2. CASE j > Len(o)
    <3>1. j \in (Len(o) + 1)..Len(a)
      BY <1>2, <2>2
    <3>2. a[j] \in mine
      BY <3>1 DEF Grown
    <3>3. QED
      BY <1>5, <3>2
  <2>3. j <= Len(o) \/ j > Len(o)
    BY <1>2
  <2>4. QED
    BY <2>1, <2>2, <2>3
<1>7. ASSUME NEW i \in (Len(a) + 1)..Len(m)
      PROVE  m[i] \in yours \ {a[j] : j \in 1..Len(a)}
  <2>1. i - Len(a) \in 1..Len(tail) /\ i \in 1..(Len(a) + Len(tail)) /\ ~(i <= Len(a))
    BY <1>2, <1>4
  <2>2. m[i] = tail[i - Len(a)]
    BY <1>4, <2>1
  <2>3. QED
    BY <1>5, <1>6, <2>1, <2>2
<1>8. ASSUME NEW i \in 1..Len(a) PROVE m[i] = a[i]
  <2>1. i \in 1..(Len(a) + Len(tail)) /\ i <= Len(a)
    BY <1>2
  <2>2. QED
    BY <1>4, <2>1
<1>9. Grown(a, m, yours)
  BY <1>2, <1>4, <1>7, <1>8 DEF Grown
<1>10. QED
  BY <1>9 DEF m, tail

-----------------------------------------------------------------------------
(* What a merge conserves.                                                 *)

\* An array holds its items, and a number is its sum.
LEMMA ContentsByKind ==
    ASSUME NEW v \in Entry
    PROVE  /\ Contents(v) \in Tally
           /\ IsNumber(v) => /\ v[2] \in Int /\ Contents(v).sum = v[2]
                             /\ \A x \in Items : Contents(v).items[x] = 0
           /\ v[1] = "array" => /\ v[2] \in Seq(Items) /\ Contents(v).sum = 0
                               /\ \A x \in Items : Contents(v).items[x] = Occurrences(v, x)
<1>1. Contents(v) \in Tally
  BY ContentsType DEF Entry
<1>2. CASE IsNumber(v)
  <2>1. v \in Value /\ v[1] # "array"
    BY <1>2 DEF Entry, IsNumber, Absent
  <2>2. Contents(v) = [sum |-> v[2], items |-> [x \in Items |-> 0]]
    BY <1>2, <2>1 DEF Contents
  <2>3. QED
    BY <1>1, <1>2, <2>1, <2>2, ValueKinds
<1>3. CASE v[1] = "array"
  <2>1. v \in Value /\ ~IsNumber(v)
    BY <1>3 DEF Entry, IsNumber, Absent
  <2>2. Contents(v) = [sum |-> 0, items |-> [x \in Items |-> Occurrences(v, x)]]
    BY <1>3, <2>1 DEF Contents
  <2>3. QED
    BY <1>1, <1>3, <2>1, <2>2, ValueKinds
<1>4. QED
  BY <1>1, <1>2, <1>3

\* The same value has the same contents.
LEMMA SameContents ==
    ASSUME NEW u \in Entry, NEW v \in Entry, Same(u, v)
    PROVE  Contents(u) = Contents(v)
<1>1. Same(v, u)
  BY SameIsEquivalence
<1>2. CASE IsNumber(u)
  <2>1. IsNumber(v)
    BY <1>2, SameKeepsKind
  <2>2. AsJson(u) = u /\ AsJson(v) = v
    BY <1>2, <2>1 DEF AsJson, IsNumber, Absent
  <2>3. u[2] = v[2]
    BY <2>2 DEF Same
  <2>4. QED
    BY <1>2, <2>1, <2>3 DEF Contents
<1>3. CASE u[1] = "array"
  BY <1>3, SameKeepsKind
<1>4. CASE ~IsNumber(u) /\ u[1] # "array"
  <2>1. ~IsNumber(v) /\ v[1] # "array"
    BY <1>1, <1>4, SameKeepsKind
  <2>2. QED
    BY <1>4, <2>1 DEF Contents
<1>5. QED
  BY <1>2, <1>3, <1>4

\* A policy that accumulates is of one of two kinds.
LEMMA AccumulatingKinds ==
    ASSUME NEW policy \in Policy \cup {NoPolicy}, Accumulates(policy), NEW c
    PROVE  \/ DOMAIN policy = {"additive"} /\ Merge(policy, c) = AdditiveMerge(c)
           \/ DOMAIN policy = {"append"} /\ Merge(policy, c) = AppendMerge(c)
  BY MergeByKind DEF Accumulates

\* A number that Additive merges is a float.
LEMMA AddedValue ==
    ASSUME NEW o \in Entry, NEW a \in Entry, NEW b \in Entry,
           AdditiveMerge(ChangeOf(o, a, b)) # None
    PROVE  LET m == AdditiveMerge(ChangeOf(o, a, b))
           IN  /\ m \in Value /\ m[1] = "float"
               /\ Linear(Contents(m), a, b, o)
<1> DEFINE c == ChangeOf(o, a, b)
           m == AdditiveMerge(c)
<1>1. /\ c.old_value \in Value /\ Same(c.old_value, o)
      /\ NewA(c) \in Value /\ Same(NewA(c), a)
      /\ NewB(c) \in Value /\ Same(NewB(c), b)
  BY ChangeOfFacts
<1>2. m # None
  OBVIOUS
<1> HIDE DEF c
<1> DEFINE n == NewA(c)[2] + NewB(c)[2] - c.old_value[2]
<1>3. IsNumber(c.old_value) /\ IsNumber(NewA(c)) /\ IsNumber(NewB(c)) /\ m = FloatNumber(n)
  BY <1>2 DEF AdditiveMerge
<1>4. /\ Contents(c.old_value) = Contents(o)
      /\ Contents(NewA(c)) = Contents(a)
      /\ Contents(NewB(c)) = Contents(b)
  BY <1>1, SameContents DEF Entry
<1>5. /\ c.old_value[2] \in Int /\ Contents(o).sum = c.old_value[2]
      /\ NewA(c)[2] \in Int /\ Contents(a).sum = NewA(c)[2]
      /\ NewB(c)[2] \in Int /\ Contents(b).sum = NewB(c)[2]
      /\ \A x \in Items : /\ Contents(o).items[x] = 0
                          /\ Contents(a).items[x] = 0
                          /\ Contents(b).items[x] = 0
  BY <1>1, <1>3, <1>4, ContentsByKind DEF Entry
<1>6. n \in Int
  BY <1>5
<1>7. m \in Value /\ m[1] = "float" /\ IsNumber(m) /\ m[2] = n
  BY <1>3, <1>6 DEF FloatNumber, Value, Number, IsNumber
<1>8. Contents(m).sum = n /\ \A x \in Items : Contents(m).items[x] = 0
  BY <1>7, ContentsByKind DEF Entry
<1> HIDE DEF m
<1>9. Linear(Contents(m), a, b, o)
  BY <1>5, <1>8 DEF Linear
<1>10. QED
  BY <1>7, <1>9 DEF m, c

\* An array that Append merges is A's array with the items of B behind it.
LEMMA AppendedValue ==
    ASSUME NEW o \in Entry, NEW a \in Entry, NEW b \in Entry, ~Same(o, a) \/ ~Same(o, b),
           NEW mine, NEW yours, mine \cap yours = {}, Extends(mine, o, a), Extends(yours, o, b),
           AppendMerge(ChangeOf(o, a, b)) # None
    PROVE  LET m == AppendMerge(ChangeOf(o, a, b))
           IN  /\ m \in Value /\ m[1] = "array" /\ a[1] = "array"
               /\ Grown(a[2], m[2], yours)
               /\ Linear(Contents(m), a, b, o)
<1> DEFINE c == ChangeOf(o, a, b)
           m == AppendMerge(c)
           tail == Additions(b[2], o[2])
<1>1. /\ c.old_value = AsJson(o)
      /\ c.new_from_a = IF Same(o, a) THEN None ELSE AsJson(a)
      /\ c.new_from_b = IF Same(o, b) THEN None ELSE AsJson(b)
  BY DEF ChangeOf
<1>2. m # None
  OBVIOUS
<1> HIDE DEF c
<1>3. AsJson(o)[1] = "array"
  BY <1>1, <1>2 DEF AppendMerge
<1>4. o[1] = "array" /\ AsJson(o) = o
  BY <1>3 DEF AsJson, Null
<1>5. /\ a[1] = "array" /\ b[1] = "array" /\ AsJson(a) = a /\ AsJson(b) = b
      /\ Grown(o[2], a[2], mine) /\ Grown(o[2], b[2], yours)
  BY <1>4 DEF Extends, AsJson, Absent
<1>6. /\ o \in Value /\ a \in Value /\ b \in Value
      /\ o[2] \in Seq(Items) /\ a[2] \in Seq(Items) /\ b[2] \in Seq(Items)
  BY <1>4, <1>5, ValueKinds DEF Entry, Absent
<1>7. /\ Same(o, a) => a = o
      /\ Same(o, b) => b = o
  BY <1>4, SameKeepsKind
<1>8. a # None /\ b # None
  BY <1>6, NoneIsNoValue
<1>9. NewA(c) = a /\ NewB(c) = b
  BY <1>1, <1>4, <1>5, <1>7, <1>8 DEF NewA, NewB
<1>10. CASE Same(o, b)
  <2>1. m = a
    BY <1>1, <1>2, <1>5, <1>8, <1>10 DEF AppendMerge, BothMoved
  <2>2. Contents(a) \in Tally /\ Contents(o) \in Tally
    BY ContentsByKind
  <2>3. Linear(Contents(a), a, b, o)
    BY <1>7, <1>10, <2>2 DEF Linear, Tally
  <2>4. QED
    BY <1>5, <1>6, <2>1, <2>3, GrownItself DEF c
<1>11. CASE Same(o, a) /\ ~Same(o, b)
  <2>1. m = b
    BY <1>1, <1>2, <1>5, <1>8, <1>11 DEF AppendMerge, BothMoved
  <2>2. Contents(b) \in Tally /\ Contents(o) \in Tally
    BY ContentsByKind
  <2>3. Linear(Contents(b), a, b, o)
    BY <1>7, <1>11, <2>2 DEF Linear, Tally
  <2>4. QED
    BY <1>5, <1>6, <1>7, <1>11, <2>1, <2>3 DEF c
<1>12. CASE ~Same(o, a) /\ ~Same(o, b)
  <2>1. m = JsonArray(o[2] \o Additions(a[2], o[2]) \o Additions(b[2], o[2]))
    BY <1>1, <1>4, <1>5, <1>8, <1>9, <1>12 DEF AppendMerge, BothMoved
  <2>2. a[2] = o[2] \o Additions(a[2], o[2]) /\ b[2] = o[2] \o tail
    BY <1>5, <1>6, AdditionsOfGrown
  <2>3. tail \in Seq(Items)
    BY <1>6, AdditionsType
  <2>4. m = JsonArray(a[2] \o tail)
    BY <2>1, <2>2
  <2>5. Grown(a[2], a[2] \o tail, yours)
    BY <1>5, <1>6, GrownSideways
  <2> HIDE DEF m, tail
  <2>6. a[2] \o tail \in Seq(Items)
    BY <1>6, <2>3, ConcatProperties
  <2>7. m \in Value /\ m[1] = "array" /\ m[2] = a[2] \o tail
    BY <2>4, <2>6 DEF JsonArray, Value, Array
  <2>8. ASSUME NEW x \in Items
        PROVE  /\ Occurrences(m, x) = Occurrences(a, x) + Occurrences(b, x) - Occurrences(o, x)
               /\ Occurrences(m, x) \in Nat
    <3>1. /\ Occurrences(m, x) = Occurrences(JsonArray(a[2] \o tail), x)
          /\ Occurrences(a, x) = Occurrences(JsonArray(a[2]), x)
          /\ Occurrences(b, x) = Occurrences(JsonArray(o[2] \o tail), x)
          /\ Occurrences(o, x) = Occurrences(JsonArray(o[2]), x)
      BY <2>2, <2>7 DEF Occurrences, JsonArray
    <3>2. /\ Occurrences(JsonArray(a[2] \o tail), x)
                = Occurrences(JsonArray(a[2]), x) + Occurrences(JsonArray(tail), x)
          /\ Occurrences(JsonArray(o[2] \o tail), x)
                = Occurrences(JsonArray(o[2]), x) + Occurrences(JsonArray(tail), x)
      BY <1>6, <2>3, OccurrencesOfConcat
    <3>3. Occurrences(a, x) \in Nat /\ Occurrences(o, x) \in Nat /\ Occurrences(m, x) \in Nat
      BY <1>6, <2>6, <2>7, OccurrencesType
    <3>4. Occurrences(JsonArray(tail), x) \in Nat
      BY <2>3, OccurrencesType DEF JsonArray
    <3>5. QED
      BY <3>1, <3>2, <3>3, <3>4
  <2>9. /\ Contents(m).sum = 0 /\ Contents(a).sum = 0 /\ Contents(b).sum = 0 /\ Contents(o).sum = 0
        /\ \A x \in Items : /\ Contents(m).items[x] = Occurrences(m, x)
                            /\ Contents(a).items[x] = Occurrences(a, x)
                            /\ Contents(b).items[x] = Occurrences(b, x)
                            /\ Contents(o).items[x] = Occurrences(o, x)
    BY <1>4, <1>5, <2>7, ContentsByKind DEF Entry
  <2>10. Linear(Contents(m), a, b, o)
    BY <2>8, <2>9 DEF Linear
  <2>11. QED
    BY <1>5, <2>5, <2>7, <2>10 DEF m, c
<1>13. QED
  BY <1>10, <1>11, <1>12

\* A change that is merged: what the merge conserves, and whose value it is.
LEMMA ChangedValue ==
    ASSUME NEW policy \in Policy \cup {NoPolicy}, Accumulates(policy),
           NEW o \in Entry, NEW a \in Entry, NEW b \in Entry, ~Same(o, a) \/ ~Same(o, b),
           NEW own, own[SideA] \cap own[SideB] = {},
           "append" \in DOMAIN policy => Extends(own[SideA], o, a) /\ Extends(own[SideB], o, b),
           NEW m, m = MergedValue(policy, o, a, b), m # None
    PROVE  /\ m \in Value
           /\ Linear(Contents(m), a, b, o)
           /\ \/ DOMAIN policy = {"additive"} /\ m[1] = "float"
              \/ /\ DOMAIN policy = {"append"} /\ m[1] = "array" /\ a[1] = "array"
                 /\ Grown(a[2], m[2], own[SideB])
<1> DEFINE c == ChangeOf(o, a, b)
<1>1. m = Merge(policy, c)
  BY DEF MergedValue
<1>2. CASE DOMAIN policy = {"additive"} /\ m = AdditiveMerge(c)
  BY <1>2, AddedValue
<1>3. CASE DOMAIN policy = {"append"} /\ m = AppendMerge(c)
  BY <1>3, AppendedValue
<1>4. QED
  BY <1>1, <1>2, <1>3, AccumulatingKinds

-----------------------------------------------------------------------------
(* What the steps of the systems conserve.                                 *)

\* Every value extends itself.
LEMMA ExtendsItself ==
    ASSUME NEW m \in Entry, NEW mine
    PROVE  Extends(mine, m, m)
  BY ContentsByKind, GrownItself, SameIsEquivalence DEF Extends

\* Same values extend the same.
LEMMA ExtendsSame ==
    ASSUME NEW o \in Entry, NEW a \in Entry, NEW o2 \in Entry, NEW a2 \in Entry, NEW mine,
           Extends(mine, o, a), Same(o, o2), Same(a, a2)
    PROVE  Extends(mine, o2, a2)
<1>1. Same(o2, o) /\ Same(a2, a)
  BY SameIsEquivalence
<1>2. CASE o[1] = "array"
  BY <1>2, SameKeepsKind DEF Extends
<1>3. CASE o[1] # "array"
  <2>1. o2[1] # "array"
    BY <1>1, <1>3, SameKeepsKind
  <2>2. Same(a2, o2)
    BY <1>1, <1>3, SameIsEquivalence DEF Extends
  <2>3. QED
    BY <2>1, <2>2 DEF Extends
<1>4. QED
  BY <1>2, <1>3

\* Same values balance the same.
LEMMA BalancedSame ==
    ASSUME NEW own, NEW policy, NEW t,
           NEW a \in Entry, NEW b \in Entry, NEW o \in Entry,
           NEW a2 \in Entry, NEW b2 \in Entry, NEW o2 \in Entry,
           Same(a, a2), Same(b, b2), Same(o, o2), Balanced(own, policy, t, a, b, o)
    PROVE  Balanced(own, policy, t, a2, b2, o2)
<1>1. /\ Contents(a) = Contents(a2) /\ Contents(b) = Contents(b2) /\ Contents(o) = Contents(o2)
  BY SameContents
<1>2. Linear(t, a2, b2, o2)
  BY <1>1 DEF Balanced, Linear
<1>3. QED
  BY <1>2, ExtendsSame DEF Balanced

\* A side that contributes still extends the ancestor.
LEMMA ExtendsContribution ==
    ASSUME NEW o \in Entry, NEW a \in Entry, NEW v \in Entry, NEW mine,
           NEW policy, DOMAIN policy = {"append"},
           Extends(mine, o, a), Contribution(mine, policy, a, v)
    PROVE  Extends(mine, o, v)
<1>1. CASE v = a
  BY <1>1
<1>2. CASE v # a
  <2>1. a[1] = "array" /\ v[1] = "array" /\ Grown(a[2], v[2], mine)
    BY <1>2 DEF Contribution
  <2>2. CASE o[1] = "array"
    BY <2>1, <2>2, ContentsByKind, GrownTransitive DEF Extends
  <2>3. CASE o[1] # "array"
    BY <2>1, <2>3, SameKeepsKind DEF Extends
  <2>4. QED
    BY <2>2, <2>3
<1>3. QED
  BY <1>1, <1>2

\* An edit counts in the tally what it changes.
LEMMA BalancedEdit ==
    ASSUME NEW own, NEW policy \in Policy \cup {NoPolicy}, Accumulates(policy), NEW t \in Tally,
           NEW a \in Entry, NEW b \in Entry, NEW o \in Entry, NEW v \in Entry,
           Balanced(own, policy, t, a, b, o)
    PROVE  /\ Contribution(own[SideA], policy, a, v)
                 => Balanced(own, policy, Contribute(t, a, v), v, b, o)
           /\ Contribution(own[SideB], policy, b, v)
                 => Balanced(own, policy, Contribute(t, b, v), a, v, o)
<1>1. /\ Contents(a) \in Tally /\ Contents(b) \in Tally /\ Contents(o) \in Tally
      /\ Contents(v) \in Tally
  BY ContentsByKind
<1>2. Linear(t, a, b, o)
  BY DEF Balanced
<1>3. Linear(Contribute(t, a, v), v, b, o) /\ Linear(Contribute(t, b, v), a, v, o)
  BY <1>1, <1>2 DEF Linear, Contribute, Tally
<1>4. "append" \in DOMAIN policy => DOMAIN policy = {"append"}
  BY MergeByKind
<1>5. QED
  BY <1>3, <1>4, ExtendsContribution DEF Balanced

\* One contribution after another.
LEMMA LaterContribution ==
    ASSUME NEW mine, NEW policy \in Policy \cup {NoPolicy}, Accumulates(policy),
           NEW u \in Entry, NEW a \in Entry, NEW v \in Entry,
           Later(mine, policy, u, a), Contribution(mine, policy, a, v)
    PROVE  Later(mine, policy, u, v)
<1>1. CASE v = a
  BY <1>1
<1>2. CASE DOMAIN policy = {"additive"} /\ v # a
  BY <1>2 DEF Contribution, Later
<1>3. CASE DOMAIN policy = {"append"} /\ v # a
  <2>1. Extends(mine, u, a)
    BY <1>3, ExtendsItself DEF Later
  <2>2. QED
    BY <1>3, <2>1, ExtendsContribution DEF Later
<1>4. QED
  BY <1>1, <1>2, <1>3, AccumulatingKinds

\* Once A has what the cycle has merged, it counts from there.
LEMMA BalancedPush ==
    ASSUME NEW own, own[SideA] \cap own[SideB] = {},
           NEW policy \in Policy \cup {NoPolicy}, Accumulates(policy), NEW t \in Tally,
           NEW a \in Entry, NEW b \in Entry, NEW o \in Entry,
           Balanced(own, policy, t, a, b, o),
           NEW m, m = MergedValue(policy, o, a, b), m # None,
           NEW a2, a2 = IF m = Absent THEN a ELSE m
    PROVE  Balanced(own, policy, t, a2, m, m)
<1>1. m \in Entry /\ Linear(Contents(m), a, b, o) /\ Same(m, a2)
  <2>1. CASE Same(o, a) /\ Same(o, b)
    <3>1. m = o
      BY <2>1 DEF MergedValue
    <3>2. Contents(a) = Contents(o) /\ Contents(b) = Contents(o) /\ Contents(o) \in Tally
      BY <2>1, SameContents, ContentsByKind
    <3>3. QED
      BY <2>1, <3>1, <3>2, SameIsEquivalence DEF Linear, Tally
  <2>2. CASE ~Same(o, a) \/ ~Same(o, b)
    <3>1. m \in Value /\ Linear(Contents(m), a, b, o)
      <4>1. "append" \in DOMAIN policy => Extends(own[SideA], o, a) /\ Extends(own[SideB], o, b)
        BY DEF Balanced
      <4>2. QED
        BY <2>2, <4>1, ChangedValue
    <3>2. m # Absent
      BY <3>1 DEF Value, Number, Array, String, Null, Absent
    <3>3. QED
      BY <3>1, <3>2, SameIsEquivalence DEF Entry
  <2>3. QED
    BY <2>1, <2>2
<1>2. Contents(m) \in Tally /\ a2 \in Entry
  BY <1>1, ContentsByKind
<1>3. Linear(t, m, m, m)
  BY <1>1, <1>2 DEF Balanced, Linear, Tally
<1>4. Balanced(own, policy, t, m, m, m)
  BY <1>1, <1>3, ExtendsItself DEF Balanced
<1>5. QED
  BY <1>1, <1>2, <1>4, SameIsEquivalence, BalancedSame

\* So it does where the push to A is not made, or is taken for a repeated one.
LEMMA BalancedKept ==
    ASSUME NEW own, own[SideA] \cap own[SideB] = {},
           NEW policy \in Policy \cup {NoPolicy}, Accumulates(policy), NEW t \in Tally,
           NEW a \in Entry, NEW b \in Entry, NEW o \in Entry, NEW u \in Entry,
           Balanced(own, policy, t, a, b, o), Later(own[SideA], policy, u, a),
           "append" \in DOMAIN policy => Extends(own[SideA], o, u),
           NEW m, m = MergedValue(policy, o, u, b), m # None,
           a = m \/ m = Absent \/ m = u
    PROVE  Balanced(own, policy, t, a, m, m)
<1>1. Contents(a) \in Tally /\ Contents(b) \in Tally /\ Contents(o) \in Tally /\ Contents(u) \in Tally
  BY ContentsByKind
<1>2. Linear(t, a, b, o)
  BY DEF Balanced
<1>3. CASE Same(o, u) /\ Same(o, b)
  <2>1. m = o
    BY <1>3 DEF MergedValue
  <2>2. Contents(b) = Contents(o)
    BY <1>3, SameContents
  <2>3. Linear(t, a, m, m)
    BY <1>2, <2>1, <2>2 DEF Linear
  <2>4. QED
    BY <2>1, <2>3, ExtendsItself DEF Balanced
<1>4. CASE ~Same(o, u) \/ ~Same(o, b)
  <2>1. /\ m \in Value /\ Linear(Contents(m), u, b, o)
        /\ \/ DOMAIN policy = {"additive"} /\ m[1] = "float"
           \/ /\ DOMAIN policy = {"append"} /\ m[1] = "array" /\ u[1] = "array"
              /\ Grown(u[2], m[2], own[SideB])
    <3>1. "append" \in DOMAIN policy => Extends(own[SideA], o, u) /\ Extends(own[SideB], o, b)
      BY DEF Balanced
    <3>2. QED
      BY <1>4, <3>1, ChangedValue
  <2>2. m # Absent /\ m \in Entry
    BY <2>1 DEF Entry, Value, Number, Array, String, Null, Absent
  <2>3. Contents(m) \in Tally
    BY <2>2, ContentsByKind
  <2>4. CASE a = m /\ a = u
    <3>1. Linear(t, a, m, m)
      BY <1>1, <1>2, <2>1, <2>3, <2>4 DEF Linear, Tally
    <3>2. QED
      BY <2>2, <2>4, <3>1, ExtendsItself DEF Balanced
  <2>5. CASE m = u
    <3>1. Linear(t, a, m, m)
      BY <1>1, <1>2, <2>1, <2>5 DEF Linear, Tally
    <3>2. "append" \in DOMAIN policy => Extends(own[SideA], m, a)
      BY <2>1, <2>2, <2>5, ExtendsItself DEF Later
    <3>3. QED
      BY <2>2, <3>1, <3>2, ExtendsItself DEF Balanced
  <2>6. CASE a = m /\ a # u
    <3>1. DOMAIN policy = {"append"} /\ Extends(own[SideA], u, a)
      BY <2>1, <2>6 DEF Later
    <3>2. u[2] \in Seq(Items) /\ a[2] \in Seq(Items) /\ u[1] = "array" /\ a[1] = "array"
      BY <2>1, <2>6, <3>1, ContentsByKind
    <3>3. a[2] = u[2]
      BY <2>1, <2>6, <3>1, <3>2, GrownByNobody DEF Extends
    <3>4. a = u
      BY <3>2, <3>3 DEF Entry, Value, Number, Array, String, Null, Absent
    <3>5. QED
      BY <2>6, <3>4
  <2>7. QED
    BY <2>2, <2>4, <2>5, <2>6
<1>5. QED
  BY <1>3, <1>4

-----------------------------------------------------------------------------
(* The invariant of the cycle, at a path whose policy accumulates.         *)

Known(f) == IF ancestor = None THEN Absent ELSE ancestor[f]

InA(f) == store[SideA].doc[f]
InB(f) == store[SideB].doc[f]
ViewA(w, f) == view[w][SideA].doc[f]
ViewB(w, f) == view[w][SideB].doc[f]

\* Until the first commit there is nothing to merge.
NothingYet(f) ==
    ancestor = None =>
        /\ Same(InA(f), Absent) /\ Same(InB(f), Absent)
        /\ \A w \in Workers : HasRead(w, SideA) => Same(ViewA(w, f), Absent)

\* What the applications put in is in the systems, counted from the ancestor, or
\* from what a cycle has pushed to A and will commit.
Counted(own, f) ==
    /\ (\A w \in Workers : ~HasPushed(w, SideA))
          => Balanced(own, Lookup(policies, f), tally[f], InA(f), InB(f), Known(f))
    /\ \A w \in Workers : HasPushed(w, SideA)
          => Balanced(own, Lookup(policies, f), tally[f], InA(f), merged[w][f], merged[w][f])

\* The application of A has only contributed since a cycle fetched A.
ViewedA(own, w, f) ==
    HasRead(w, SideA) /\ ~HasPushed(w, SideA) =>
        /\ Later(own[SideA], Lookup(policies, f), ViewA(w, f), InA(f))
        /\ "append" \in DOMAIN Lookup(policies, f) => Extends(own[SideA], Known(f), ViewA(w, f))

\* The cycle's value of the path.
DecidedValue(w, f) ==
    HasDecided(w) =>
        /\ merged[w][f] # None
        /\ merged[w][f] = MergedValue(Lookup(policies, f), base[w][f], ViewA(w, f), ViewB(w, f))

\* What has been confirmed to B is there.
CommitsB(w, f) == pc[w] = "commit" => Same(InB(f), merged[w][f])

\* The application of B has been quiet since a cycle fetched B.
ViewedB(w) ==
    HasRead(w, SideB) /\ pc[w] # "commit" =>
        /\ store[SideB].present
        /\ view[w][SideB] = [doc |-> store[SideB].doc, version |-> store[SideB].version]

Accumulating == {f \in Fields : Accumulates(Lookup(policies, f))}

\* All that is kept of one path.
PathKept(own, f) ==
    /\ NothingYet(f) /\ Counted(own, f)
    /\ \A w \in Workers : ViewedA(own, w, f) /\ DecidedValue(w, f) /\ CommitsB(w, f)

\* All that is kept while no cycle that writes is cut short.
Kept(own) ==
    /\ \A w \in Workers : Based(w) /\ ViewedB(w)
    /\ \A f \in Accumulating : PathKept(own, f)

\* Why nothing is lost and nothing counts twice.
ContributionInvariant(own) == ~interrupted => Kept(own)

\* What is at a path is an entry, and its policy one that accumulates.
LEMMA PathTypes ==
    ASSUME TypeOK, HistoryTypeOK, NEW f \in Fields
    PROVE  /\ InA(f) \in Entry /\ InB(f) \in Entry /\ Known(f) \in Entry
           /\ tally[f] \in Tally
           /\ Lookup(policies, f) \in Policy \cup {NoPolicy}
           /\ \A w \in Workers : /\ ViewA(w, f) \in Entry /\ ViewB(w, f) \in Entry
                                 /\ base[w][f] \in Entry /\ merged[w][f] \in Entry
<1>1. /\ store[SideA].doc \in Doc /\ store[SideB].doc \in Doc
      /\ \A w \in Workers : /\ view[w][SideA].doc \in Doc /\ view[w][SideB].doc \in Doc
                            /\ base[w] \in Doc /\ merged[w] \in Doc
  BY StoredType DEF Sides
<1>2. Absent \in Entry /\ \A d \in Doc : d[f] \in Entry
  BY DEF Doc, Entry
<1>3. ancestor # None => ancestor \in Doc
  BY DEF TypeOK
<1>4. tally[f] \in Tally
  BY DEF HistoryTypeOK, Tally
<1>5. Lookup(policies, f) \in Policy \cup {NoPolicy}
  BY StoredType, LookupType
<1>6. QED
  BY <1>1, <1>2, <1>3, <1>4, <1>5 DEF InA, InB, Known, ViewA, ViewB

\* The ancestor a cycle merges with has the value that is known.
LEMMA BaseIsKnown ==
    ASSUME TypeOK, HistoryTypeOK, NEW w \in Workers, NEW f \in Fields, Based(w), NothingYet(f),
           pc[w] = "decide" \/ HasDecided(w)
    PROVE  Same(Known(f), base[w][f])
<1>1. base[w] = AncestorView(w)
  BY DEF Based
<1>2. CASE ancestor = None
  <2>1. HasRead(w, SideA)
    BY DEF HasRead, HasDecided
  <2>2. Known(f) = Absent /\ base[w][f] = ViewA(w, f) /\ Same(ViewA(w, f), Absent)
    BY <1>1, <1>2, <2>1 DEF NothingYet, Known, AncestorView, ViewA
  <2>3. QED
    BY <2>2, SameIsEquivalence
<1>3. CASE ancestor # None
  BY <1>1, <1>3, SameIsEquivalence DEF Known, AncestorView
<1>4. QED
  BY <1>2, <1>3

\* Only a path that has not changed comes to a missing key.
LEMMA MergedToAbsent ==
    ASSUME NEW policy \in Policy \cup {NoPolicy}, NEW o \in Entry, NEW a \in Entry, NEW b \in Entry,
           MergedValue(policy, o, a, b) = Absent
    PROVE  o = Absent /\ Same(o, a) /\ Same(o, b)
<1>1. CASE Same(o, a) /\ Same(o, b)
  BY <1>1 DEF MergedValue
<1>2. CASE ~Same(o, a) \/ ~Same(o, b)
  <2>1. ChangeOf(o, a, b) \in FieldChanges
    <3>1. AsJson(o) \in Value /\ AsJson(a) \in Value /\ AsJson(b) \in Value
      BY AsJsonSame
    <3>2. QED
      BY <1>2, <3>1, NoneIsNoValue DEF ChangeOf, FieldChanges
  <2>2. Merge(policy, ChangeOf(o, a, b)) \in Value \cup {None}
    BY <2>1, MergeType
  <2>3. Absent \notin Value \cup {None}
    BY NoneIsNoValue DEF Value, Number, Array, String, Null, Absent
  <2>4. QED
    BY <1>2, <2>2, <2>3 DEF MergedValue
<1>3. QED
  BY <1>1, <1>2

\* A cycle merges each path by itself.
LEMMA CandidateValue ==
    ASSUME TypeOK, InvariantsLeaveContributions, NEW w \in Workers, NEW f \in Accumulating,
           Decide(w)
    PROVE  /\ merged'[w][f] # None
           /\ merged'[w][f] = MergedValue(Lookup(policies, f), base[w][f], ViewA(w, f), ViewB(w, f))
<1> DEFINE o == base[w]
           a == view[w][SideA].doc
           b == view[w][SideB].doc
           c == CycleCandidate(w, policies)
<1>1. o \in Doc /\ a \in Doc /\ b \in Doc /\ policies \in PolicyMaps
  BY StoredType DEF Sides
<1>2. /\ merged'[w] = ApplyInvariants(o, c) /\ ApplyInvariants(o, c) # None
      /\ Conflicts(policies, o, a, b) = {}
      /\ c = Candidate(policies, o, a, b)
  BY DEF Decide, TypeOK, CycleConflicts, CycleCandidate
<1>3. f \in Fields /\ Accumulates(Lookup(policies, f))
  BY DEF Accumulating
<1>4. c \in Doc
  BY <1>1, <1>2, CandidateType
<1> HIDE DEF o, a, b, c
<1>5. merged'[w][f] = c[f]
  <2>1. CASE <<o, c>> \in DOMAIN Tier2
    BY <1>1, <1>2, <1>3, <2>1 DEF InvariantsLeaveContributions, ApplyInvariants
  <2>2. CASE <<o, c>> \notin DOMAIN Tier2
    BY <1>2, <2>2 DEF ApplyInvariants
  <2>3. QED
    BY <2>1, <2>2
<1>6. f \in Changes(o, a, b) <=> (~Same(o[f], a[f]) \/ ~Same(o[f], b[f]))
  BY <1>3 DEF Changes, Changed
<1>7. ResolveField(policies, o, a, b, f) = Merge(Lookup(policies, f), ChangeOf(o[f], a[f], b[f]))
  BY <1>3 DEF ResolveField, FieldChange, SideChange, Changed, ChangeOf
<1>8. c[f] = MergedValue(Lookup(policies, f), o[f], a[f], b[f])
  BY <1>2, <1>3, <1>6, <1>7 DEF Candidate, MergedValue
<1>9. c[f] # None
  <2>1. c[f] \in Value \cup {Absent}
    BY <1>3, <1>4 DEF Doc
  <2>2. QED
    BY <2>1, NoneIsNoValue
<1>10. QED
  BY <1>5, <1>8, <1>9 DEF o, a, b, ViewA, ViewB

\* What a push writes at a path.
LEMMA WrittenValue ==
    ASSUME TypeOK, CycleInvariant, NEW w \in Workers, NEW s \in Sides, NEW f \in Fields,
           WritePush(w, s)
    PROVE  /\ store[s].doc = view[w][s].doc
           /\ store'[s].doc[f] = IF merged[w][f] = Absent THEN store[s].doc[f] ELSE merged[w][f]
           /\ \A t \in Sides \ {s} : store'[t] = store[t]
<1>1. pc[w] = PushPC(s) /\ ~Stale(store[s], ExpectVersion(w, s))
  BY DEF WritePush
<1>2. store[s].doc = view[w][s].doc
  BY <1>1, WriteReplacesRead
<1>3. store[s].present
  <2>1. view[w][s].version # None
    BY NoneIsNoValue DEF TypeOK
  <2>2. QED
    BY <1>1, <2>1 DEF Stale, ExpectVersion
<1>4. QED
  BY <1>2, <1>3 DEF WritePush, Store, Written, ShallowMerge, TypeOK

\* A push that is taken for a repeated one finds its values there.
LEMMA DuplicateValue ==
    ASSUME TypeOK, CycleInvariant, NEW w \in Workers, NEW s \in Sides, NEW f \in Fields,
           PushDuplicate(w, s)
    PROVE  merged[w][f] = Absent \/ store[s].doc[f] = merged[w][f]
<1>1. store[s].last_key = merged[w] /\ merged[w] # None
  BY NoneIsNoValue DEF PushDuplicate, Duplicate, idempotency_key, TypeOK
<1>2. Covers(store[s].doc, merged[w])
  BY <1>1 DEF CycleInvariant, KeysTellTheTruth
<1>3. QED
  BY <1>2 DEF Covers

-----------------------------------------------------------------------------
(* The invariant is inductive.                                             *)

\* An edit of either application.
LEMMA EditKeeps ==
    ASSUME TypeOK, TypeOK', HistoryTypeOK, NEW own, EditContributes(own),
           NEW s \in Sides, HEdit(s), ~interrupted', Kept(own)
    PROVE  Kept(own)'
<1>1. /\ UNCHANGED <<ancestor, policies, pc, view, base, merged>>
      /\ \A t \in Sides \ {s} : store'[t] = store[t]
      /\ tally' = [f \in Fields |-> Contribute(tally[f], store[s].doc[f], store'[s].doc[f])]
  BY DEF HEdit, AppEdit, locals, Store, TypeOK
<1>2. s = SideB => ~ViewOfBHeld
  BY DEF HEdit
<1>3. ASSUME NEW w \in Workers PROVE Based(w)' /\ ViewedB(w)'
  <2>1. Based(w) /\ ViewedB(w)
    BY DEF Kept
  <2>2. CASE s = SideA
    <3>1. store'[SideB] = store[SideB]
      BY <1>1, <2>2 DEF Sides, SideA, SideB
    <3>2. QED
      BY <1>1, <2>1, <3>1 DEF Based, HasDecided, AncestorView, ViewedB, HasRead
  <2>3. CASE s = SideB
    <3>1. pc[w] \in {"idle", "read_a", "read_b"}
      BY <1>2, <2>3 DEF ViewOfBHeld
    <3>2. QED
      BY <1>1, <3>1 DEF Based, HasDecided, ViewedB, HasRead, SideA, SideB
  <2>4. QED
    BY <2>2, <2>3 DEF Sides
<1>4. ASSUME NEW f \in Accumulating' PROVE PathKept(own, f)'
  <2> DEFINE policy == Lookup(policies, f)
             u == store[s].doc[f]
             v == store'[s].doc[f]
  <2>1. f \in Fields /\ f \in Accumulating /\ policy' = policy /\ Accumulates(policy)
    BY <1>1 DEF Accumulating
  <2>2. /\ NothingYet(f) /\ Counted(own, f)
        /\ \A w \in Workers : ViewedA(own, w, f) /\ DecidedValue(w, f) /\ CommitsB(w, f)
    BY <2>1 DEF Kept, PathKept
  <2>3. Contribution(own[s], policy, u, v)
    BY <2>1 DEF EditContributes
  <2>4. /\ Known(f)' = Known(f) /\ tally'[f] = Contribute(tally[f], u, v)
        /\ \A w \in Workers : /\ ViewA(w, f)' = ViewA(w, f) /\ ViewB(w, f)' = ViewB(w, f)
                              /\ HasPushed(w, SideA)' = HasPushed(w, SideA)
                              /\ HasRead(w, SideA)' = HasRead(w, SideA)
    BY <1>1, <2>1 DEF Known, ViewA, ViewB, HasPushed, HasRead
  <2>5. /\ InA(f) \in Entry /\ InB(f) \in Entry /\ Known(f) \in Entry /\ tally[f] \in Tally
        /\ policy \in Policy \cup {NoPolicy}
        /\ \A w \in Workers : ViewA(w, f) \in Entry /\ merged[w][f] \in Entry
    BY <2>1, PathTypes
  <2>6. InA(f)' \in Entry /\ InB(f)' \in Entry
    <3>1. store'[SideA].doc \in Doc /\ store'[SideB].doc \in Doc
      BY DEF TypeOK, Record, Sides
    <3>2. QED
      BY <2>1, <3>1 DEF InA, InB, Doc, Entry
  <2> HIDE DEF policy, u, v
  <2>7. Same(u, Absent) /\ u \in Entry => v = u
    <3>1. Same(u, Absent) /\ u \in Entry => ~IsNumber(u) /\ u[1] # "array"
      <4>1. Absent \in Entry /\ ~IsNumber(Absent) /\ Absent[1] # "array"
        BY DEF Absent, Entry, IsNumber
      <4>2. QED
        BY <4>1, SameKeepsKind, SameIsEquivalence
    <3>2. QED
      BY <2>3, <3>1 DEF Contribution
  <2>8. ASSUME NEW w \in Workers PROVE DecidedValue(w, f)'
    <3>1. HasDecided(w)' <=> HasDecided(w)
      BY <1>1 DEF HasDecided
    <3>2. QED
      BY <1>1, <2>1, <2>2, <2>4, <3>1 DEF DecidedValue, policy
  <2>9. CASE s = SideA
    <3>1. u = InA(f) /\ v = InA(f)' /\ InB(f)' = InB(f)
      BY <1>1, <2>9 DEF u, v, InA, InB, Sides, SideA, SideB
    <3>2. NothingYet(f)'
      BY <1>1, <2>2, <2>4, <2>5, <2>7, <3>1 DEF NothingYet
    <3>3. \A o, b \in Entry : Balanced(own, policy, tally[f], InA(f), b, o)
                               => Balanced(own, policy, tally'[f], InA(f)', b, o)
      BY <2>1, <2>3, <2>4, <2>5, <2>6, <2>9, <3>1, BalancedEdit
    <3>4. Counted(own, f)'
      BY <1>1, <2>1, <2>2, <2>4, <2>5, <3>1, <3>3 DEF Counted, policy
    <3>5. ASSUME NEW w \in Workers PROVE ViewedA(own, w, f)' /\ CommitsB(w, f)'
      <4>1. ViewedA(own, w, f) /\ CommitsB(w, f)
        BY <2>2
      <4>2. Later(own[SideA], policy, ViewA(w, f), InA(f))
              => Later(own[SideA], policy, ViewA(w, f), InA(f)')
        BY <2>1, <2>3, <2>5, <2>6, <2>9, <3>1, LaterContribution
      <4>3. QED
        BY <1>1, <2>1, <2>4, <3>1, <4>1, <4>2 DEF ViewedA, CommitsB, policy
    <3>6. QED
      BY <2>8, <3>2, <3>4, <3>5 DEF PathKept
  <2>10. CASE s = SideB
    <3>1. u = InB(f) /\ v = InB(f)' /\ InA(f)' = InA(f)
      BY <1>1, <2>10 DEF u, v, InA, InB, Sides, SideA, SideB
    <3>2. NothingYet(f)'
      BY <1>1, <2>2, <2>4, <2>5, <2>7, <3>1 DEF NothingYet
    <3>3. ASSUME NEW w \in Workers PROVE pc[w] \in {"idle", "read_a", "read_b"}
      BY <1>2, <2>10 DEF ViewOfBHeld
    <3>4. ASSUME NEW w \in Workers PROVE ~HasPushed(w, SideA)
      BY <3>3 DEF HasPushed
    <3>5. Balanced(own, policy, tally[f], InA(f), InB(f), Known(f))
      BY <2>1, <2>2, <3>4 DEF Counted, policy
    <3>6. Balanced(own, policy, tally'[f], InA(f), InB(f)', Known(f))
      BY <2>1, <2>3, <2>4, <2>5, <2>6, <2>10, <3>1, <3>5, BalancedEdit
    <3>7. Counted(own, f)'
      BY <1>1, <2>1, <2>4, <3>1, <3>4, <3>6 DEF Counted, policy
    <3>8. ASSUME NEW w \in Workers PROVE ViewedA(own, w, f)' /\ CommitsB(w, f)'
      <4>1. pc'[w] # "commit"
        BY <1>1, <3>3
      <4>2. QED
        BY <1>1, <2>1, <2>2, <2>4, <3>1, <4>1 DEF ViewedA, CommitsB, policy
    <3>9. QED
      BY <2>8, <3>2, <3>7, <3>8 DEF PathKept
  <2>11. QED
    BY <2>9, <2>10 DEF Sides
<1>5. QED
  BY <1>3, <1>4 DEF Kept

\* A cycle that begins, or ends without a write, forgets what it has read.
LEMMA ForgettingKeeps ==
    ASSUME NEW own, Kept(own), UNCHANGED <<store, ancestor, tally>>,
           \A f \in Accumulating' : f \in Accumulating /\ Lookup(policies', f) = Lookup(policies, f),
           \A w \in Workers : ~HasPushed(w, SideA) /\ pc'[w] \in {"idle", "read_a"}
    PROVE  Kept(own)'
<1>1. ASSUME NEW w \in Workers
      PROVE  ~HasRead(w, SideA)' /\ ~HasRead(w, SideB)' /\ ~HasDecided(w)' /\ pc'[w] # "decide"
             /\ pc'[w] # "commit" /\ ~HasPushed(w, SideA)'
  BY DEF HasRead, HasDecided, HasPushed
<1>2. ASSUME NEW w \in Workers PROVE Based(w)' /\ ViewedB(w)'
  BY <1>1 DEF Based, ViewedB
<1>3. ASSUME NEW f \in Accumulating' PROVE PathKept(own, f)'
  <2>1. PathKept(own, f) /\ Lookup(policies', f) = Lookup(policies, f)
    BY DEF Kept
  <2>2. InA(f)' = InA(f) /\ InB(f)' = InB(f) /\ Known(f)' = Known(f)
    BY DEF InA, InB, Known
  <2>3. NothingYet(f)'
    BY <1>1, <2>1, <2>2 DEF PathKept, NothingYet
  <2>4. Counted(own, f)'
    BY <1>1, <2>1, <2>2 DEF PathKept, Counted
  <2>5. ASSUME NEW w \in Workers PROVE ViewedA(own, w, f)' /\ DecidedValue(w, f)' /\ CommitsB(w, f)'
    BY <1>1 DEF ViewedA, DecidedValue, CommitsB
  <2>6. QED
    BY <2>3, <2>4, <2>5 DEF PathKept
<1>4. QED
  BY <1>2, <1>3 DEF Kept

\* What is fetched is what is there.
LEMMA ReadKeepsCount ==
    ASSUME TypeOK, HistoryTypeOK, NEW own, Kept(own), NEW w \in Workers, \A v \in Workers : v = w,
           NEW s \in Sides, ReadSide(w, s), UNCHANGED histories
    PROVE  Kept(own)'
<1>1. /\ UNCHANGED <<store, ancestor, policies, base, merged, tally>>
      /\ store[s].present /\ pc[w] = ReadPC(s)
      /\ pc'[w] = (IF s = SideA THEN "read_b" ELSE "read_ancestor")
      /\ view'[w][s] = [doc |-> store[s].doc, version |-> store[s].version]
      /\ \A t \in Sides \ {s} : view'[w][t] = view[w][t]
  BY DEF ReadSide, GoTo, histories, TypeOK
<1>2. /\ ~HasDecided(w)' /\ pc'[w] # "decide" /\ pc'[w] # "commit"
      /\ ~HasPushed(w, SideA) /\ ~HasPushed(w, SideA)'
      /\ HasRead(w, SideB)' => s = SideB
      /\ s = SideB => HasRead(w, SideA)
  <2>1. CASE s = SideA
    <3>1. pc[w] = "read_a" /\ pc'[w] = "read_b"
      BY <1>1, <2>1 DEF ReadPC
    <3>2. QED
      BY <2>1, <3>1 DEF HasDecided, HasPushed, HasRead, SideA, SideB
  <2>2. CASE s = SideB
    <3>1. pc[w] = "read_b" /\ pc'[w] = "read_ancestor"
      BY <1>1, <2>2 DEF ReadPC, SideA, SideB
    <3>2. QED
      BY <2>2, <3>1 DEF HasDecided, HasPushed, HasRead, SideA, SideB
  <2>3. QED
    BY <2>1, <2>2 DEF Sides
<1>3. Based(w)' /\ ViewedB(w)'
  BY <1>1, <1>2 DEF Based, ViewedB, Sides
<1>4. ASSUME NEW f \in Accumulating' PROVE PathKept(own, f)'
  <2> DEFINE policy == Lookup(policies, f)
  <2>1. f \in Fields /\ f \in Accumulating /\ policy' = policy /\ PathKept(own, f)
    BY <1>1 DEF Accumulating, Kept
  <2>2. InA(f)' = InA(f) /\ InB(f)' = InB(f) /\ Known(f)' = Known(f)
    BY <1>1 DEF InA, InB, Known
  <2>3. ViewA(w, f)' = IF s = SideA THEN InA(f) ELSE ViewA(w, f)
    BY <1>1 DEF ViewA, InA, Sides
  <2>4. NothingYet(f)'
    <3>1. NothingYet(f) /\ (s = SideA \/ HasRead(w, SideA))
      BY <1>2, <2>1 DEF PathKept, Sides
    <3>2. ancestor = None => Same(ViewA(w, f)', Absent)
      BY <2>3, <3>1 DEF NothingYet
    <3>3. QED
      BY <1>1, <2>2, <3>1, <3>2 DEF NothingYet
  <2>5. Balanced(own, policy, tally[f], InA(f), InB(f), Known(f))
    BY <1>2, <2>1 DEF PathKept, Counted
  <2>6. Counted(own, f)'
    BY <1>1, <1>2, <2>1, <2>2, <2>5 DEF Counted
  <2>7. ViewedA(own, w, f)'
    <3>1. CASE s = SideA
      BY <1>2, <2>1, <2>2, <2>3, <2>5, <3>1 DEF ViewedA, Later, Balanced
    <3>2. CASE s = SideB
      <4>1. s # SideA
        BY <3>2 DEF SideA, SideB
      <4>2. QED
        BY <1>2, <2>1, <2>2, <2>3, <3>2, <4>1 DEF PathKept, ViewedA
    <3>3. QED
      BY <3>1, <3>2 DEF Sides
  <2>8. DecidedValue(w, f)' /\ CommitsB(w, f)'
    BY <1>2 DEF DecidedValue, CommitsB
  <2>9. QED
    BY <2>4, <2>6, <2>7, <2>8 DEF PathKept
<1>5. QED
  BY <1>3, <1>4 DEF Kept

\* The cycle takes the stored ancestor for its own.
LEMMA ReadAncestorKeepsCount ==
    ASSUME TypeOK, NEW own, Kept(own), NEW w \in Workers, \A v \in Workers : v = w,
           ReadAncestor(w), UNCHANGED histories
    PROVE  Kept(own)'
<1>1. /\ UNCHANGED <<store, ancestor, policies, view, merged, tally>>
      /\ pc[w] = "read_ancestor" /\ pc'[w] = "decide" /\ base'[w] = AncestorView(w)
  BY DEF ReadAncestor, GoTo, histories, TypeOK
<1>2. /\ ~HasDecided(w)' /\ ~HasPushed(w, SideA) /\ ~HasPushed(w, SideA)'
      /\ HasRead(w, SideA) /\ HasRead(w, SideB) /\ pc'[w] # "commit" /\ pc[w] # "commit"
  BY <1>1 DEF HasDecided, HasPushed, HasRead
<1>3. Based(w)' /\ ViewedB(w)'
  BY <1>1, <1>2 DEF Based, ViewedB, AncestorView, Kept
<1>4. ASSUME NEW f \in Accumulating' PROVE PathKept(own, f)'
  <2>1. f \in Accumulating /\ PathKept(own, f)
    BY <1>1 DEF Accumulating, Kept
  <2>2. InA(f)' = InA(f) /\ InB(f)' = InB(f) /\ Known(f)' = Known(f) /\ ViewA(w, f)' = ViewA(w, f)
    BY <1>1 DEF InA, InB, Known, ViewA
  <2>3. NothingYet(f)'
    BY <1>1, <1>2, <2>1, <2>2 DEF PathKept, NothingYet
  <2>4. Counted(own, f)'
    BY <1>1, <1>2, <2>1, <2>2 DEF PathKept, Counted
  <2>5. ViewedA(own, w, f)'
    BY <1>1, <1>2, <2>1, <2>2 DEF PathKept, ViewedA
  <2>6. DecidedValue(w, f)' /\ CommitsB(w, f)'
    BY <1>2 DEF DecidedValue, CommitsB
  <2>7. QED
    BY <2>3, <2>4, <2>5, <2>6 DEF PathKept
<1>5. QED
  BY <1>3, <1>4 DEF Kept

\* Before a cycle pushes to A, its own ancestor and views balance.
LEMMA BalancedFromBase ==
    ASSUME TypeOK, HistoryTypeOK, NEW own, Kept(own),
           NEW w \in Workers, \A v \in Workers : v = w, pc[w] \in {"decide", "push_a"},
           NEW f \in Accumulating
    PROVE  LET policy == Lookup(policies, f)
           IN  /\ InB(f) = ViewB(w, f)
               /\ Balanced(own, policy, tally[f], InA(f), ViewB(w, f), base[w][f])
               /\ Later(own[SideA], policy, ViewA(w, f), InA(f))
               /\ "append" \in DOMAIN policy => Extends(own[SideA], base[w][f], ViewA(w, f))
<1> DEFINE policy == Lookup(policies, f)
<1>1. f \in Fields /\ PathKept(own, f) /\ Based(w) /\ ViewedB(w)
  BY DEF Accumulating, Kept
<1>2. /\ HasRead(w, SideA) /\ HasRead(w, SideB) /\ ~HasPushed(w, SideA)
      /\ pc[w] # "commit" /\ (pc[w] = "decide" \/ HasDecided(w))
  BY DEF HasRead, HasPushed, HasDecided
<1>3. InB(f) = ViewB(w, f)
  BY <1>1, <1>2 DEF ViewedB, InB, ViewB
<1>4. Same(Known(f), base[w][f])
  BY <1>1, <1>2, BaseIsKnown DEF PathKept
<1>5. /\ Balanced(own, policy, tally[f], InA(f), InB(f), Known(f))
      /\ Later(own[SideA], policy, ViewA(w, f), InA(f))
      /\ "append" \in DOMAIN policy => Extends(own[SideA], Known(f), ViewA(w, f))
  BY <1>1, <1>2 DEF PathKept, Counted, ViewedA
<1>6. /\ InA(f) \in Entry /\ InB(f) \in Entry /\ Known(f) \in Entry
      /\ ViewA(w, f) \in Entry /\ base[w][f] \in Entry
  BY <1>1, PathTypes
<1> HIDE DEF policy
<1>7. Balanced(own, policy, tally[f], InA(f), InB(f), base[w][f])
  BY <1>4, <1>5, <1>6, BalancedSame, SameIsEquivalence
<1>8. "append" \in DOMAIN policy => Extends(own[SideA], base[w][f], ViewA(w, f))
  BY <1>4, <1>5, <1>6, ExtendsSame, SameIsEquivalence
<1>9. QED
  BY <1>3, <1>5, <1>7, <1>8 DEF policy

\* A cycle that decides: where A already has what it comes to, it goes on as if it
\* had pushed there.
LEMMA DecideKeepsCount ==
    ASSUME TypeOK, TypeOK', HistoryTypeOK, InvariantsLeaveContributions,
           NEW own, own[SideA] \cap own[SideB] = {}, Kept(own),
           NEW w \in Workers, \A v \in Workers : v = w, Decide(w), UNCHANGED histories
    PROVE  Kept(own)'
<1> DEFINE a == view[w][SideA].doc
           b == view[w][SideB].doc
           m == merged'[w]
<1>1. /\ UNCHANGED <<store, ancestor, policies, view, base, tally>>
      /\ pc[w] = "decide" /\ pc'[w] = AfterMerge(m, a, b)
  BY DEF Decide, GoTo, histories, TypeOK
<1>2. /\ pc'[w] \in {"push_a", "push_b", "commit"}
      /\ pc'[w] # "push_a" => m = a
      /\ pc'[w] = "commit" => m = b
  BY <1>1 DEF AfterMerge, AfterPushA
<1>3. /\ HasRead(w, SideA) /\ HasRead(w, SideB) /\ ~HasPushed(w, SideA) /\ pc[w] # "commit"
      /\ HasPushed(w, SideA)' <=> pc'[w] # "push_a"
  BY <1>1, <1>2 DEF HasRead, HasPushed
<1>4. Based(w)' /\ ViewedB(w)'
  BY <1>1, <1>3 DEF Based, ViewedB, AncestorView, Kept
<1>5. ASSUME NEW f \in Accumulating' PROVE PathKept(own, f)'
  <2> DEFINE policy == Lookup(policies, f)
  <2>1. f \in Fields /\ f \in Accumulating /\ PathKept(own, f) /\ policy' = policy /\ Accumulates(policy)
    BY <1>1 DEF Accumulating, Kept
  <2>2. /\ InA(f)' = InA(f) /\ InB(f)' = InB(f) /\ Known(f)' = Known(f)
        /\ ViewA(w, f)' = ViewA(w, f) /\ ViewB(w, f)' = ViewB(w, f)
    BY <1>1 DEF InA, InB, Known, ViewA, ViewB
  <2>3. m[f] # None /\ m[f] = MergedValue(policy, base[w][f], ViewA(w, f), ViewB(w, f))
    BY <2>1, CandidateValue
  <2>4. /\ InB(f) = ViewB(w, f)
        /\ Balanced(own, policy, tally[f], InA(f), ViewB(w, f), base[w][f])
        /\ Later(own[SideA], policy, ViewA(w, f), InA(f))
        /\ "append" \in DOMAIN policy => Extends(own[SideA], base[w][f], ViewA(w, f))
    BY <1>1, <2>1, BalancedFromBase
  <2>5. /\ InA(f) \in Entry /\ ViewA(w, f) \in Entry /\ ViewB(w, f) \in Entry
        /\ base[w][f] \in Entry /\ tally[f] \in Tally /\ policy \in Policy \cup {NoPolicy}
    BY <2>1, PathTypes
  <2>6. m = a => m[f] = ViewA(w, f)
    BY DEF ViewA
  <2>7. m = b => m[f] = InB(f)
    BY <2>4 DEF ViewB
  <2> HIDE DEF m, a, b, policy
  <2>8. NothingYet(f)'
    BY <1>1, <1>3, <2>1, <2>2 DEF PathKept, NothingYet
  <2>9. Counted(own, f)'
    <3>1. CASE pc'[w] = "push_a"
      BY <1>1, <1>3, <2>1, <2>2, <3>1 DEF PathKept, Counted, policy
    <3>2. CASE pc'[w] # "push_a"
      <4>1. m[f] = ViewA(w, f)
        BY <1>2, <2>6, <3>2
      <4>2. Balanced(own, policy, tally[f], InA(f), m[f], m[f])
        BY <2>1, <2>3, <2>4, <2>5, <4>1, BalancedKept
      <4>3. QED
        BY <1>1, <1>3, <2>1, <2>2, <3>2, <4>2 DEF Counted, policy, m
    <3>3. QED
      BY <3>1, <3>2
  <2>10. ViewedA(own, w, f)'
    BY <1>1, <1>3, <2>1, <2>2 DEF PathKept, ViewedA, policy
  <2>11. DecidedValue(w, f)'
    BY <1>1, <2>1, <2>2, <2>3 DEF DecidedValue, m, policy
  <2>12. CommitsB(w, f)'
    BY <1>2, <2>2, <2>7, SameIsEquivalence DEF CommitsB, m
  <2>13. QED
    BY <2>8, <2>9, <2>10, <2>11, <2>12 DEF PathKept
<1>6. QED
  BY <1>4, <1>5 DEF Kept

\* A cycle before the first commit has nothing to push.
LEMMA NothingMerged ==
    ASSUME TypeOK, HistoryTypeOK, NEW own, Kept(own),
           NEW w \in Workers, pc[w] \in {"push_a", "push_b"},
           NEW f \in Accumulating, ancestor = None
    PROVE  Same(merged[w][f], Absent)
<1>1. f \in Fields /\ PathKept(own, f) /\ Based(w) /\ ViewedB(w)
  BY DEF Accumulating, Kept
<1>2. HasRead(w, SideA) /\ HasRead(w, SideB) /\ pc[w] # "commit" /\ HasDecided(w)
  BY DEF HasRead, HasDecided
<1>3. Same(Known(f), base[w][f]) /\ Known(f) = Absent
  BY <1>1, <1>2, BaseIsKnown DEF PathKept, Known
<1>4. Same(ViewA(w, f), Absent) /\ Same(ViewB(w, f), Absent)
  <2>1. ViewB(w, f) = InB(f)
    BY <1>1, <1>2 DEF ViewedB, InB, ViewB
  <2>2. QED
    BY <1>1, <1>2, <2>1 DEF PathKept, NothingYet
<1>5. /\ ViewA(w, f) \in Entry /\ ViewB(w, f) \in Entry /\ base[w][f] \in Entry
      /\ Absent \in Entry
  BY <1>1, PathTypes DEF Entry
<1>6. /\ Same(base[w][f], Absent)
      /\ Same(base[w][f], ViewA(w, f)) /\ Same(base[w][f], ViewB(w, f))
  BY <1>3, <1>4, <1>5, SameIsEquivalence
<1>7. merged[w][f] = base[w][f]
  BY <1>1, <1>2, <1>6 DEF PathKept, DecidedValue, MergedValue
<1>8. QED
  BY <1>6, <1>7

\* The frame of a push to A that is confirmed.
LEMMA ConfirmedByA ==
    ASSUME TypeOK, HistoryTypeOK, NEW own, Kept(own), NEW w \in Workers, \A v \in Workers : v = w,
           pc[w] = "push_a", AfterPush(w, SideA),
           UNCHANGED <<ancestor, policies, locals, tally>>, store'[SideB] = store[SideB],
           \A f \in Accumulating :
              /\ Balanced(own, Lookup(policies, f), tally[f], InA(f)', merged[w][f], merged[w][f])
              /\ ancestor = None => Same(InA(f)', Absent)
    PROVE  Kept(own)'
<1>1. /\ UNCHANGED <<view, base, merged>>
      /\ pc'[w] = AfterPushA(merged[w], view[w][SideB].doc)
  BY DEF AfterPush, GoTo, TypeOK, locals
<1>2. /\ pc'[w] \in {"push_b", "commit"}
      /\ pc'[w] = "commit" => merged[w] = view[w][SideB].doc
  BY <1>1 DEF AfterPushA
<1>3. /\ HasRead(w, SideA) /\ HasRead(w, SideB) /\ pc[w] # "commit" /\ HasDecided(w)
      /\ HasPushed(w, SideA)'
  BY <1>2 DEF HasRead, HasPushed, HasDecided
<1>4. Based(w)' /\ ViewedB(w)'
  BY <1>1, <1>3 DEF Based, ViewedB, AncestorView, Kept
<1>5. ASSUME NEW f \in Accumulating' PROVE PathKept(own, f)'
  <2>1. f \in Fields /\ f \in Accumulating /\ PathKept(own, f)
    BY DEF Accumulating, Kept
  <2>2. /\ InB(f)' = InB(f) /\ Known(f)' = Known(f)
        /\ ViewA(w, f)' = ViewA(w, f) /\ ViewB(w, f)' = ViewB(w, f)
    BY <1>1 DEF InB, Known, ViewA, ViewB
  <2>3. NothingYet(f)'
    BY <1>3, <2>1, <2>2 DEF PathKept, NothingYet
  <2>4. Counted(own, f)'
    BY <1>1, <1>3, <2>1 DEF Counted
  <2>5. ViewedA(own, w, f)'
    BY <1>3 DEF ViewedA
  <2>6. DecidedValue(w, f)'
    BY <1>1, <1>3, <2>1, <2>2 DEF PathKept, DecidedValue
  <2>7. InB(f) = ViewB(w, f)
    BY <1>3 DEF Kept, ViewedB, InB, ViewB
  <2>8. CommitsB(w, f)'
    BY <1>1, <1>2, <2>2, <2>7, SameIsEquivalence DEF CommitsB, ViewB
  <2>9. QED
    BY <2>3, <2>4, <2>5, <2>6, <2>8 DEF PathKept
<1>6. QED
  BY <1>4, <1>5 DEF Kept

\* The frame of a push to B that is confirmed.
LEMMA ConfirmedByB ==
    ASSUME TypeOK, HistoryTypeOK, NEW own, Kept(own), NEW w \in Workers, \A v \in Workers : v = w,
           pc[w] = "push_b", AfterPush(w, SideB),
           UNCHANGED <<ancestor, policies, locals, tally>>, store'[SideA] = store[SideA],
           \A f \in Accumulating :
              /\ Same(InB(f)', merged[w][f])
              /\ ancestor = None => Same(InB(f)', Absent)
    PROVE  Kept(own)'
<1>1. UNCHANGED <<view, base, merged>> /\ pc'[w] = "commit"
  BY DEF AfterPush, GoTo, TypeOK, locals, SideA, SideB
<1>2. /\ HasRead(w, SideA) /\ HasDecided(w) /\ HasPushed(w, SideA) /\ HasPushed(w, SideA)'
  BY <1>1 DEF HasRead, HasPushed, HasDecided
<1>3. Based(w)' /\ ViewedB(w)'
  BY <1>1, <1>2 DEF Based, ViewedB, AncestorView, Kept
<1>4. ASSUME NEW f \in Accumulating' PROVE PathKept(own, f)'
  <2>1. f \in Fields /\ f \in Accumulating /\ PathKept(own, f)
    BY DEF Accumulating, Kept
  <2>2. /\ InA(f)' = InA(f) /\ Known(f)' = Known(f)
        /\ ViewA(w, f)' = ViewA(w, f) /\ ViewB(w, f)' = ViewB(w, f)
    BY <1>1 DEF InA, Known, ViewA, ViewB
  <2>3. NothingYet(f)'
    BY <1>2, <2>1, <2>2 DEF PathKept, NothingYet
  <2>4. Counted(own, f)'
    BY <1>1, <1>2, <2>1, <2>2 DEF PathKept, Counted
  <2>5. ViewedA(own, w, f)'
    BY <1>2 DEF ViewedA
  <2>6. DecidedValue(w, f)'
    BY <1>1, <1>2, <2>1, <2>2 DEF PathKept, DecidedValue
  <2>7. CommitsB(w, f)'
    BY <1>1, <2>1 DEF CommitsB
  <2>8. QED
    BY <2>3, <2>4, <2>5, <2>6, <2>7 DEF PathKept
<1>5. QED
  BY <1>3, <1>4 DEF Kept

\* A push to A, be it applied or taken for a repeated one: what A has, and what is
\* merged, count for what the applications put in.
LEMMA PushAKeepsCount ==
    ASSUME TypeOK, TypeOK', HistoryTypeOK, CycleInvariant,
           NEW own, own[SideA] \cap own[SideB] = {}, Kept(own),
           NEW w \in Workers, \A v \in Workers : v = w,
           PushDuplicate(w, SideA) \/ PushApplied(w, SideA), UNCHANGED tally
    PROVE  Kept(own)'
<1> SideA \in Sides /\ SideB \in Sides /\ SideA # SideB
  BY DEF Sides, SideA, SideB
<1>1. /\ pc[w] = "push_a" /\ AfterPush(w, SideA)
      /\ UNCHANGED <<ancestor, policies, locals>>
  BY DEF PushDuplicate, PushApplied, WritePush, PushPC
<1>2. store'[SideB] = store[SideB]
  <2>1. CASE PushDuplicate(w, SideA)
    BY <2>1 DEF PushDuplicate
  <2>2. CASE PushApplied(w, SideA)
    BY <2>2 DEF PushApplied, WritePush, Store, TypeOK
  <2>3. QED
    BY <2>1, <2>2
<1>3. ASSUME NEW f \in Accumulating
      PROVE  /\ Balanced(own, Lookup(policies, f), tally[f], InA(f)', merged[w][f], merged[w][f])
             /\ ancestor = None => Same(InA(f)', Absent)
  <2> DEFINE policy == Lookup(policies, f)
             m == merged[w][f]
  <2>1. f \in Fields /\ PathKept(own, f) /\ Accumulates(policy)
    BY DEF Accumulating, Kept
  <2>2. /\ InB(f) = ViewB(w, f)
        /\ Balanced(own, policy, tally[f], InA(f), ViewB(w, f), base[w][f])
        /\ Later(own[SideA], policy, ViewA(w, f), InA(f))
        /\ "append" \in DOMAIN policy => Extends(own[SideA], base[w][f], ViewA(w, f))
    BY <1>1, BalancedFromBase
  <2>3. m # None /\ m = MergedValue(policy, base[w][f], ViewA(w, f), ViewB(w, f))
    BY <1>1, <2>1 DEF PathKept, DecidedValue, HasDecided
  <2>4. /\ InA(f) \in Entry /\ ViewA(w, f) \in Entry /\ ViewB(w, f) \in Entry
        /\ base[w][f] \in Entry /\ tally[f] \in Tally /\ policy \in Policy \cup {NoPolicy}
    BY <2>1, PathTypes
  <2>5. ancestor = None => Same(m, Absent) /\ Same(InA(f), Absent)
    BY <1>1, <2>1, NothingMerged DEF PathKept, NothingYet
  <2>6. CASE PushDuplicate(w, SideA)
    <3>1. InA(f)' = InA(f) /\ (m = Absent \/ InA(f) = m)
      BY <2>1, <2>6, DuplicateValue DEF InA, PushDuplicate
    <3> HIDE DEF policy, m
    <3>2. Balanced(own, policy, tally[f], InA(f), m, m)
      BY <2>1, <2>2, <2>3, <2>4, <3>1, BalancedKept
    <3>3. QED
      BY <2>5, <3>1, <3>2 DEF policy, m
  <2>7. CASE PushApplied(w, SideA)
    <3>1. WritePush(w, SideA)
      BY <2>7 DEF PushApplied
    <3>2. /\ store[SideA].doc = view[w][SideA].doc
          /\ store'[SideA].doc[f] = IF m = Absent THEN store[SideA].doc[f] ELSE m
      BY <2>1, <3>1, WrittenValue
    <3>3. InA(f) = ViewA(w, f) /\ InA(f)' = IF m = Absent THEN InA(f) ELSE m
      BY <3>2 DEF InA, ViewA
    <3> HIDE DEF policy, m
    <3>4. Balanced(own, policy, tally[f], InA(f)', m, m)
      BY <2>1, <2>2, <2>3, <2>4, <3>3, BalancedPush
    <3>5. QED
      BY <2>5, <3>3, <3>4 DEF policy, m
  <2>8. QED
    BY <2>6, <2>7
<1>4. QED
  BY <1>1, <1>2, <1>3, ConfirmedByA

\* A push to B, be it applied or taken for a repeated one: B has what is merged.
LEMMA PushBKeepsCount ==
    ASSUME TypeOK, TypeOK', HistoryTypeOK, CycleInvariant, NEW own, Kept(own),
           NEW w \in Workers, \A v \in Workers : v = w,
           PushDuplicate(w, SideB) \/ PushApplied(w, SideB), UNCHANGED tally
    PROVE  Kept(own)'
<1> SideA \in Sides /\ SideB \in Sides /\ SideA # SideB
  BY DEF Sides, SideA, SideB
<1>1. /\ pc[w] = "push_b" /\ AfterPush(w, SideB)
      /\ UNCHANGED <<ancestor, policies, locals>>
  BY DEF PushDuplicate, PushApplied, WritePush, PushPC
<1>2. store'[SideA] = store[SideA]
  <2>1. CASE PushDuplicate(w, SideB)
    BY <2>1 DEF PushDuplicate
  <2>2. CASE PushApplied(w, SideB)
    BY <2>2 DEF PushApplied, WritePush, Store, TypeOK
  <2>3. QED
    BY <2>1, <2>2
<1>3. ASSUME NEW f \in Accumulating
      PROVE  /\ Same(InB(f)', merged[w][f])
             /\ ancestor = None => Same(InB(f)', Absent)
  <2> DEFINE policy == Lookup(policies, f)
             m == merged[w][f]
  <2>1. f \in Fields /\ PathKept(own, f) /\ ViewedB(w)
    BY DEF Accumulating, Kept
  <2>2. InB(f) = ViewB(w, f)
    BY <1>1, <2>1 DEF ViewedB, HasRead, InB, ViewB
  <2>3. m = MergedValue(policy, base[w][f], ViewA(w, f), ViewB(w, f))
    BY <1>1, <2>1 DEF PathKept, DecidedValue, HasDecided
  <2>4. /\ InB(f) \in Entry /\ ViewA(w, f) \in Entry /\ ViewB(w, f) \in Entry
        /\ base[w][f] \in Entry /\ policy \in Policy \cup {NoPolicy} /\ m \in Entry
    BY <2>1, PathTypes
  <2>5. ancestor = None => Same(m, Absent)
    BY <1>1, NothingMerged
  <2>6. InB(f)' = m \/ (m = Absent /\ InB(f)' = InB(f))
    <3>1. CASE PushDuplicate(w, SideB)
      BY <2>1, <3>1, DuplicateValue DEF InB, PushDuplicate
    <3>2. CASE PushApplied(w, SideB)
      <4>1. WritePush(w, SideB)
        BY <3>2 DEF PushApplied
      <4>2. store'[SideB].doc[f] = IF m = Absent THEN store[SideB].doc[f] ELSE m
        BY <2>1, <4>1, WrittenValue
      <4>3. QED
        BY <4>2 DEF InB
    <3>3. QED
      BY <3>1, <3>2
  <2> HIDE DEF policy, m
  <2>7. m = Absent => Same(InB(f), m)
    BY <2>2, <2>3, <2>4, MergedToAbsent, SameIsEquivalence
  <2>8. Same(InB(f)', m)
    BY <2>4, <2>6, <2>7, SameIsEquivalence
  <2>9. InB(f)' \in Entry /\ Absent \in Entry
    BY <2>4, <2>6 DEF Entry
  <2>10. ancestor = None => Same(InB(f)', Absent)
    BY <2>4, <2>5, <2>8, <2>9, SameIsEquivalence
  <2>11. QED
    BY <2>8, <2>10 DEF m
<1>4. QED
  BY <1>1, <1>2, <1>3, ConfirmedByB

\* A cycle that commits: what both systems have is what is known from now on.
LEMMA CommitKeepsCount ==
    ASSUME TypeOK, HistoryTypeOK, NEW own, Kept(own), NEW w \in Workers, \A v \in Workers : v = w,
           Commit(w), UNCHANGED tally
    PROVE  Kept(own)'
<1>1. /\ UNCHANGED <<store, policies>> /\ pc[w] = "commit"
      /\ pc'[w] = "idle" /\ ancestor' = merged[w]
  BY DEF Commit, Return, TypeOK
<1>2. /\ ~HasRead(w, SideA)' /\ ~HasRead(w, SideB)' /\ ~HasDecided(w)' /\ pc'[w] # "decide"
      /\ pc'[w] # "commit" /\ ~HasPushed(w, SideA)' /\ HasPushed(w, SideA)
  BY <1>1 DEF HasRead, HasDecided, HasPushed
<1>3. Based(w)' /\ ViewedB(w)'
  BY <1>2 DEF Based, ViewedB
<1>4. ASSUME NEW f \in Accumulating' PROVE PathKept(own, f)'
  <2> DEFINE policy == Lookup(policies, f)
             m == merged[w][f]
  <2>1. f \in Fields /\ PathKept(own, f) /\ policy' = policy
    BY <1>1 DEF Accumulating, Kept
  <2>2. InA(f)' = InA(f) /\ InB(f)' = InB(f)
    BY <1>1 DEF InA, InB
  <2>3. Known(f)' = m /\ ancestor' # None
    <3>1. merged[w] \in Doc /\ merged[w] # None
      BY NoneIsNoValue DEF TypeOK
    <3>2. QED
      BY <1>1, <3>1 DEF Known
  <2>4. NothingYet(f)'
    BY <2>3 DEF NothingYet
  <2>5. Balanced(own, policy, tally[f], InA(f), m, m) /\ Same(InB(f), m)
    BY <1>1, <1>2, <2>1 DEF PathKept, Counted, CommitsB
  <2>6. InA(f) \in Entry /\ InB(f) \in Entry /\ m \in Entry
    BY <2>1, PathTypes
  <2> HIDE DEF policy, m
  <2>7. Balanced(own, policy, tally[f], InA(f), InB(f), m)
    BY <2>5, <2>6, BalancedSame, SameIsEquivalence
  <2>8. Counted(own, f)'
    BY <1>2, <2>1, <2>2, <2>3, <2>7 DEF Counted, policy
  <2>9. ViewedA(own, w, f)' /\ DecidedValue(w, f)' /\ CommitsB(w, f)'
    BY <1>2 DEF ViewedA, DecidedValue, CommitsB
  <2>10. QED
    BY <2>4, <2>8, <2>9 DEF PathKept
<1>5. QED
  BY <1>3, <1>4 DEF Kept

\* A push to B never finds the version moved: that would be an edit of B that cuts
\* the cycle short.
LEMMA PushBIsFresh ==
    ASSUME TypeOK, NEW own, Kept(own), NEW w \in Workers
    PROVE  ~PushStale(w, SideB)
<1> SUFFICES ASSUME PushStale(w, SideB) PROVE FALSE
  OBVIOUS
<1>1. pc[w] = "push_b" /\ Stale(store[SideB], view[w][SideB].version)
  BY DEF PushStale, PushPC, ExpectVersion, SideA, SideB
<1>2. /\ store[SideB].present
      /\ view[w][SideB] = [doc |-> store[SideB].doc, version |-> store[SideB].version]
  BY <1>1 DEF Kept, ViewedB, HasRead, SideA, SideB
<1>3. QED
  BY <1>1, <1>2 DEF Stale

\* A cycle that ends before it has written anything.
LEMMA EarlyReturnKeepsCount ==
    ASSUME TypeOK, NEW own, Kept(own), NEW w \in Workers, \A v \in Workers : v = w,
           pc[w] \notin {"push_b", "commit"}, Return(w),
           UNCHANGED <<store, ancestor, policies, tally>>
    PROVE  Kept(own)'
<1>1. pc'[w] = "idle" /\ ~HasPushed(w, SideA)
  BY DEF Return, TypeOK, HasPushed
<1>2. QED
  BY <1>1, ForgettingKeeps DEF Accumulating

\* The steps that no history records.
LEMMA OtherKeepsCount ==
    ASSUME TypeOK, TypeOK', HistoryTypeOK, CycleInvariant, InvariantsLeaveContributions,
           NEW own, own[SideA] \cap own[SideB] = {}, Kept(own),
           NEW w \in Workers, \A v \in Workers : v = w, HOther(w)
    PROVE  Kept(own)'
<1>1. UNCHANGED histories /\ UNCHANGED tally
  BY DEF HOther, histories
<1>2. CASE StartCycle(w)
  <2>1. /\ UNCHANGED <<store, ancestor, policies, tally>>
        /\ pc'[w] = "read_a" /\ ~HasPushed(w, SideA)
    BY <1>1, <1>2 DEF StartCycle, GoTo, TypeOK, HasPushed
  <2>2. QED
    BY <2>1, ForgettingKeeps DEF Accumulating
<1>3. ASSUME NEW s \in Sides, ReadSide(w, s) PROVE Kept(own)'
  BY <1>1, <1>3, ReadKeepsCount
<1>4. ASSUME NEW s \in Sides, NotFound(w, s) PROVE Kept(own)'
  BY <1>1, <1>4, EarlyReturnKeepsCount DEF NotFound, ReadPC
<1>5. CASE NoOp(w) \/ Escalate(w) \/ RejectCandidate(w)
  BY <1>1, <1>5, EarlyReturnKeepsCount DEF NoOp, Escalate, RejectCandidate
<1>6. CASE ReadAncestor(w)
  BY <1>1, <1>6, ReadAncestorKeepsCount
<1>7. CASE Decide(w)
  BY <1>1, <1>7, DecideKeepsCount
<1>8. ASSUME NEW s \in Sides, PushDuplicate(w, s) PROVE Kept(own)'
  BY <1>1, <1>8, PushAKeepsCount, PushBKeepsCount DEF Sides
<1>9. ASSUME NEW s \in Sides, PushStale(w, s) PROVE Kept(own)'
  <2>1. s = SideA
    BY <1>9, PushBIsFresh DEF Sides
  <2>2. QED
    BY <1>1, <1>9, <2>1, EarlyReturnKeepsCount DEF PushStale, PushPC
<1>10. QED
  BY <1>2, <1>3, <1>4, <1>5, <1>6, <1>7, <1>8, <1>9 DEF HOther

\* Every step.
LEMMA StepKeepsCount ==
    ASSUME OneCycleAtATime, DurableAncestor, SteadyContributions, InvariantsLeaveContributions,
           NEW own, own[SideA] \cap own[SideB] = {},
           TypeOK, TypeOK', HistoryTypeOK, CycleInvariant, ContributionInvariant(own),
           [HNext]_hvars, [EditContributes(own)]_hvars
    PROVE  ContributionInvariant(own)'
<1> SUFFICES ASSUME ~interrupted' PROVE Kept(own)'
  BY DEF ContributionInvariant
<1>1. ASSUME NEW w \in Workers PROVE \A v \in Workers : v = w
  BY DEF OneCycleAtATime
<1>2. ~interrupted => Kept(own)
  BY DEF ContributionInvariant
<1>3. ASSUME NEW w \in Workers, HCommit(w) PROVE Kept(own)'
  <2>1. Commit(w) /\ UNCHANGED tally /\ ~interrupted
    BY <1>3 DEF HCommit
  <2>2. QED
    BY <1>1, <1>2, <2>1, CommitKeepsCount
<1>4. ASSUME NEW w \in Workers, HFail(w) PROVE Kept(own)'
  <2>1. /\ Return(w) /\ UNCHANGED <<store, ancestor, policies, tally>>
        /\ ~interrupted /\ pc[w] \notin {"push_b", "commit"}
    BY <1>4 DEF HFail, Fail, Writing
  <2>2. QED
    BY <1>1, <1>2, <2>1, EarlyReturnKeepsCount
<1>5. ASSUME NEW w \in Workers, HOther(w) PROVE Kept(own)'
  <2>1. ~interrupted
    BY <1>5 DEF HOther, histories
  <2>2. QED
    BY <1>1, <1>2, <1>5, <2>1, OtherKeepsCount
<1>6. ASSUME NEW w \in Workers, NEW s \in Sides, HPush(w, s) PROVE Kept(own)'
  <2>1. PushApplied(w, s) /\ UNCHANGED tally /\ ~interrupted
    BY <1>6 DEF HPush
  <2>2. QED
    BY <1>1, <1>2, <2>1, PushAKeepsCount, PushBKeepsCount DEF Sides
<1>7. ASSUME NEW s \in Sides, HEdit(s) PROVE Kept(own)'
  <2>1. ~interrupted
    BY <1>7 DEF HEdit
  <2>2. CASE EditContributes(own)
    BY <1>2, <1>7, <2>1, <2>2, EditKeeps
  <2>3. CASE UNCHANGED hvars
    <3>1. edits' = edits /\ edits' = edits + 1
      BY <1>7, <2>3 DEF hvars, vars, HEdit, AppEdit
    <3>2. QED
      BY <3>1 DEF TypeOK
  <2>4. QED
    BY <2>2, <2>3
<1>8. CASE HRestart
  <2>1. /\ UNCHANGED <<store, ancestor, tally>> /\ ~interrupted
        /\ \A w \in Workers : pc'[w] = "idle" /\ ~HasPushed(w, SideA)
    BY <1>8 DEF HRestart, Restart, Writing, HasPushed
  <2>2. ASSUME NEW f \in Accumulating'
        PROVE  f \in Accumulating /\ Lookup(policies', f) = Lookup(policies, f)
    <3>1. policies \in PolicyMaps /\ policies' \in PolicyMaps
      BY <1>8 DEF HRestart, Restart, TypeOK
    <3>2. QED
      BY <3>1 DEF SteadyContributions, Accumulating
  <2>3. QED
    BY <1>2, <2>1, <2>2, ForgettingKeeps
<1>9. CASE UNCHANGED hvars
  <2>1. UNCHANGED <<store, ancestor, policies, pc, view, base, merged, tally, interrupted>>
    BY <1>9 DEF hvars, vars, histories
  <2>2. Kept(own)
    BY <1>2, <2>1
  <2>3. ASSUME NEW w \in Workers PROVE Based(w)' /\ ViewedB(w)'
    BY <2>1, <2>2 DEF Kept, Based, HasDecided, AncestorView, ViewedB, HasRead
  <2>4. ASSUME NEW f \in Accumulating' PROVE PathKept(own, f)'
    <3>1. f \in Accumulating /\ PathKept(own, f)
      BY <2>1, <2>2 DEF Accumulating, Kept
    <3>2. NothingYet(f)' /\ Counted(own, f)'
      BY <2>1, <3>1 DEF PathKept, NothingYet, Counted, InA, InB, Known, ViewA, HasRead, HasPushed
    <3>3. ASSUME NEW w \in Workers
          PROVE  ViewedA(own, w, f)' /\ DecidedValue(w, f)' /\ CommitsB(w, f)'
      BY <2>1, <3>1 DEF PathKept, ViewedA, DecidedValue, CommitsB, InA, InB, Known, ViewA, ViewB,
                        HasRead, HasPushed, HasDecided
    <3>4. QED
      BY <3>2, <3>3 DEF PathKept
  <2>5. QED
    BY <2>3, <2>4 DEF Kept
<1>10. QED
  BY <1>3, <1>4, <1>5, <1>6, <1>7, <1>8, <1>9 DEF HNext

\* At first there is nothing to merge.
LEMMA InitCounts ==
    ASSUME TypeOK, HistoryTypeOK, InSyncAtFirst, NEW own, HInit
    PROVE  ContributionInvariant(own)
<1>1. PICK i \in Initial, p \in PolicyMaps :
         /\ store = [s \in Sides |-> Seeded(IF s = SideA THEN i.a ELSE i.b)]
         /\ ancestor = i.ancestor /\ policies = p
         /\ pc = [w \in Workers |-> "idle"]
  BY DEF HInit, Init
<1>2. tally = [f \in Fields |-> Contents(IF ancestor = None THEN Absent ELSE ancestor[f])]
  BY DEF HInit
<1>3. ASSUME NEW w \in Workers
      PROVE  /\ ~HasRead(w, SideA) /\ ~HasRead(w, SideB) /\ ~HasDecided(w) /\ ~HasPushed(w, SideA)
             /\ pc[w] # "decide" /\ pc[w] # "commit"
  BY <1>1 DEF HasRead, HasDecided, HasPushed
<1>4. ASSUME NEW w \in Workers PROVE Based(w) /\ ViewedB(w)
  BY <1>3 DEF Based, ViewedB
<1>5. ASSUME NEW f \in Accumulating PROVE PathKept(own, f)
  <2> DEFINE policy == Lookup(policies, f)
  <2>1. f \in Fields /\ Accumulates(policy)
    BY DEF Accumulating
  <2>2. /\ InA(f) = Seeded(i.a).doc[f] /\ InB(f) = Seeded(i.b).doc[f]
        /\ Known(f) = IF i.ancestor = None THEN Absent ELSE i.ancestor[f]
    BY <1>1 DEF InA, InB, Known, Sides, SideA, SideB
  <2>3. Same(InA(f), Known(f)) /\ Same(InB(f), Known(f))
    <3>1. \A d \in {i.a, i.b} :
             Same(Seeded(d).doc[f], IF i.ancestor = None THEN Absent ELSE i.ancestor[f])
      BY <1>1, <2>1 DEF InSyncAtFirst
    <3>2. QED
      BY <2>2, <3>1
  <2>4. /\ InA(f) \in Entry /\ InB(f) \in Entry /\ Known(f) \in Entry
    BY <2>1, PathTypes
  <2>5. tally[f] = Contents(Known(f))
    BY <1>2, <2>1 DEF Known
  <2> HIDE DEF policy
  <2>6. /\ Contents(InA(f)) = Contents(Known(f)) /\ Contents(InB(f)) = Contents(Known(f))
        /\ Contents(Known(f)) \in Tally
    BY <2>3, <2>4, SameContents, ContentsByKind
  <2>7. Linear(tally[f], InA(f), InB(f), Known(f))
    BY <2>5, <2>6 DEF Linear, Tally
  <2>8. /\ Same(Known(f), InA(f)) /\ Same(Known(f), InB(f)) /\ Same(Known(f), Known(f))
    BY <2>3, <2>4, SameIsEquivalence
  <2>9. Extends(own[SideA], Known(f), InA(f)) /\ Extends(own[SideB], Known(f), InB(f))
    BY <2>4, <2>8, ExtendsItself, ExtendsSame
  <2>10. Counted(own, f)
    BY <1>3, <2>7, <2>9 DEF Counted, Balanced
  <2>11. NothingYet(f)
    BY <1>3, <2>3 DEF NothingYet, Known
  <2>12. \A w \in Workers : ViewedA(own, w, f) /\ DecidedValue(w, f) /\ CommitsB(w, f)
    BY <1>3 DEF ViewedA, DecidedValue, CommitsB
  <2>13. QED
    BY <2>10, <2>11, <2>12 DEF PathKept
<1>6. QED
  BY <1>4, <1>5 DEF ContributionInvariant, Kept

\* In sync and at rest, what is counted is there.
LEMMA CountedIsKept ==
    ASSUME TypeOK, HistoryTypeOK, NEW own, ContributionInvariant(own)
    PROVE  ContributionsKept
<1> SUFFICES ASSUME AtRest, ~interrupted,
                    NEW f \in Fields, Accumulates(Lookup(policies, f))
             PROVE  Contents(store[SideA].doc[f]) = tally[f]
  BY DEF ContributionsKept
<1>1. f \in Accumulating /\ PathKept(own, f)
  BY DEF ContributionInvariant, Kept, Accumulating
<1>2. \A w \in Workers : ~HasPushed(w, SideA)
  BY DEF AtRest, HasPushed
<1>3. Linear(tally[f], InA(f), InB(f), Known(f))
  BY <1>1, <1>2 DEF PathKept, Counted, Balanced
<1>4. Same(InA(f), Known(f)) /\ Same(InB(f), Known(f))
  BY DEF AtRest, Agree, InA, InB, Known, Sides
<1>5. /\ InA(f) \in Entry /\ InB(f) \in Entry /\ Known(f) \in Entry /\ tally[f] \in Tally
  BY PathTypes
<1>6. /\ Contents(InA(f)) = Contents(Known(f)) /\ Contents(InB(f)) = Contents(Known(f))
      /\ Contents(Known(f)) \in Tally
  BY <1>4, <1>5, SameContents, ContentsByKind
<1> DEFINE c == Contents(InA(f))
           t == tally[f]
<1>7. t.sum = c.sum /\ \A x \in Items : t.items[x] = c.items[x]
  BY <1>3, <1>6 DEF Linear, Tally
<1>8. t \in Tally /\ c \in Tally
  BY <1>5, <1>6
<1> HIDE DEF c, t
<1>9. t.items = c.items
  BY <1>7, <1>8 DEF Tally
<1>10. t = c
  BY <1>7, <1>8, <1>9 DEF Tally
<1>11. QED
  BY <1>10 DEF c, t, InA

\* No delta of a counter and no item of a list is lost or counted twice: while every
\* cycle that writes gets to its commit, the systems hold exactly what their
\* applications put in whenever they are in sync.  For every set of documents and
\* policy maps, any number of edits, failures and restarts; it takes one cycle at a
\* time (interleaved ones break it), stores that outlive the process, and
\* applications that contribute, each list item being one side's own.
THEOREM ContributionsAreKept ==
    ASSUME OneCycleAtATime, DurableAncestor, SteadyContributions, InSyncAtFirst,
           InvariantsLeaveContributions,
           NEW own \in [Sides -> SUBSET Items], own[SideA] \cap own[SideB] = {}
    PROVE  HSpec /\ EditsContribute(own) => []ContributionsKept
<1>1. TypeOK /\ HistoryTypeOK /\ HInit => ContributionInvariant(own)
  BY InitCounts
<1>2. /\ TypeOK /\ TypeOK' /\ HistoryTypeOK /\ CycleInvariant /\ ContributionInvariant(own)
      /\ [HNext]_hvars /\ [EditContributes(own)]_hvars
      => ContributionInvariant(own)'
  BY StepKeepsCount
<1>3. TypeOK /\ HistoryTypeOK /\ ContributionInvariant(own) => ContributionsKept
  BY CountedIsKept
<1>4. QED
  BY <1>1, <1>2, <1>3, TypeCorrect, HistoryTypeCorrect, CycleSafe, HistoryRefines, PTL
     DEF HSpec, EditsContribute
=============================================================================
