-------------------------- MODULE SyncCycleProofs --------------------------
(***************************************************************************)
(* Type correctness and safety of the sync cycle, for any number of        *)
(* workers, any documents and policies, any tier-2 invariants and any      *)
(* edits.                                                                  *)
(***************************************************************************)
EXTENDS SyncCycle, MergePoliciesProofs

-----------------------------------------------------------------------------
(* The operators of the module.                                            *)

\* An adapter seeded with a document, or left empty, holds a well-typed record.
LEMMA SeededType ==
    ASSUME NEW d \in Doc \cup {None}
    PROVE  Seeded(d) \in Record
<1>1. EmptyDoc \in Doc
  BY DEF EmptyDoc, Doc
<1>2. QED
  BY <1>1 DEF Seeded, Record

\* What a worker knows before it has read anything has its type.
LEMMA NothingReadType ==
    NothingRead \in [Sides -> [doc : Doc, version : Nat]] /\ EmptyDoc \in Doc
  BY DEF NothingRead, EmptyDoc, Doc

\* An accepted upsert stores a document that holds the whole patch, under a new
\* version and with the key of the patch.
LEMMA WrittenFacts ==
    ASSUME NEW r \in Record, NEW p \in Doc
    PROVE  /\ Written(r, p, idempotency_key(p)) \in Record
           /\ Written(r, p, idempotency_key(p)).present
           /\ Written(r, p, idempotency_key(p)).version = r.version + 1
           /\ Written(r, p, idempotency_key(p)).last_key = p
           /\ Covers(Written(r, p, idempotency_key(p)).doc, p)
<1> DEFINE d == IF r.present THEN ShallowMerge(r.doc, p) ELSE p
<1>1. d \in Doc
  BY DEF Record, ShallowMerge, Doc
<1>2. Covers(d, p)
  BY DEF Covers, ShallowMerge, Doc
<1>3. Written(r, p, idempotency_key(p)) =
         [present |-> TRUE, doc |-> d, version |-> r.version + 1, last_key |-> p]
  BY DEF Written, idempotency_key
<1> HIDE DEF d
<1>4. QED
  BY <1>1, <1>2, <1>3 DEF Record

\* The tier-2 invariants turn a document into a document, or reject it.
LEMMA ApplyInvariantsType ==
    ASSUME NEW previous, NEW candidate \in Doc
    PROVE  ApplyInvariants(previous, candidate) \in Doc \cup {None}
  BY Tier2Assumption DEF ApplyInvariants

\* The conflicts of a cycle are what the escalation queue holds.
LEMMA ConflictType ==
    /\ \A map, f : f \in Fields => FieldConflict(map, f) \in Conflict
    /\ InvariantConflict \in Conflict
  BY DEF FieldConflict, InvariantConflict, Conflict

\* A cycle decides on documents.
LEMMA CycleCandidateType ==
    ASSUME TypeOK, NEW w \in Workers, CycleConflicts(w, policies) = {}
    PROVE  ApplyInvariants(base[w], CycleCandidate(w, policies)) \in Doc \cup {None}
<1>1. base[w] \in Doc /\ view[w][SideA].doc \in Doc /\ view[w][SideB].doc \in Doc
  BY DEF TypeOK, Sides
<1>2. CycleCandidate(w, policies) \in Doc
  BY <1>1, CandidateType DEF CycleCandidate, CycleConflicts
<1>3. QED
  BY <1>2, ApplyInvariantsType

\* What a worker forgets has its type.
LEMMA ReturnType ==
    ASSUME TypeOK, NEW w \in Workers, Return(w)
    PROVE  /\ pc' \in [Workers -> PC]
           /\ view' \in [Workers -> [Sides -> [doc : Doc, version : Nat]]]
           /\ base' \in [Workers -> Doc]
           /\ merged' \in [Workers -> Doc]
  BY NothingReadType DEF TypeOK, Return, PC

\* A record that is stored has its type.
LEMMA StoreType ==
    ASSUME TypeOK, NEW s \in Sides, NEW p \in Doc,
           Store(s, Written(store[s], p, idempotency_key(p)))
    PROVE  store' \in [Sides -> Record] /\ held' \in [Sides -> SUBSET Doc]
<1> DEFINE r == Written(store[s], p, idempotency_key(p))
<1>1. r \in Record
  BY WrittenFacts DEF TypeOK
<1>2. r.doc \in Doc
  BY <1>1 DEF Record
<1>3. store' = [store EXCEPT ![s] = r] /\ held' = [held EXCEPT ![s] = @ \cup {r.doc}]
  BY DEF Store
<1> HIDE DEF r
<1>4. QED
  BY <1>1, <1>2, <1>3 DEF TypeOK

-----------------------------------------------------------------------------
(* Type correctness.                                                       *)

\* The initial states are well typed.
LEMMA InitType == Init => TypeOK
<1> SUFFICES ASSUME NEW i \in Initial, NEW p \in PolicyMaps,
                    store    = [s \in Sides |-> Seeded(IF s = SideA THEN i.a ELSE i.b)],
                    ancestor = i.ancestor,
                    queue    = <<>>,
                    policies = p,
                    pc       = [w \in Workers |-> "idle"],
                    view     = [w \in Workers |-> NothingRead],
                    base     = [w \in Workers |-> EmptyDoc],
                    merged   = [w \in Workers |-> EmptyDoc],
                    edits    = 0,
                    faults   = 0,
                    held = [s \in Sides |-> {IF s = SideA THEN i.a ELSE i.b, i.ancestor} \ {None}]
             PROVE  TypeOK
  BY DEF Init
<1>1. i.a \in Doc \cup {None} /\ i.b \in Doc \cup {None} /\ i.ancestor \in Doc \cup {None}
  BY InitialAssumption
<1>2. store \in [Sides -> Record]
  BY <1>1, SeededType
<1>3. held \in [Sides -> SUBSET Doc]
  BY <1>1
<1>4. queue \in Seq(SUBSET Conflict)
  OBVIOUS
<1>5. QED
  BY <1>1, <1>2, <1>3, <1>4, NothingReadType DEF TypeOK, PC

\* Every step of a cycle keeps the types, one case per call the cycle makes.
LEMMA CycleStepType ==
    ASSUME TypeOK, NEW w \in Workers, CycleStep(w)
    PROVE  TypeOK'
<1> USE DEF PC, locals
<1>1. ASSUME NEW s \in Sides, ReadSide(w, s) PROVE TypeOK'
  <2>1. store[s].doc \in Doc /\ store[s].version \in Nat
    BY DEF TypeOK, Record
  <2>2. view' \in [Workers -> [Sides -> [doc : Doc, version : Nat]]]
    BY <1>1, <2>1 DEF ReadSide, TypeOK
  <2>3. QED
    BY <1>1, <2>2 DEF ReadSide, GoTo, TypeOK
<1>2. ASSUME NEW s \in Sides, NotFound(w, s) PROVE TypeOK'
  BY <1>2, ReturnType DEF NotFound, TypeOK
<1>3. CASE NoOp(w)
  BY <1>3, ReturnType DEF NoOp, TypeOK
<1>4. CASE ReadAncestor(w)
  <2>1. AncestorView(w) \in Doc
    BY DEF AncestorView, TypeOK, Sides
  <2>2. QED
    BY <1>4, <2>1 DEF ReadAncestor, GoTo, TypeOK
<1>5. CASE Escalate(w)
  <2>1. CycleConflicts(w, policies) \subseteq Fields
    BY DEF CycleConflicts, Conflicts, Changes, Changed
  <2>2. {FieldConflict(policies, f) : f \in CycleConflicts(w, policies)} \in SUBSET Conflict
    BY <2>1, ConflictType
  <2>3. queue' \in Seq(SUBSET Conflict)
    BY <1>5, <2>2 DEF Escalate, TypeOK
  <2>4. QED
    BY <1>5, <2>3, ReturnType DEF Escalate, TypeOK
<1>6. CASE RejectCandidate(w)
  <2>1. queue' \in Seq(SUBSET Conflict)
    BY <1>6, ConflictType DEF RejectCandidate, TypeOK
  <2>2. QED
    BY <1>6, <2>1, ReturnType DEF RejectCandidate, TypeOK
<1>7. CASE Decide(w)
  <2>1. ApplyInvariants(base[w], CycleCandidate(w, policies)) \in Doc
    BY <1>7, CycleCandidateType DEF Decide
  <2>2. QED
    BY <1>7, <2>1 DEF Decide, GoTo, AfterMerge, AfterPushA, TypeOK
<1>8. ASSUME NEW s \in Sides, PushDuplicate(w, s) PROVE TypeOK'
  BY <1>8 DEF PushDuplicate, AfterPush, AfterPushA, GoTo, TypeOK
<1>9. ASSUME NEW s \in Sides, PushStale(w, s) PROVE TypeOK'
  BY <1>9, ReturnType DEF PushStale, TypeOK
<1>10. ASSUME NEW s \in Sides, PushApplied(w, s) PROVE TypeOK'
  <2>1. store' \in [Sides -> Record] /\ held' \in [Sides -> SUBSET Doc]
    <3>1. merged[w] \in Doc
      BY DEF TypeOK
    <3>2. QED
      BY <1>10, <3>1, StoreType DEF PushApplied, WritePush
  <2>2. QED
    BY <1>10, <2>1 DEF PushApplied, AfterPush, AfterPushA, GoTo, TypeOK
<1>11. CASE Commit(w)
  BY <1>11, ReturnType DEF Commit, TypeOK
<1>12. QED
  BY <1>1, <1>2, <1>3, <1>4, <1>5, <1>6, <1>7, <1>8, <1>9, <1>10, <1>11 DEF CycleStep

\* So does every other step: starts, failures, restarts, edits, new policies.
LEMMA StepType ==
    ASSUME TypeOK, [Next]_vars
    PROVE  TypeOK'
<1>1. ASSUME NEW w \in Workers, StartCycle(w) PROVE TypeOK'
  BY <1>1 DEF StartCycle, GoTo, PC, locals, TypeOK
<1>2. ASSUME NEW w \in Workers, CycleStep(w) PROVE TypeOK'
  BY <1>2, CycleStepType
<1>3. ASSUME NEW w \in Workers, Fail(w) PROVE TypeOK'
  BY <1>3, ReturnType DEF Fail, TypeOK
<1>4. ASSUME NEW w \in Workers, NEW s \in Sides, PushResponseLost(w, s) PROVE TypeOK'
  <2>1. store' \in [Sides -> Record] /\ held' \in [Sides -> SUBSET Doc]
    <3>1. merged[w] \in Doc
      BY DEF TypeOK
    <3>2. QED
      BY <1>4, <3>1, StoreType DEF PushResponseLost, WritePush
  <2>2. QED
    BY <1>4, <2>1, ReturnType DEF PushResponseLost, TypeOK
<1>5. ASSUME NEW s \in Sides, AppEdit(s) PROVE TypeOK'
  <2>1. store' \in [Sides -> Record] /\ held' \in [Sides -> SUBSET Doc]
    BY <1>5, StoreType DEF AppEdit
  <2>2. QED
    BY <1>5, <2>1 DEF AppEdit, locals, TypeOK
<1>6. CASE SetPolicies
  BY <1>6 DEF SetPolicies, locals, TypeOK
<1>7. CASE Restart
  <2>1. queue' \in Seq(SUBSET Conflict)
    BY <1>7 DEF Restart, TypeOK
  <2>2. QED
    BY <1>7, <2>1, NothingReadType DEF Restart, PC, TypeOK
<1>8. CASE UNCHANGED vars
  BY <1>8 DEF vars, locals, TypeOK
<1>9. QED
  BY <1>1, <1>2, <1>3, <1>4, <1>5, <1>6, <1>7, <1>8 DEF Next

\* Every reachable state is well typed: no cycle pushes, commits or queues
\* anything but documents and conflicts, under any policies.
THEOREM TypeCorrect == Spec => []TypeOK
<1>1. TypeOK /\ [Next]_vars => TypeOK'
  BY StepType
<1>2. QED
  BY InitType, <1>1, PTL DEF Spec

-----------------------------------------------------------------------------
(* The inductive invariant of the cycle.                                   *)

\* A document covers itself: what was stored whole is held.
LEMMA CoversItself == \A d : Covers(d, d)
  BY DEF Covers

\* Every write of a record, by a cycle or by an application, is an upsert.
StoresGrow ==
    \/ UNCHANGED <<store, held>>
    \/ \E s \in Sides, p \in Doc : Store(s, Written(store[s], p, idempotency_key(p)))

\* An upsert forgets no document a side has held, pins what was pinned, and
\* leaves every key true.
LEMMA UpsertKeeps ==
    ASSUME TypeOK, CycleInvariant, StoresGrow
    PROVE  /\ \A s \in Sides : held[s] \subseteq held'[s]
           /\ KeysTellTheTruth'
           /\ \A w \in Workers, s \in Sides :
                 HasRead(w, s) /\ view'[w][s] = view[w][s] => Pinned(w, s)'
<1>1. CASE UNCHANGED <<store, held>>
  BY <1>1 DEF CycleInvariant, KeysTellTheTruth, VersionsPin, Pinned
<1>2. ASSUME NEW t \in Sides, NEW p \in Doc,
             Store(t, Written(store[t], p, idempotency_key(p)))
      PROVE  /\ \A s \in Sides : held[s] \subseteq held'[s]
             /\ KeysTellTheTruth'
             /\ \A w \in Workers, s \in Sides :
                   HasRead(w, s) /\ view'[w][s] = view[w][s] => Pinned(w, s)'
  <2> DEFINE r == Written(store[t], p, idempotency_key(p))
  <2>1. /\ r \in Record
        /\ r.present
        /\ r.version = store[t].version + 1
        /\ r.last_key = p
        /\ Covers(r.doc, p)
    BY WrittenFacts DEF TypeOK
  <2>2. /\ store'[t] = r
        /\ held'[t] = held[t] \cup {r.doc}
        /\ \A s \in Sides \ {t} : store'[s] = store[s] /\ held'[s] = held[s]
    BY <1>2 DEF Store, TypeOK
  <2> HIDE DEF r
  <2>3. \A s \in Sides : held[s] \subseteq held'[s]
    BY <2>2
  <2>4. KeysTellTheTruth'
    BY <2>1, <2>2 DEF CycleInvariant, KeysTellTheTruth
  <2>5. ASSUME NEW w \in Workers, NEW s \in Sides, HasRead(w, s), view'[w][s] = view[w][s]
        PROVE  Pinned(w, s)'
    <3>1. Pinned(w, s) /\ view[w][s].version \in Nat /\ store[s].version \in Nat
      BY <2>5 DEF CycleInvariant, VersionsPin, TypeOK, Record
    <3>2. CASE s = t
      BY <3>1, <3>2, <2>1, <2>2, <2>3, <2>5 DEF Pinned
    <3>3. CASE s # t
      BY <3>1, <3>3, <2>2, <2>5 DEF Pinned
    <3>4. QED
      BY <3>2, <3>3
  <2>6. QED
    BY <2>3, <2>4, <2>5
<1>3. QED
  BY <1>1, <1>2 DEF StoresGrow

\* A step keeps the invariant if what it newly reads is pinned, and what it
\* newly confirms or commits is held.
LEMMA Frame ==
    ASSUME TypeOK, CycleInvariant, StoresGrow,
           \A w \in Workers, s \in Sides :
              HasRead(w, s)' => \/ HasRead(w, s) /\ view'[w][s] = view[w][s]
                               \/ Pinned(w, s)',
           \A w \in Workers, s \in Sides :
              HasPushed(w, s)' => \/ HasPushed(w, s) /\ merged'[w] = merged[w]
                                 \/ Holds(s, merged[w])',
           \/ ancestor' \in {ancestor, None}
           \/ \A s \in Sides : Holds(s, ancestor)'
    PROVE  CycleInvariant'
<1>1. VersionsPin'
  BY UpsertKeeps DEF VersionsPin
<1>2. \A s \in Sides : \A d : Holds(s, d) => \E e \in held'[s] : Covers(e, d)
  BY UpsertKeeps DEF Holds
<1>3. PushesConfirmed'
  BY <1>2 DEF PushesConfirmed, CycleInvariant, Holds
<1>4. AncestorConfirmed'
  BY <1>2 DEF AncestorConfirmed, CycleInvariant, Holds
<1>5. QED
  BY <1>1, <1>3, <1>4, UpsertKeeps DEF CycleInvariant

\* A cycle that ends without a commit keeps the invariant.
LEMMA ReturnKeeps ==
    ASSUME TypeOK, CycleInvariant, StoresGrow, NEW w \in Workers, Return(w),
           ancestor' = ancestor
    PROVE  CycleInvariant'
<1>1. ASSUME NEW v \in Workers, NEW s \in Sides
      PROVE  /\ HasRead(v, s)' => HasRead(v, s) /\ view'[v][s] = view[v][s]
             /\ HasPushed(v, s)' => HasPushed(v, s) /\ merged'[v] = merged[v]
  <2>1. CASE v = w
    BY <2>1 DEF Return, HasRead, HasPushed, TypeOK
  <2>2. CASE v # w
    BY <2>2 DEF Return, HasRead, HasPushed, TypeOK
  <2>3. QED
    BY <2>1, <2>2
<1>2. QED
  BY <1>1, Frame

\* So does a cycle that goes on with what it has read and merged, to a call it
\* may make: one before which it has read and pushed what it is said to have.
LEMMA GoToKeeps ==
    ASSUME TypeOK, CycleInvariant, StoresGrow, NEW w \in Workers, NEW label,
           GoTo(w, label), UNCHANGED <<view, merged, ancestor>>,
           \A s \in Sides : HasRead(w, s)' => HasRead(w, s),
           \A s \in Sides : HasPushed(w, s)' => HasPushed(w, s) \/ Holds(s, merged[w])'
    PROVE  CycleInvariant'
<1>1. ASSUME NEW v \in Workers, NEW s \in Sides
      PROVE  /\ HasRead(v, s)' => HasRead(v, s) /\ view'[v][s] = view[v][s]
             /\ HasPushed(v, s)' => \/ HasPushed(v, s) /\ merged'[v] = merged[v]
                                    \/ Holds(s, merged[v])'
  <2>1. CASE v = w
    BY <2>1
  <2>2. CASE v # w
    BY <2>2 DEF GoTo, HasRead, HasPushed, TypeOK
  <2>3. QED
    BY <2>1, <2>2
<1>2. QED
  BY <1>1, Frame

\* After an accepted or repeated push the side has held the merged document.
LEMMA PushHolds ==
    ASSUME TypeOK, CycleInvariant, NEW w \in Workers, NEW s \in Sides,
           PushDuplicate(w, s) \/ PushApplied(w, s)
    PROVE  StoresGrow /\ \E e \in held'[s] : Covers(e, merged[w])
<1>1. merged[w] \in Doc
  BY DEF TypeOK
<1>2. CASE PushDuplicate(w, s)
  <2>1. store[s].present /\ store[s].last_key = merged[w]
    BY <1>2 DEF PushDuplicate, Duplicate, idempotency_key
  <2>2. store[s].doc \in held[s] /\ Covers(store[s].doc, merged[w])
    BY <1>1, <2>1, NoneIsNoValue DEF CycleInvariant, KeysTellTheTruth
  <2>3. QED
    BY <1>2, <2>2 DEF PushDuplicate, StoresGrow
<1>3. CASE PushApplied(w, s)
  <2> DEFINE r == Written(store[s], merged[w], idempotency_key(merged[w]))
  <2>1. Store(s, r)
    BY <1>3 DEF PushApplied, WritePush
  <2>2. Covers(r.doc, merged[w])
    BY <1>1, WrittenFacts DEF TypeOK
  <2>3. r.doc \in held'[s]
    BY <2>1 DEF Store, TypeOK
  <2>4. QED
    BY <1>1, <2>1, <2>2, <2>3 DEF StoresGrow
<1>4. QED
  BY <1>2, <1>3

\* A push keeps the invariant, whether the system writes or recognises the key.
LEMMA PushKeeps ==
    ASSUME TypeOK, CycleInvariant, NEW w \in Workers, NEW s \in Sides,
           PushDuplicate(w, s) \/ PushApplied(w, s)
    PROVE  CycleInvariant'
<1>1. StoresGrow /\ \E e \in held'[s] : Covers(e, merged[w])
  BY PushHolds
<1>2. /\ pc[w] = PushPC(s)
      /\ AfterPush(w, s)
      /\ UNCHANGED <<view, merged, ancestor>>
  BY DEF PushDuplicate, PushApplied, WritePush, locals
<1> DEFINE label == IF s = SideA THEN AfterPushA(merged[w], view[w][SideB].doc) ELSE "commit"
<1>3. GoTo(w, label) /\ pc'[w] = label
  BY <1>2 DEF AfterPush, GoTo, TypeOK
<1>4. \A t \in Sides : HasRead(w, t)
  BY <1>2 DEF HasRead, PushPC, Sides, SideA, SideB
<1>5. ASSUME NEW t \in Sides, HasPushed(w, t)'
      PROVE  HasPushed(w, t) \/ Holds(t, merged[w])'
  <2>1. CASE t = s
    BY <2>1, <1>1, <1>2 DEF Holds
  <2>2. CASE t # s /\ s = SideB
    BY <2>2, <1>2 DEF HasPushed, PushPC, Sides, SideA, SideB
  <2>3. CASE t # s /\ s = SideA
    <3>1. t = SideB /\ pc'[w] = "commit" /\ merged[w] = view[w][SideB].doc
      BY <2>3, <1>3, <1>5 DEF HasPushed, AfterPushA, Sides, SideA, SideB
    <3>2. merged[w] \in held[t]
      BY <3>1, <1>4 DEF CycleInvariant, VersionsPin, Pinned
    <3>3. merged'[w] \in held'[t]
      BY <3>2, <1>1, <1>2, UpsertKeeps
    <3>4. QED
      BY <3>3, CoversItself DEF Holds
  <2>4. QED
    BY <2>1, <2>2, <2>3 DEF Sides
<1> HIDE DEF label
<1>6. QED
  BY <1>1, <1>2, <1>3, <1>4, <1>5, GoToKeeps

\* A fetch is pinned by the version it returns.
LEMMA ReadKeeps ==
    ASSUME TypeOK, CycleInvariant, NEW w \in Workers, NEW s \in Sides, ReadSide(w, s)
    PROVE  CycleInvariant'
<1>1. /\ pc[w] = ReadPC(s)
      /\ store[s].present
      /\ view' = [view EXCEPT ![w][s] = [doc |-> store[s].doc, version |-> store[s].version]]
      /\ pc' = [pc EXCEPT ![w] = IF s = SideA THEN "read_b" ELSE "read_ancestor"]
      /\ UNCHANGED <<store, held, merged, ancestor>>
  BY DEF ReadSide, GoTo
<1>2. store[s].doc \in held[s] /\ store[s].version \in Nat
  BY <1>1 DEF CycleInvariant, KeysTellTheTruth, TypeOK, Record
<1>3. view'[w][s].doc = store[s].doc /\ view'[w][s].version = store[s].version
  BY <1>1 DEF TypeOK
<1>4. Pinned(w, s)'
  BY <1>1, <1>2, <1>3 DEF Pinned
<1>5. ASSUME NEW v \in Workers, NEW t \in Sides, HasRead(v, t)', ~(v = w /\ t = s)
      PROVE  HasRead(v, t) /\ view'[v][t] = view[v][t]
  <2>1. view'[v][t] = view[v][t]
    BY <1>1, <1>5 DEF TypeOK
  <2>2. CASE v # w
    BY <2>1, <2>2, <1>1, <1>5 DEF HasRead, TypeOK
  <2>3. CASE v = w
    <3>1. pc[w] = ReadPC(s) /\ pc'[w] = IF s = SideA THEN "read_b" ELSE "read_ancestor"
      BY <1>1 DEF TypeOK
    <3>2. CASE s = SideA
      BY <3>1, <3>2, <2>3, <1>5 DEF HasRead, Sides, SideA, SideB
    <3>3. CASE s = SideB
      <4>1. t = SideA /\ pc[w] = "read_b"
        BY <3>1, <3>3, <2>3, <1>5 DEF ReadPC, Sides, SideA, SideB
      <4>2. QED
        BY <4>1, <2>1, <2>3 DEF HasRead
    <3>4. QED
      BY <3>2, <3>3 DEF Sides
  <2>4. QED
    BY <2>2, <2>3
<1>6. ASSUME NEW v \in Workers, NEW t \in Sides, HasPushed(v, t)'
      PROVE  HasPushed(v, t) /\ merged'[v] = merged[v]
  BY <1>1, <1>6 DEF HasPushed, TypeOK
<1>7. QED
  BY <1>1, <1>4, <1>5, <1>6, Frame DEF StoresGrow

\* A decision pushes to every side that does not hold the merged document: the
\* others have been read.
LEMMA DecideKeeps ==
    ASSUME TypeOK, CycleInvariant, NEW w \in Workers, Decide(w)
    PROVE  CycleInvariant'
<1> DEFINE m == ApplyInvariants(base[w], CycleCandidate(w, policies))
           label == AfterMerge(m, view[w][SideA].doc, view[w][SideB].doc)
<1>1. /\ pc[w] = "decide"
      /\ merged' = [merged EXCEPT ![w] = m]
      /\ pc' = [pc EXCEPT ![w] = label]
      /\ UNCHANGED <<store, held, view, ancestor>>
  BY DEF Decide, GoTo
<1> HIDE DEF m
<1>2. pc'[w] = label /\ merged'[w] = m
  BY <1>1 DEF TypeOK
<1>3. \A s \in Sides : HasRead(w, s)
  BY <1>1 DEF HasRead
<1>4. ASSUME NEW s \in Sides, HasPushed(w, s)'
      PROVE  Holds(s, merged[w])'
  <2>1. m = view[w][s].doc
    BY <1>2, <1>4 DEF HasPushed, AfterMerge, AfterPushA, Sides, SideA, SideB
  <2>2. m \in held'[s]
    BY <2>1, <1>1, <1>3 DEF CycleInvariant, VersionsPin, Pinned
  <2>3. QED
    BY <2>2, <1>2, CoversItself DEF Holds
<1>5. ASSUME NEW v \in Workers, NEW s \in Sides
      PROVE  /\ HasRead(v, s)' => HasRead(v, s) /\ view'[v][s] = view[v][s]
             /\ HasPushed(v, s)' => \/ HasPushed(v, s) /\ merged'[v] = merged[v]
                                    \/ Holds(s, merged[v])'
  <2>1. CASE v = w
    BY <2>1, <1>1, <1>3, <1>4
  <2>2. CASE v # w
    BY <2>2, <1>1 DEF HasRead, HasPushed, TypeOK
  <2>3. QED
    BY <2>1, <2>2
<1>6. QED
  BY <1>1, <1>5, Frame DEF StoresGrow

\* A commit keeps the invariant: both sides have held what becomes the ancestor.
LEMMA CommitKeeps ==
    ASSUME TypeOK, CycleInvariant, NEW w \in Workers, Commit(w)
    PROVE  CycleInvariant'
<1>1. /\ pc[w] = "commit" /\ Return(w) /\ ancestor' = merged[w]
      /\ UNCHANGED <<store, held>>
  BY DEF Commit
<1>2. \A s \in Sides : Holds(s, ancestor)'
  <2>1. \A s \in Sides : Holds(s, merged[w])
    BY <1>1 DEF CycleInvariant, PushesConfirmed, HasPushed
  <2>2. QED
    BY <2>1, <1>1 DEF Holds
<1>3. ASSUME NEW v \in Workers, NEW s \in Sides
      PROVE  /\ HasRead(v, s)' => HasRead(v, s) /\ view'[v][s] = view[v][s]
             /\ HasPushed(v, s)' => HasPushed(v, s) /\ merged'[v] = merged[v]
  <2>1. CASE v = w
    BY <2>1, <1>1 DEF Return, HasRead, HasPushed, TypeOK
  <2>2. CASE v # w
    BY <2>2, <1>1 DEF Return, HasRead, HasPushed, TypeOK
  <2>3. QED
    BY <2>1, <2>2
<1>4. QED
  BY <1>1, <1>2, <1>3, Frame DEF StoresGrow

\* Every step of a cycle keeps the invariant.
LEMMA CycleStepKeeps ==
    ASSUME TypeOK, CycleInvariant, NEW w \in Workers, CycleStep(w)
    PROVE  CycleInvariant'
<1>1. ASSUME NEW s \in Sides, ReadSide(w, s) PROVE CycleInvariant'
  BY <1>1, ReadKeeps
<1>2. ASSUME NEW s \in Sides, NotFound(w, s) PROVE CycleInvariant'
  BY <1>2, ReturnKeeps DEF NotFound, StoresGrow
<1>3. CASE NoOp(w)
  BY <1>3, ReturnKeeps DEF NoOp, StoresGrow
<1>4. CASE ReadAncestor(w)
  <2>1. /\ GoTo(w, "decide") /\ pc[w] = "read_ancestor" /\ pc'[w] = "decide"
        /\ UNCHANGED <<store, held, view, merged, ancestor>>
    BY <1>4 DEF ReadAncestor, GoTo, TypeOK
  <2>2. \A s \in Sides : HasRead(w, s) /\ ~HasPushed(w, s)'
    BY <2>1 DEF HasRead, HasPushed
  <2>3. QED
    BY <2>1, <2>2, GoToKeeps DEF StoresGrow
<1>5. CASE Escalate(w)
  BY <1>5, ReturnKeeps DEF Escalate, StoresGrow
<1>6. CASE RejectCandidate(w)
  BY <1>6, ReturnKeeps DEF RejectCandidate, StoresGrow
<1>7. CASE Decide(w)
  BY <1>7, DecideKeeps
<1>8. ASSUME NEW s \in Sides, PushDuplicate(w, s) \/ PushApplied(w, s) PROVE CycleInvariant'
  BY <1>8, PushKeeps
<1>9. ASSUME NEW s \in Sides, PushStale(w, s) PROVE CycleInvariant'
  BY <1>9, ReturnKeeps DEF PushStale, StoresGrow
<1>10. CASE Commit(w)
  BY <1>10, CommitKeeps
<1>11. QED
  BY <1>1, <1>2, <1>3, <1>4, <1>5, <1>6, <1>7, <1>8, <1>9, <1>10 DEF CycleStep

\* Every step of the specification keeps the invariant.
LEMMA StepKeeps ==
    ASSUME TypeOK, CycleInvariant, [Next]_vars
    PROVE  CycleInvariant'
<1>1. ASSUME NEW w \in Workers, StartCycle(w) PROVE CycleInvariant'
  <2>1. /\ GoTo(w, "read_a") /\ pc'[w] = "read_a"
        /\ UNCHANGED <<store, held, view, merged, ancestor>>
    BY <1>1 DEF StartCycle, GoTo, locals, TypeOK
  <2>2. \A s \in Sides : ~HasRead(w, s)' /\ ~HasPushed(w, s)'
    BY <2>1 DEF HasRead, HasPushed
  <2>3. QED
    BY <2>1, <2>2, GoToKeeps DEF StoresGrow
<1>2. ASSUME NEW w \in Workers, CycleStep(w) PROVE CycleInvariant'
  BY <1>2, CycleStepKeeps
<1>3. ASSUME NEW w \in Workers, Fail(w) PROVE CycleInvariant'
  BY <1>3, ReturnKeeps DEF Fail, StoresGrow
<1>4. ASSUME NEW w \in Workers, NEW s \in Sides, PushResponseLost(w, s) PROVE CycleInvariant'
  <2>1. StoresGrow
    BY <1>4 DEF PushResponseLost, WritePush, StoresGrow, TypeOK
  <2>2. QED
    BY <1>4, <2>1, ReturnKeeps DEF PushResponseLost
<1>5. ASSUME NEW s \in Sides, AppEdit(s) PROVE CycleInvariant'
  <2>1. StoresGrow /\ UNCHANGED <<pc, view, merged, ancestor>>
    BY <1>5 DEF AppEdit, StoresGrow, locals
  <2>2. QED
    BY <2>1, Frame DEF HasRead, HasPushed
<1>6. CASE SetPolicies
  <2>1. UNCHANGED <<store, held, pc, view, merged, ancestor>>
    BY <1>6 DEF SetPolicies, locals
  <2>2. QED
    BY <2>1, Frame DEF HasRead, HasPushed, StoresGrow
<1>7. CASE Restart
  <2>1. \A w \in Workers, s \in Sides : ~HasRead(w, s)' /\ ~HasPushed(w, s)'
    BY <1>7 DEF Restart, HasRead, HasPushed
  <2>2. QED
    BY <1>7, <2>1, Frame DEF Restart, StoresGrow
<1>8. CASE UNCHANGED vars
  <2>1. UNCHANGED <<store, held, pc, view, merged, ancestor>>
    BY <1>8 DEF vars, locals
  <2>2. QED
    BY <2>1, Frame DEF HasRead, HasPushed, StoresGrow
<1>9. QED
  BY <1>1, <1>2, <1>3, <1>4, <1>5, <1>6, <1>7, <1>8 DEF Next

\* The initial states satisfy it: nothing is read yet, and the adapters hold what
\* they were seeded with.
LEMMA InitInvariant == Init => CycleInvariant
<1> SUFFICES ASSUME Init PROVE CycleInvariant
  OBVIOUS
<1>1. PICK i \in Initial :
        /\ store = [s \in Sides |-> Seeded(IF s = SideA THEN i.a ELSE i.b)]
        /\ ancestor = i.ancestor
        /\ pc = [w \in Workers |-> "idle"]
        /\ held = [s \in Sides |-> {IF s = SideA THEN i.a ELSE i.b, i.ancestor} \ {None}]
  BY DEF Init
<1>2. VersionsPin /\ PushesConfirmed
  BY <1>1 DEF VersionsPin, PushesConfirmed, HasRead, HasPushed
<1>3. KeysTellTheTruth
  <2> SUFFICES ASSUME NEW s \in Sides
               PROVE  /\ store[s].present => store[s].doc \in held[s]
                      /\ store[s].last_key = None
    BY DEF KeysTellTheTruth
  <2> DEFINE d == IF s = SideA THEN i.a ELSE i.b
  <2>1. store[s] = Seeded(d) /\ held[s] = {d, i.ancestor} \ {None}
    BY <1>1
  <2> HIDE DEF d
  <2>2. QED
    BY <2>1 DEF Seeded
<1>4. AncestorConfirmed
  <2> SUFFICES ASSUME ancestor # None, NEW s \in Sides PROVE Holds(s, ancestor)
    BY DEF AncestorConfirmed
  <2>1. ancestor \in held[s]
    BY <1>1
  <2>2. QED
    BY <2>1, CoversItself DEF Holds
<1>5. QED
  BY <1>2, <1>3, <1>4 DEF CycleInvariant

\* The cycle invariant holds in every reachable state.
THEOREM CycleSafe == Spec => []CycleInvariant
<1>1. TypeOK /\ CycleInvariant /\ [Next]_vars => CycleInvariant'
  BY StepKeeps
<1>2. QED
  BY InitInvariant, TypeCorrect, <1>1, PTL DEF Spec

\* The ancestor is a document both systems have really held: no interleaving of
\* cycles, edits, lost answers and restarts commits what a system never stored.
THEOREM AncestorIsConfirmed == Spec => []AncestorConfirmed
<1>1. CycleInvariant => AncestorConfirmed
  BY DEF CycleInvariant
<1>2. QED
  BY CycleSafe, <1>1, PTL

-----------------------------------------------------------------------------
(* No lost update.                                                         *)

\* One step of the property: only the cycle that pushes moves its own counter,
\* and what it writes it writes over the document it has fetched.
LEMMA WriteReplacesRead ==
    ASSUME TypeOK, CycleInvariant, NEW w \in Workers, NEW s \in Sides,
           pc[w] = PushPC(s), ~Stale(store[s], ExpectVersion(w, s))
    PROVE  store[s].doc = view[w][s].doc
<1>1. HasRead(w, s)
  BY DEF HasRead, PushPC, Sides, SideA, SideB
<1>2. view[w][s].version # None
  BY NoneIsNoValue DEF TypeOK
<1>3. store[s].version = view[w][s].version
  BY <1>2 DEF Stale, ExpectVersion
<1>4. QED
  BY <1>1, <1>3 DEF CycleInvariant, VersionsPin, Pinned

\* Who may change a record: an application, or a cycle that pushes to it.
Writer(w, s) ==
    /\ pc[w] = PushPC(s)
    /\ ~Stale(store[s], ExpectVersion(w, s))
    /\ Store(s, Written(store[s], merged[w], idempotency_key(merged[w])))
    /\ edits' = edits
    /\ \A v \in Workers \ {w} : pc'[v] = pc[v]

\* A system changes only by the push of a cycle or by its own application.
LEMMA WhoWrites ==
    ASSUME TypeOK, [Next]_vars
    PROVE  \/ store' = store
           \/ \E s \in Sides : AppEdit(s)
           \/ \E w \in Workers, s \in Sides : Writer(w, s)
<1>1. ASSUME NEW w \in Workers, StartCycle(w) \/ Fail(w) PROVE store' = store
  BY <1>1 DEF StartCycle, Fail
<1>2. ASSUME NEW w \in Workers, CycleStep(w)
      PROVE  store' = store \/ \E s \in Sides : Writer(w, s)
  <2>1. ASSUME NEW s \in Sides, PushApplied(w, s) PROVE Writer(w, s)
    BY <2>1 DEF PushApplied, WritePush, AfterPush, GoTo, Writer, TypeOK
  <2>2. CASE \A s \in Sides : ~PushApplied(w, s)
    BY <1>2, <2>2 DEF CycleStep, ReadSide, NotFound, NoOp, ReadAncestor, Escalate,
                      RejectCandidate, Decide, PushDuplicate, PushStale, Commit
  <2>3. QED
    BY <2>1, <2>2
<1>3. ASSUME NEW w \in Workers, NEW s \in Sides, PushResponseLost(w, s) PROVE Writer(w, s)
  BY <1>3 DEF PushResponseLost, WritePush, Return, Writer, TypeOK
<1>4. CASE SetPolicies \/ Restart \/ UNCHANGED vars
  BY <1>4 DEF SetPolicies, Restart, vars
<1>5. QED
  BY <1>1, <1>2, <1>3, <1>4 DEF Next

\* No lost update: a push that changes a side replaces what its cycle fetched.
THEOREM NoLostUpdate == Spec => PushReplacesRead
<1>1. TypeOK /\ CycleInvariant /\ [Next]_vars =>
        [\A w \in Workers, s \in Sides :
           pc[w] = PushPC(s) /\ pc'[w] # pc[w] /\ store'[s].doc # store[s].doc
             => store[s].doc = view[w][s].doc]_vars
  <2> SUFFICES ASSUME TypeOK, CycleInvariant, [Next]_vars, NEW w \in Workers, NEW s \in Sides,
                      pc[w] = PushPC(s), pc'[w] # pc[w], store'[s].doc # store[s].doc
               PROVE  store[s].doc = view[w][s].doc
    OBVIOUS
  <2>1. ASSUME NEW t \in Sides, AppEdit(t) PROVE FALSE
    BY <2>1 DEF AppEdit
  <2>2. PICK v \in Workers, t \in Sides : Writer(v, t)
    BY <2>1, WhoWrites
  <2>3. v = w
    BY <2>2 DEF Writer
  <2>4. t = s
    BY <2>2, <2>3 DEF Writer, PushPC, Sides, SideA, SideB
  <2>5. QED
    BY <2>2, <2>3, <2>4, WriteReplacesRead DEF Writer
<1>2. QED
  BY CycleSafe, TypeCorrect, <1>1, PTL DEF Spec, PushReplacesRead

-----------------------------------------------------------------------------
(* The source of a field.                                                  *)

HasDecided(w) == pc[w] \in {"push_a", "push_b", "commit"}

\* What a cycle pushes has, in each field, the value it fetched from the source.
KeepsSource ==
    \A w \in Workers, s \in Sides, f \in Fields :
        HasDecided(w) /\ OwnedAlways(s, f) => Same(merged[w][f], view[w][s].doc[f])

\* A cycle decides for the source.
LEMMA DecideKeepsSource ==
    ASSUME InvariantsLeaveOwned, TypeOK, TypeOK', NEW w \in Workers, Decide(w),
           NEW s \in Sides, NEW f \in Fields, OwnedAlways(s, f)
    PROVE  Same(merged'[w][f], view'[w][s].doc[f])
<1> DEFINE a == view[w][SideA].doc
           b == view[w][SideB].doc
           c == CycleCandidate(w, policies)
<1>1. base[w] \in Doc /\ a \in Doc /\ b \in Doc /\ Own(s, a, b) = view[w][s].doc
  BY DEF TypeOK, Sides, Own
<1>2. Lookup(policies, f) = OwnedBy(s)
  BY DEF OwnedAlways, TypeOK
<1>3. Same(c[f], view[w][s].doc[f])
  <2> HIDE DEF a, b
  <2>1. c = Candidate(policies, base[w], a, b)
    BY DEF CycleCandidate, a, b
  <2>2. QED
    BY <1>1, <1>2, <2>1, OwnerMergesItsOwn
<1>4. ApplyInvariants(base[w], c) # None => Same(ApplyInvariants(base[w], c)[f], c[f])
  BY DEF ApplyInvariants, InvariantsLeaveOwned, Same
<1>5. merged'[w] = ApplyInvariants(base[w], c) /\ merged'[w] # None /\ view' = view
  BY DEF Decide, TypeOK
<1> HIDE DEF c
<1>6. Same(merged'[w][f], c[f])
  BY <1>4, <1>5
<1>7. merged'[w] \in Doc /\ c \in Doc /\ view[w][s].doc \in Doc
  <2>1. Conflicts(policies, base[w], a, b) = {} /\ c = Candidate(policies, base[w], a, b)
    BY DEF Decide, CycleConflicts, CycleCandidate, c
  <2>2. merged'[w] \in Doc /\ view[w][s].doc \in Doc
    BY DEF TypeOK
  <2> HIDE DEF a, b
  <2>3. c \in Doc
    BY <1>1, <2>1, CandidateType
  <2>4. QED
    BY <2>2, <2>3
<1>8. QED
  BY <1>3, <1>5, <1>6, <1>7, SameIsEquivalence DEF Doc, Entry

\* A worker that has something to push has just decided, or had it before.
LEMMA WhoHasDecided ==
    ASSUME TypeOK, [Next]_vars, NEW w \in Workers, HasDecided(w)'
    PROVE  \/ Decide(w)
           \/ HasDecided(w) /\ view'[w] = view[w] /\ merged'[w] = merged[w]
<1> DEFINE Keeps(v) == pc'[v] = pc[v] /\ view'[v] = view[v] /\ merged'[v] = merged[v]
<1> USE DEF HasDecided
<1>1. ASSUME NEW v \in Workers, StartCycle(v) \/ CycleStep(v) \/ Fail(v), v # w PROVE Keeps(w)
  BY <1>1 DEF StartCycle, CycleStep, Fail, ReadSide, NotFound, NoOp, ReadAncestor, Escalate,
              RejectCandidate, Decide, PushDuplicate, PushStale, PushApplied, WritePush, Commit,
              AfterPush, GoTo, Return, locals, TypeOK
<1>2. CASE StartCycle(w) \/ Fail(w)
  BY <1>2 DEF StartCycle, Fail, GoTo, Return, TypeOK
<1>3. CASE CycleStep(w)
  <2>1. ASSUME NEW s \in Sides, ReadSide(w, s) \/ NotFound(w, s) \/ PushStale(w, s) PROVE FALSE
    BY <2>1 DEF ReadSide, NotFound, PushStale, GoTo, Return, TypeOK
  <2>2. CASE NoOp(w) \/ ReadAncestor(w) \/ Escalate(w) \/ RejectCandidate(w) \/ Commit(w)
    BY <2>2 DEF NoOp, ReadAncestor, Escalate, RejectCandidate, Commit, GoTo, Return, TypeOK
  <2>3. ASSUME NEW s \in Sides, PushDuplicate(w, s) \/ PushApplied(w, s)
        PROVE  HasDecided(w) /\ UNCHANGED <<view, merged>>
    BY <2>3 DEF PushDuplicate, PushApplied, WritePush, PushPC, locals
  <2>4. QED
    BY <1>3, <2>1, <2>2, <2>3 DEF CycleStep
<1>4. ASSUME NEW v \in Workers, NEW s \in Sides, PushResponseLost(v, s), v # w PROVE Keeps(w)
  BY <1>4 DEF PushResponseLost, Return, TypeOK
<1>5. ASSUME NEW s \in Sides, PushResponseLost(w, s) PROVE FALSE
  BY <1>5 DEF PushResponseLost, Return, TypeOK
<1>6. ASSUME NEW s \in Sides, AppEdit(s) PROVE Keeps(w)
  BY <1>6 DEF AppEdit, locals
<1>7. CASE Restart
  BY <1>7 DEF Restart
<1>8. CASE SetPolicies \/ UNCHANGED vars
  BY <1>8 DEF SetPolicies, vars, locals
<1>9. QED
  BY <1>1, <1>2, <1>3, <1>4, <1>5, <1>6, <1>7, <1>8 DEF Next

\* What is about to be pushed always has the values of the source.
LEMMA StepKeepsSource ==
    ASSUME InvariantsLeaveOwned, TypeOK, TypeOK', KeepsSource, [Next]_vars
    PROVE  KeepsSource'
<1> SUFFICES ASSUME NEW w \in Workers, NEW s \in Sides, NEW f \in Fields,
                    HasDecided(w)', OwnedAlways(s, f)
             PROVE  Same(merged'[w][f], view'[w][s].doc[f])
  BY DEF KeepsSource, OwnedAlways
<1>1. CASE Decide(w)
  BY <1>1, DecideKeepsSource
<1>2. CASE HasDecided(w) /\ view'[w] = view[w] /\ merged'[w] = merged[w]
  BY <1>2 DEF KeepsSource
<1>3. QED
  BY <1>1, <1>2, WhoHasDecided

\* Writing the value that is stored, in whatever form, changes no value.
LEMMA WriteOfSame ==
    ASSUME NEW r \in Record, NEW p \in Doc, NEW f \in Fields, r.present, Same(p[f], r.doc[f])
    PROVE  Same(r.doc[f], Written(r, p, idempotency_key(p)).doc[f])
  BY DEF Written, ShallowMerge, Same

\* The source of a field keeps its values, whatever races, fails or restarts and
\* however the host replaces the rest of its policies: of a one-way engine ("side_a
\* is the source of truth"), every value of A.
THEOREM SourceIsKept ==
    ASSUME InvariantsLeaveOwned
    PROVE  Spec => SourceKeepsItsValues
<1>1. Init => KeepsSource
  BY DEF Init, KeepsSource, HasDecided
<1>2. TypeOK /\ TypeOK' /\ KeepsSource /\ [Next]_vars => KeepsSource'
  BY StepKeepsSource
<1>3. TypeOK /\ CycleInvariant /\ KeepsSource /\ [Next]_vars =>
        [edits' = edits =>
            \A s \in Sides, f \in Fields :
                OwnedAlways(s, f) => Same(store[s].doc[f], store'[s].doc[f])]_vars
  <2> SUFFICES ASSUME TypeOK, CycleInvariant, KeepsSource, [Next]_vars, edits' = edits,
                      NEW s \in Sides, NEW f \in Fields, OwnedAlways(s, f)
               PROVE  Same(store[s].doc[f], store'[s].doc[f])
    OBVIOUS
  <2>1. CASE store'[s].doc = store[s].doc
    BY <2>1 DEF Same
  <2>2. ASSUME NEW t \in Sides, AppEdit(t) PROVE FALSE
    BY <2>2 DEF AppEdit, TypeOK
  <2>3. ASSUME NEW w \in Workers, NEW t \in Sides, Writer(w, t), t # s
        PROVE  store'[s] = store[s]
    BY <2>3 DEF Writer, Store, TypeOK, Sides
  <2>4. ASSUME NEW w \in Workers, Writer(w, s)
        PROVE  Same(store[s].doc[f], store'[s].doc[f])
    <3>1. HasDecided(w) /\ HasRead(w, s)
      BY <2>4 DEF Writer, PushPC, HasRead, HasDecided, Sides, SideA, SideB
    <3>2. store[s].present /\ store[s].doc = view[w][s].doc
      BY <2>4, <3>1, WriteReplacesRead DEF Writer, CycleInvariant, VersionsPin, Pinned
    <3>3. Same(merged[w][f], store[s].doc[f])
      BY <3>1, <3>2 DEF KeepsSource
    <3>4. store[s] \in Record /\ merged[w] \in Doc
      BY DEF TypeOK
    <3>5. store'[s] = Written(store[s], merged[w], idempotency_key(merged[w]))
      BY <2>4 DEF Writer, Store, TypeOK
    <3>6. QED
      BY <3>2, <3>3, <3>4, <3>5, WriteOfSame
  <2>5. QED
    BY <2>1, <2>2, <2>3, <2>4, WhoWrites
<1>4. QED
  BY <1>1, <1>2, <1>3, TypeCorrect, CycleSafe, PTL DEF Spec, SourceKeepsItsValues

-----------------------------------------------------------------------------
(* Paths under a state machine.                                            *)

\* A cycle decides against the ancestor that its commit replaces, and what it
\* pushes is a legal move away from it.
MovesLegally ==
    \A w \in Workers :
        /\ pc[w] = "decide" \/ HasDecided(w) => ancestor \in {None, base[w]}
        /\ HasDecided(w) =>
              \A f \in Fields :
                  UnderStateMachine(policies, f) =>
                      LegalMove(Lookup(policies, f).state_machine, base[w][f], merged[w][f])

\* What a cycle merges is a legal move from the ancestor it has read, at every
\* path under a state machine.
LEMMA CandidateMovesLegally ==
    ASSUME NEW map, IsPolicyMap(map), NEW o \in Doc, NEW a \in Doc, NEW b \in Doc,
           Conflicts(map, o, a, b) = {},
           NEW f \in Fields, UnderStateMachine(map, f)
    PROVE  LegalMove(Lookup(map, f).state_machine, o[f], Candidate(map, o, a, b)[f])
<1> DEFINE c == FieldChange(o, a, b, f)
           allowed == Lookup(map, f).state_machine
<1>1. CASE f \in Changes(o, a, b)
  <2>1. c \in FieldChanges /\ c.old_value = AsJson(o[f])
    BY <1>1, FieldChangeType DEF FieldChange
  <2>2. Merge(Lookup(map, f), c) = StateMachineMerge(allowed, c)
    <3> DEFINE policy == Lookup(map, f)
    <3>1. policy \in Policy \cup {NoPolicy} /\ "state_machine" \in DOMAIN policy
      BY LookupType DEF UnderStateMachine
    <3> HIDE DEF policy, c
    <3>2. Merge(policy, c) = StateMachineMerge(policy.state_machine, c)
      BY <3>1, MergeByKind
    <3>3. QED
      BY <3>2 DEF policy, c
  <2>3. Candidate(map, o, a, b)[f] = StateMachineMerge(allowed, c)
    BY <1>1, <2>2 DEF Candidate, ResolveField
  <2>4. StateMachineMerge(allowed, c) # None
    BY <1>1, <2>2 DEF Conflicts, ResolveField
  <2>5. o[f] \in Value \cup {Absent}
    BY DEF Doc
  <2> HIDE DEF c, allowed
  <2>6. LegalMove(allowed, o[f], StateMachineMerge(allowed, c))
    BY <2>1, <2>4, <2>5, StateMachineMovesLegally
  <2>7. QED
    BY <2>3, <2>6 DEF allowed
<1>2. CASE f \notin Changes(o, a, b)
  <2>1. Candidate(map, o, a, b)[f] = o[f]
    BY <1>2 DEF Candidate
  <2>2. QED
    BY <2>1 DEF LegalMove, Same
<1>3. QED
  BY <1>1, <1>2

\* So is what it pushes.
LEMMA DecideMovesLegally ==
    ASSUME SteadyStateMachines, TypeOK, NEW w \in Workers, Decide(w),
           NEW f \in Fields, UnderStateMachine(policies, f)
    PROVE  LegalMove(Lookup(policies, f).state_machine, base[w][f], merged'[w][f])
<1> DEFINE m == CycleCandidate(w, policies)
<1>1. /\ base[w] \in Doc /\ view[w][SideA].doc \in Doc /\ view[w][SideB].doc \in Doc
      /\ policies \in PolicyMaps /\ IsPolicyMap(policies)
  BY PolicyMapsAssumption DEF TypeOK, Sides
<1>2. CycleConflicts(w, policies) = {} /\ merged'[w] = ApplyInvariants(base[w], m)
      /\ ApplyInvariants(base[w], m) # None
  BY DEF Decide, TypeOK
<1>3. LegalMove(Lookup(policies, f).state_machine, base[w][f], m[f])
  BY <1>1, <1>2, CandidateMovesLegally DEF CycleCandidate, CycleConflicts
<1> HIDE DEF m
<1>4. ApplyInvariants(base[w], m)[f] = m[f]
  BY <1>1, <1>2 DEF SteadyStateMachines, ApplyInvariants
<1>5. QED
  BY <1>2, <1>3, <1>4

\* A worker that is about to decide, push or commit was so before or has just
\* got there; where its cycle has decided it keeps what it decided.
LEMMA WhoDecides ==
    ASSUME TypeOK, OneCycleAtATime, [Next]_vars, NEW w \in Workers,
           pc'[w] = "decide" \/ HasDecided(w)'
    PROVE  \/ ReadAncestor(w)
           \/ Decide(w)
           \/ /\ HasDecided(w) /\ HasDecided(w)'
              /\ UNCHANGED <<policies, ancestor>> /\ base'[w] = base[w] /\ merged'[w] = merged[w]
           \/ /\ pc' = pc
              /\ UNCHANGED <<ancestor, base, merged>>
              /\ policies' \in PolicyMaps
<1> USE DEF HasDecided
<1>1. ASSUME NEW v \in Workers PROVE v = w
  BY DEF OneCycleAtATime
<1>2. CASE StartCycle(w)
  BY <1>2 DEF StartCycle, GoTo, TypeOK
<1>3. CASE Fail(w)
  BY <1>3 DEF Fail, Return, TypeOK
<1>4. CASE CycleStep(w)
  <2>1. ASSUME NEW s \in Sides, ReadSide(w, s) PROVE FALSE
    BY <2>1 DEF ReadSide, GoTo, TypeOK
  <2>2. ASSUME NEW s \in Sides, NotFound(w, s) \/ PushStale(w, s) PROVE FALSE
    BY <2>2 DEF NotFound, PushStale, Return, TypeOK
  <2>3. CASE NoOp(w) \/ Escalate(w) \/ RejectCandidate(w) \/ Commit(w)
    BY <2>3 DEF NoOp, Escalate, RejectCandidate, Commit, Return, TypeOK
  <2>4. ASSUME NEW s \in Sides, PushDuplicate(w, s) \/ PushApplied(w, s)
        PROVE  /\ HasDecided(w) /\ HasDecided(w)'
               /\ UNCHANGED <<policies, ancestor, base, merged>>
    BY <2>4 DEF PushDuplicate, PushApplied, WritePush, AfterPush, AfterPushA, GoTo, PushPC,
                locals, TypeOK
  <2>5. QED
    BY <1>4, <2>1, <2>2, <2>3, <2>4 DEF CycleStep
<1>5. ASSUME NEW s \in Sides, PushResponseLost(w, s) PROVE FALSE
  BY <1>5 DEF PushResponseLost, Return, TypeOK
<1>6. ASSUME NEW s \in Sides, AppEdit(s)
      PROVE  pc' = pc /\ UNCHANGED <<ancestor, base, merged>> /\ policies' \in PolicyMaps
  BY <1>6 DEF AppEdit, locals, TypeOK
<1>7. CASE SetPolicies \/ UNCHANGED vars
  BY <1>7 DEF SetPolicies, vars, locals, TypeOK
<1>8. CASE Restart
  BY <1>8 DEF Restart
<1>9. QED
  BY <1>1, <1>2, <1>3, <1>4, <1>5, <1>6, <1>7, <1>8 DEF Next

\* Every step keeps the moves legal.
LEMMA StepMovesLegally ==
    ASSUME SteadyStateMachines, OneCycleAtATime, TypeOK, MovesLegally, [Next]_vars
    PROVE  MovesLegally'
<1> SUFFICES ASSUME NEW w \in Workers
             PROVE  /\ pc'[w] = "decide" \/ HasDecided(w)' => ancestor' \in {None, base'[w]}
                    /\ HasDecided(w)' =>
                          \A f \in Fields :
                              UnderStateMachine(policies', f) =>
                                  LegalMove(Lookup(policies', f).state_machine, base'[w][f], merged'[w][f])
  BY DEF MovesLegally
<1> SUFFICES ASSUME pc'[w] = "decide" \/ HasDecided(w)'
             PROVE  /\ ancestor' \in {None, base'[w]}
                    /\ HasDecided(w)' =>
                          \A f \in Fields :
                              UnderStateMachine(policies', f) =>
                                  LegalMove(Lookup(policies', f).state_machine, base'[w][f], merged'[w][f])
  OBVIOUS
<1>1. CASE ReadAncestor(w)
  BY <1>1 DEF ReadAncestor, AncestorView, GoTo, HasDecided, TypeOK
<1>2. CASE Decide(w)
  <2>1. pc[w] = "decide" /\ UNCHANGED <<ancestor, base, policies>>
    BY <1>2 DEF Decide
  <2>2. QED
    BY <1>2, <2>1, DecideMovesLegally DEF MovesLegally
<1>3. CASE /\ HasDecided(w) /\ HasDecided(w)'
           /\ UNCHANGED <<policies, ancestor>> /\ base'[w] = base[w] /\ merged'[w] = merged[w]
  BY <1>3 DEF MovesLegally
<1>4. CASE /\ pc' = pc
           /\ UNCHANGED <<ancestor, base, merged>>
           /\ policies' \in PolicyMaps
  <2>1. \A f \in Fields :
            UnderStateMachine(policies', f) => /\ UnderStateMachine(policies, f)
                                               /\ Lookup(policies', f) = Lookup(policies, f)
    BY <1>4 DEF SteadyStateMachines, TypeOK, UnderStateMachine
  <2>2. QED
    BY <1>4, <2>1 DEF MovesLegally, HasDecided
<1>5. QED
  BY <1>1, <1>2, <1>3, <1>4, WhoDecides

\* An ancestor is replaced only by the commit of a cycle, or lost in a restart.
LEMMA WhoCommits ==
    ASSUME [Next]_vars, ancestor' # ancestor
    PROVE  ancestor' = None \/ \E w \in Workers : Commit(w)
<1>1. ASSUME NEW w \in Workers, CycleStep(w), ~Commit(w) PROVE FALSE
  BY <1>1 DEF CycleStep, ReadSide, NotFound, NoOp, ReadAncestor, Escalate, RejectCandidate,
              Decide, PushDuplicate, PushStale, PushApplied
<1>2. ASSUME NEW w \in Workers, StartCycle(w) \/ Fail(w) PROVE FALSE
  BY <1>2 DEF StartCycle, Fail
<1>3. ASSUME NEW w \in Workers, NEW s \in Sides, PushResponseLost(w, s) PROVE FALSE
  BY <1>3 DEF PushResponseLost
<1>4. ASSUME NEW s \in Sides, AppEdit(s) PROVE FALSE
  BY <1>4 DEF AppEdit
<1>5. CASE SetPolicies \/ UNCHANGED vars
  BY <1>5 DEF SetPolicies, vars
<1>6. CASE Restart
  BY <1>6 DEF Restart
<1>7. QED
  BY <1>1, <1>2, <1>3, <1>4, <1>5, <1>6 DEF Next

\* A path under a state machine moves from one ancestor to the next along its
\* transitions: edits of both applications, policies that are replaced, failures
\* and restarts included.  The hypotheses are needed: of two cycles that race the
\* slower one may commit an older state last.
THEOREM StateMachinesAreKept ==
    ASSUME SteadyStateMachines, OneCycleAtATime
    PROVE  Spec => LegalTransitions
<1>1. Init => MovesLegally
  BY DEF Init, MovesLegally, HasDecided
<1>2. TypeOK /\ MovesLegally /\ [Next]_vars => MovesLegally'
  BY StepMovesLegally
<1>3. TypeOK /\ MovesLegally /\ [Next]_vars =>
        [\A f \in Fields :
            ancestor # None /\ ancestor' # None /\ "state_machine" \in DOMAIN Lookup(policies, f)
              => \/ Same(ancestor[f], ancestor'[f])
                 \/ <<ancestor[f][2], ancestor'[f][2]>> \in Lookup(policies, f).state_machine]_vars
  <2> SUFFICES ASSUME TypeOK, MovesLegally, [Next]_vars, NEW f \in Fields,
                      ancestor # None, ancestor' # None, UnderStateMachine(policies, f)
               PROVE  LegalMove(Lookup(policies, f).state_machine, ancestor[f], ancestor'[f])
    BY DEF UnderStateMachine, LegalMove
  <2>1. CASE ancestor' = ancestor
    BY <2>1 DEF LegalMove, Same
  <2>2. ASSUME NEW w \in Workers, Commit(w)
        PROVE  LegalMove(Lookup(policies, f).state_machine, ancestor[f], ancestor'[f])
    <3>1. HasDecided(w) /\ ancestor' = merged[w]
      BY <2>2 DEF Commit, HasDecided
    <3>2. ancestor = base[w]
      BY <3>1 DEF MovesLegally
    <3>3. QED
      BY <3>1, <3>2 DEF MovesLegally
  <2>3. QED
    BY <2>1, <2>2, WhoCommits
<1>4. QED
  BY <1>1, <1>2, <1>3, TypeCorrect, PTL DEF Spec, LegalTransitions
=============================================================================
