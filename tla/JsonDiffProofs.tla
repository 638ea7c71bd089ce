---------------------------- MODULE JsonDiffProofs ----------------------------
(***************************************************************************)
(* What the diff and the overlay of nested documents do, for documents of  *)
(* any depth.  The argument goes path by path: how far two documents can   *)
(* be walked down together, and what is found down a path after others     *)
(* were written.                                                           *)
(***************************************************************************)
EXTENDS JsonDiff, MergePoliciesProofs, FiniteSetTheorems, SequenceTheorems

-----------------------------------------------------------------------------
(* Walks.                                                                  *)

IsWalk(g, v, path) == g = [i \in 0..Len(path) |-> IF i = 0 THEN v ELSE Child(g[i - 1], path[i])]

\* The recursion of Node is well defined, by induction on the keys walked.
LEMMA NodeRecursion ==
    ASSUME NEW v, NEW path \in Seq(STRING)
    PROVE  \E g : IsWalk(g, v, path)
<1> DEFINE Step(g, i) == IF i = 0 THEN v ELSE Child(g[i - 1], path[i])
           Upto(g, n) == \A i \in 0..n : g[i] = Step(g, i)
           Missing == {n \in Nat : ~ \E g : Upto(g, n)}
<1>1. Missing = {}
  <2> SUFFICES ASSUME Missing # {} PROVE FALSE
    OBVIOUS
  <2>1. PICK n \in Missing : \A m \in Missing : ~(m < n)
    BY LeastNatural, Zenon
  <2>2. n # 0
    <3>1. Upto([i \in {0} |-> v], 0)
      OBVIOUS
    <3>2. QED
      BY <3>1, <2>1
  <2>3. PICK g : Upto(g, n - 1)
    <3>1. n - 1 \in Nat /\ n - 1 < n
      BY <2>1, <2>2
    <3>2. n - 1 \notin Missing
      BY <2>1, <3>1
    <3> HIDE DEF Upto
    <3>3. QED
      BY <3>1, <3>2
  <2> DEFINE h == [i \in 0..n |-> IF i < n THEN g[i] ELSE Child(g[n - 1], path[n])]
  <2>4. n \in Nat /\ \A i \in 0..n : i # n => i \in 0..(n - 1) /\ i < n
    BY <2>1
  <2>5. \A i \in 0..n : i # 0 => i - 1 \in 0..n /\ i - 1 < n /\ h[i - 1] = g[i - 1]
    BY <2>4
  <2>6. h[n] = Step(h, n)
    BY <2>2, <2>4, <2>5
  <2>7. \A i \in 0..n : i # n => h[i] = Step(h, i)
    BY <2>3, <2>4, <2>5
  <2>8. Upto(h, n)
    BY <2>6, <2>7
  <2>9. QED
    BY <2>1, <2>8
<1>2. PICK g : Upto(g, Len(path))
  BY <1>1
<1> DEFINE r == [i \in 0..Len(path) |-> g[i]]
<1>3. \A i \in 0..Len(path) : Step(r, i) = Step(g, i) /\ Step(g, i) = g[i]
  BY <1>2
<1> HIDE DEF Step
<1>4. r = [i \in 0..Len(path) |-> Step(r, i)]
  BY <1>3
<1>5. IsWalk(r, v, path)
  BY <1>4 DEF Step, IsWalk
<1>6. QED
  BY <1>5

\* A walk starts at the document and goes down by one key after another.
LEMMA NodeSteps ==
    ASSUME NEW v, NEW path \in Seq(STRING)
    PROVE  /\ Node(v, path, 0) = v
           /\ \A i \in 1..Len(path) : Node(v, path, i) = Child(Node(v, path, i - 1), path[i])
<1> DEFINE f == CHOOSE g : IsWalk(g, v, path)
<1>1. IsWalk(f, v, path)
  <2>1. \E g : IsWalk(g, v, path)
    BY NodeRecursion
  <2>2. QED
    BY <2>1, Zenon
<1>2. \A n : Node(v, path, n) = f[n]
  BY DEF Node, IsWalk
<1> HIDE DEF f
<1>3. \A i \in 0..Len(path) : f[i] = IF i = 0 THEN v ELSE Child(f[i - 1], path[i])
  <2> DEFINE Step(i) == IF i = 0 THEN v ELSE Child(f[i - 1], path[i])
  <2>1. f = [i \in 0..Len(path) |-> Step(i)]
    BY <1>1 DEF IsWalk
  <2> HIDE DEF Step
  <2>2. \A i \in 0..Len(path) : f[i] = Step(i)
    BY <2>1
  <2>3. QED
    BY <2>2 DEF Step
<1>4. f[0] = v
  BY <1>3
<1>5. \A i \in 1..Len(path) : f[i] = Child(f[i - 1], path[i])
  BY <1>3
<1>6. QED
  BY <1>2, <1>4, <1>5

LEMMA NodeStep ==
    ASSUME NEW v, NEW path \in Seq(STRING), NEW i \in 1..Len(path)
    PROVE  Node(v, path, i) = Child(Node(v, path, i - 1), path[i])
  BY NodeSteps

\* Where two walks have come to the same value and go on by the same keys, they
\* stay together.
LEMMA NodesFollow ==
    ASSUME NEW u, NEW v, NEW p \in Seq(STRING), NEW q \in Seq(STRING),
           NEW m \in 0..Len(p), NEW n \in m..Len(p), n \in 0..Len(q),
           Node(u, p, m) = Node(v, q, m),
           \A k \in (m + 1)..n : p[k] = q[k]
    PROVE  Node(u, p, n) = Node(v, q, n)
<1> DEFINE Apart == {i \in Nat : i \in m..n /\ Node(u, p, i) # Node(v, q, i)}
<1>1. Apart = {}
  <2> SUFFICES ASSUME Apart # {} PROVE FALSE
    OBVIOUS
  <2>1. PICK i \in Apart : \A k \in Apart : ~(k < i)
    BY LeastNatural, Zenon
  <2>2. i \in Nat /\ i \in m..n /\ Node(u, p, i) # Node(v, q, i) /\ i # m
    BY <2>1
  <2>3. i - 1 \in Nat /\ i - 1 \in m..n /\ i - 1 < i
    BY <2>2
  <2>4. Node(u, p, i - 1) = Node(v, q, i - 1)
    BY <2>1, <2>3
  <2>5. i \in 1..Len(p) /\ i \in 1..Len(q)
    BY <2>2
  <2>6. Node(u, p, i) = Child(Node(u, p, i - 1), p[i])
        /\ Node(v, q, i) = Child(Node(v, q, i - 1), q[i])
    BY <2>5, NodeStep
  <2>7. p[i] = q[i]
    BY <2>2
  <2>8. QED
    BY <2>2, <2>4, <2>6, <2>7
<1>2. n \in Nat /\ n \in m..n
  OBVIOUS
<1>3. QED
  BY <1>1, <1>2

\* Two walks of one document by the same keys.
LEMMA NodesShared ==
    ASSUME NEW v, NEW p \in Seq(STRING), NEW q \in Seq(STRING),
           NEW n \in 0..Len(p), n \in 0..Len(q), \A k \in 1..n : p[k] = q[k]
    PROVE  Node(v, p, n) = Node(v, q, n)
<1>1. Node(v, p, 0) = Node(v, q, 0)
  BY NodeSteps
<1>2. 0 \in 0..Len(p) /\ n \in 0..Len(p) /\ \A k \in (0 + 1)..n : p[k] = q[k]
  OBVIOUS
<1>3. QED
  BY <1>1, <1>2, NodesFollow

-----------------------------------------------------------------------------
(* JSON values.                                                            *)

\* A set of JSON values: objects have finitely many members, which are JSON and
\* have texts for keys, and with a JSON value they can be given another member; a
\* number is an integer here.  Option::None is no value.
IsJson(Json) ==
    /\ Null \in Json /\ None \notin Json
    /\ \A v \in Json : IsObject(v) =>
          /\ IsFiniteSet(DOMAIN v[2]) /\ DOMAIN v[2] \subseteq STRING
          /\ \A k \in DOMAIN v[2] : v[2][k] \in Json
    /\ \A v \in Json, k \in STRING, x \in Json : WithKey(v, k, x) \in Json
    /\ \A u, v \in Json : Upserted(u, v) \in Json
    /\ \A v \in Json : IsNumber(v) => v[2] \in Int
    /\ \A n \in Int : FloatNumber(n) \in Json

\* What is down a path of a JSON value is one.
LEMMA NodeIsJson ==
    ASSUME NEW Json, IsJson(Json), NEW v \in Json, NEW q \in Seq(STRING), NEW n \in 0..Len(q)
    PROVE  Node(v, q, n) \in Json
<1> DEFINE Wrong == {i \in Nat : i \in 0..n /\ Node(v, q, i) \notin Json}
<1>1. Wrong = {}
  <2> SUFFICES ASSUME Wrong # {} PROVE FALSE
    OBVIOUS
  <2>1. PICK i \in Wrong : \A k \in Wrong : ~(k < i)
    BY LeastNatural, Zenon
  <2>2. i \in 0..n /\ Node(v, q, i) \notin Json /\ i # 0
    BY <2>1, NodeSteps
  <2>3. i - 1 \in Nat /\ i - 1 \in 0..n /\ i - 1 < i
    BY <2>2
  <2>4. Node(v, q, i - 1) \in Json
    BY <2>1, <2>3
  <2>5. Node(v, q, i) = Child(Node(v, q, i - 1), q[i])
    <3>1. i \in 1..Len(q)
      BY <2>2
    <3>2. QED
      BY <3>1, NodeStep
  <2>6. Child(Node(v, q, i - 1), q[i]) \in Json
    BY <2>4 DEF Child, IsJson
  <2>7. QED
    BY <2>2, <2>5, <2>6
<1>2. n \in Nat /\ n \in 0..n
  OBVIOUS
<1>3. QED
  BY <1>1, <1>2

-----------------------------------------------------------------------------
(* What a comparison sees.                                                 *)

Root(a, b) == [path |-> <<>>, old |-> a, new |-> b]

IsLook(g, a, b) == g = [i \in 0..MaxDepth |-> IF i = 0 THEN {Root(a, b)} ELSE Further(g[i - 1])]

\* The recursion of Seen is well defined, by induction on the keys walked.
LEMMA SeenRecursion ==
    ASSUME NEW a, NEW b
    PROVE  \E g : IsLook(g, a, b)
<1> DEFINE Step(g, i) == IF i = 0 THEN {Root(a, b)} ELSE Further(g[i - 1])
           Upto(g, n) == \A i \in 0..n : g[i] = Step(g, i)
           Missing == {n \in Nat : ~ \E g : Upto(g, n)}
<1>1. Missing = {}
  <2> SUFFICES ASSUME Missing # {} PROVE FALSE
    OBVIOUS
  <2>1. PICK n \in Missing : \A m \in Missing : ~(m < n)
    BY LeastNatural, Zenon
  <2>2. n # 0
    <3>1. Upto([i \in {0} |-> {Root(a, b)}], 0)
      OBVIOUS
    <3>2. QED
      BY <3>1, <2>1
  <2>3. PICK g : Upto(g, n - 1)
    <3>1. n - 1 \in Nat /\ n - 1 < n
      BY <2>1, <2>2
    <3>2. n - 1 \notin Missing
      BY <2>1, <3>1
    <3> HIDE DEF Upto
    <3>3. QED
      BY <3>1, <3>2
  <2> DEFINE h == [i \in 0..n |-> IF i < n THEN g[i] ELSE Further(g[n - 1])]
  <2>4. n \in Nat /\ \A i \in 0..n : i # n => i \in 0..(n - 1) /\ i < n
    BY <2>1
  <2>5. \A i \in 0..n : i # 0 => i - 1 \in 0..n /\ i - 1 < n /\ h[i - 1] = g[i - 1]
    BY <2>4
  <2>6. h[n] = Step(h, n)
    BY <2>2, <2>4, <2>5
  <2>7. \A i \in 0..n : i # n => h[i] = Step(h, i)
    BY <2>3, <2>4, <2>5
  <2>8. Upto(h, n)
    BY <2>6, <2>7
  <2>9. QED
    BY <2>1, <2>8
<1>2. PICK g : Upto(g, MaxDepth)
  BY <1>1, MaxDepthAssumption
<1> DEFINE r == [i \in 0..MaxDepth |-> g[i]]
<1>3. \A i \in 0..MaxDepth : Step(r, i) = Step(g, i) /\ Step(g, i) = g[i]
  <2>1. \A i \in 0..MaxDepth : i # 0 => i - 1 \in 0..MaxDepth /\ r[i - 1] = g[i - 1]
    BY MaxDepthAssumption
  <2>2. \A i \in 0..MaxDepth : Step(r, i) = Step(g, i)
    BY <2>1
  <2>3. QED
    BY <1>2, <2>2
<1> HIDE DEF Step
<1>4. r = [i \in 0..MaxDepth |-> Step(r, i)]
  BY <1>3
<1>5. IsLook(r, a, b)
  BY <1>4 DEF Step, IsLook
<1>6. QED
  BY <1>5

\* It starts at the two documents and goes one key further after another.
LEMMA SeenSteps ==
    ASSUME NEW a, NEW b
    PROVE  /\ Seen(a, b, 0) = {Root(a, b)}
           /\ \A i \in 1..MaxDepth : Seen(a, b, i) = Further(Seen(a, b, i - 1))
<1> DEFINE f == CHOOSE g : IsLook(g, a, b)
<1>1. IsLook(f, a, b)
  <2>1. \E g : IsLook(g, a, b)
    BY SeenRecursion
  <2>2. QED
    BY <2>1, Zenon
<1>2. \A n : Seen(a, b, n) = f[n]
  BY DEF Seen, IsLook, Root
<1> HIDE DEF f
<1>3. \A i \in 0..MaxDepth : f[i] = IF i = 0 THEN {Root(a, b)} ELSE Further(f[i - 1])
  <2> DEFINE Step(i) == IF i = 0 THEN {Root(a, b)} ELSE Further(f[i - 1])
  <2>1. f = [i \in 0..MaxDepth |-> Step(i)]
    BY <1>1 DEF IsLook
  <2> HIDE DEF Step
  <2>2. \A i \in 0..MaxDepth : f[i] = Step(i)
    BY <2>1
  <2>3. QED
    BY <2>2 DEF Step
<1>4. f[0] = {Root(a, b)}
  BY <1>3, MaxDepthAssumption
<1>5. \A i \in 1..MaxDepth : f[i] = Further(f[i - 1])
  BY <1>3, MaxDepthAssumption
<1>6. QED
  BY <1>2, <1>4, <1>5

\* After i keys of the path q both documents hold objects, which differ, and one
\* of them has the next key.
Enters(a, b, q, i) ==
    /\ IsObject(Node(a, q, i)) /\ IsObject(Node(b, q, i))
    /\ ~Equal(Node(a, q, i), Node(b, q, i))
    /\ q[i + 1] \in DOMAIN Node(a, q, i)[2] \cup DOMAIN Node(b, q, i)[2]

\* The comparison gets to the end of q.
Reached(a, b, q) == q \in Seq(STRING) /\ \A i \in 0..(Len(q) - 1) : Enters(a, b, q, i)

\* What it sees there.
PairAt(a, b, q) == [path |-> q, old |-> Node(a, q, Len(q)), new |-> Node(b, q, Len(q))]

IsLongerEnd(a, b, q, e) ==
    \E k \in STRING : Reached(a, b, Append(q, k)) /\ e = PairAt(a, b, Append(q, k))

\* What a comparison enters shows it the ends of the paths that are longer by a key.
LEMMA BelowReached ==
    ASSUME NEW Json, IsJson(Json), NEW a \in Json, NEW b \in Json,
           NEW q, Reached(a, b, q), Entered(PairAt(a, b, q)),
           NEW e, e \in Below(PairAt(a, b, q))
    PROVE  IsLongerEnd(a, b, q, e)
<1> DEFINE n == Len(q)
           d == PairAt(a, b, q)
<1>1. q \in Seq(STRING) /\ n \in Nat
  BY DEF Reached
<1>2. d.path = q /\ d.old = Node(a, q, n) /\ d.new = Node(b, q, n)
  BY DEF PairAt
<1>3. IsObject(d.old) /\ IsObject(d.new) /\ ~Equal(d.old, d.new)
  BY DEF Entered
<1>4. PICK k \in DOMAIN d.old[2] \cup DOMAIN d.new[2] :
          e = [path |-> Append(q, k), old |-> Child(d.old, k), new |-> Child(d.new, k)]
  BY <1>2 DEF Below
<1>5. d.old \in Json /\ d.new \in Json
  BY <1>1, <1>2, NodeIsJson
<1>6. k \in STRING
  BY <1>3, <1>4, <1>5 DEF IsJson
<1> DEFINE r == Append(q, k)
<1>7. r \in Seq(STRING) /\ Len(r) = n + 1 /\ r[n + 1] = k /\ \A j \in 1..n : r[j] = q[j]
  BY <1>1, <1>6
<1> HIDE DEF n, r, d
<1>8. \A i \in 0..n : Node(a, r, i) = Node(a, q, i) /\ Node(b, r, i) = Node(b, q, i)
  <2> SUFFICES ASSUME NEW i \in 0..n
               PROVE  Node(a, r, i) = Node(a, q, i) /\ Node(b, r, i) = Node(b, q, i)
    OBVIOUS
  <2>1. i \in 0..Len(r) /\ i \in 0..Len(q) /\ \A j \in 1..i : r[j] = q[j]
    BY <1>1, <1>7 DEF n
  <2>2. QED
    BY <1>1, <1>7, <2>1, NodesShared
<1>9. \A i \in 0..n : Enters(a, b, r, i)
  <2> SUFFICES ASSUME NEW i \in 0..n PROVE Enters(a, b, r, i)
    OBVIOUS
  <2>1. CASE i = n
    BY <1>1, <1>2, <1>3, <1>4, <1>7, <1>8, <2>1 DEF Enters
  <2>2. CASE i # n
    <3>1. i \in 0..(Len(q) - 1) /\ i + 1 \in 1..n
      BY <1>1, <2>2 DEF n
    <3>2. Enters(a, b, q, i)
      BY <3>1 DEF Reached
    <3>3. QED
      BY <3>1, <3>2, <1>7, <1>8 DEF Enters
  <2>3. QED
    BY <2>1, <2>2
<1>10. Reached(a, b, r)
  BY <1>1, <1>7, <1>9 DEF Reached
<1>11. Node(a, r, n + 1) = Child(d.old, k) /\ Node(b, r, n + 1) = Child(d.new, k)
  <2>1. n + 1 \in 1..Len(r) /\ (n + 1) - 1 = n /\ n \in 0..n
    BY <1>1, <1>7
  <2>2. /\ Node(a, r, n + 1) = Child(Node(a, r, (n + 1) - 1), r[n + 1])
        /\ Node(b, r, n + 1) = Child(Node(b, r, (n + 1) - 1), r[n + 1])
    BY <1>7, <2>1, NodeStep
  <2>3. QED
    BY <1>2, <1>7, <1>8, <2>1, <2>2
<1>12. e = PairAt(a, b, r)
  BY <1>4, <1>7, <1>11 DEF PairAt, r
<1>13. QED
  BY <1>6, <1>10, <1>12 DEF r, IsLongerEnd

\* As far as a comparison enters q it gets along the first keys of q.
LEMMA CutReached ==
    ASSUME NEW a, NEW b, NEW q \in Seq(STRING), NEW m \in 0..Len(q),
           \A i \in 0..(m - 1) : Enters(a, b, q, i)
    PROVE  LET p == SubSeq(q, 1, m)
           IN  /\ p \in Seq(STRING) /\ Len(p) = m /\ \A j \in 1..m : p[j] = q[j]
               /\ Reached(a, b, p)
               /\ PairAt(a, b, p) = [path |-> p, old |-> Node(a, q, m), new |-> Node(b, q, m)]
<1> DEFINE p == SubSeq(q, 1, m)
<1>1. p \in Seq(STRING) /\ Len(p) = m /\ \A j \in 1..m : p[j] = q[j]
  OBVIOUS
<1> HIDE DEF p
<1>2. \A i \in 0..m : Node(a, p, i) = Node(a, q, i) /\ Node(b, p, i) = Node(b, q, i)
  <2> SUFFICES ASSUME NEW i \in 0..m
               PROVE  Node(a, p, i) = Node(a, q, i) /\ Node(b, p, i) = Node(b, q, i)
    OBVIOUS
  <2>1. i \in 0..Len(p) /\ i \in 0..Len(q) /\ \A j \in 1..i : p[j] = q[j]
    BY <1>1
  <2>2. QED
    BY <1>1, <2>1, NodesShared
<1>3. ASSUME NEW i \in 0..(m - 1) PROVE Enters(a, b, p, i)
  <2>1. i \in 0..m /\ i + 1 \in 1..m
    OBVIOUS
  <2>2. QED
    BY <1>1, <1>2, <2>1 DEF Enters
<1>4. Reached(a, b, p)
  BY <1>1, <1>3 DEF Reached
<1>5. PairAt(a, b, p) = [path |-> p, old |-> Node(a, q, m), new |-> Node(b, q, m)]
  <2>1. m \in 0..m
    OBVIOUS
  <2>2. QED
    BY <1>1, <1>2, <2>1 DEF PairAt
<1>6. QED
  BY <1>1, <1>4, <1>5 DEF p

\* The end of a path that is reached is below the end of the path without its
\* last key, which is reached too and entered.
LEMMA ReachedFromFront ==
    ASSUME NEW a, NEW b, NEW q, Reached(a, b, q), Len(q) # 0
    PROVE  \E p : /\ Reached(a, b, p) /\ Len(p) = Len(q) - 1
                  /\ Entered(PairAt(a, b, p)) /\ PairAt(a, b, q) \in Below(PairAt(a, b, p))
<1>0. PICK m \in Nat : m + 1 = Len(q)
  <2>1. Len(q) \in Nat
    BY DEF Reached
  <2>2. Len(q) - 1 \in Nat /\ (Len(q) - 1) + 1 = Len(q)
    BY <2>1
  <2>3. QED
    BY <2>2
<1> DEFINE p == SubSeq(q, 1, m)
           k == q[m + 1]
           d == PairAt(a, b, p)
<1>1. q \in Seq(STRING) /\ Len(q) = m + 1 /\ m \in 0..Len(q)
  BY <1>0 DEF Reached
<1>2. \A i \in 0..m : Enters(a, b, q, i)
  BY <1>1 DEF Reached
<1>3. /\ p \in Seq(STRING) /\ Len(p) = m /\ \A j \in 1..m : p[j] = q[j]
      /\ Reached(a, b, p)
      /\ d = [path |-> p, old |-> Node(a, q, m), new |-> Node(b, q, m)]
  <2>1. \A i \in 0..(m - 1) : Enters(a, b, q, i)
    BY <1>1, <1>2
  <2>2. QED
    BY <1>1, <2>1, CutReached
<1>4. k \in STRING
  BY <1>1
<1>5. q = Append(p, k)
  <2>1. Append(p, k) \in Seq(STRING) /\ Len(Append(p, k)) = m + 1
    BY <1>1, <1>3, <1>4
  <2>2. \A j \in 1..(m + 1) : Append(p, k)[j] = q[j]
    BY <1>1, <1>3
  <2> HIDE DEF p, k
  <2>3. QED
    BY <1>1, <2>1, <2>2, SeqEqual
<1> HIDE DEF p, k, d
<1>6. Enters(a, b, q, m)
  BY <1>1, <1>2
<1>7. Entered(d)
  BY <1>3, <1>6 DEF Enters, Entered
<1>8. Node(a, q, m + 1) = Child(Node(a, q, m), k) /\ Node(b, q, m + 1) = Child(Node(b, q, m), k)
  <2>1. m + 1 \in 1..Len(q) /\ (m + 1) - 1 = m
    BY <1>1
  <2>2. /\ Node(a, q, m + 1) = Child(Node(a, q, (m + 1) - 1), q[m + 1])
        /\ Node(b, q, m + 1) = Child(Node(b, q, (m + 1) - 1), q[m + 1])
    BY <1>1, <2>1, NodeStep
  <2>3. QED
    BY <2>1, <2>2 DEF k
<1>9. PairAt(a, b, q) = [path |-> Append(d.path, k), old |-> Child(d.old, k), new |-> Child(d.new, k)]
  BY <1>1, <1>3, <1>5, <1>8 DEF PairAt
<1>10. k \in DOMAIN d.old[2] \cup DOMAIN d.new[2]
  BY <1>3, <1>6 DEF Enters, k
<1>11. PairAt(a, b, q) \in Below(d)
  BY <1>9, <1>10 DEF Below
<1>12. Len(p) = Len(q) - 1
  BY <1>1, <1>3
<1>13. QED
  BY <1>3, <1>7, <1>11, <1>12 DEF d

\* After n keys a comparison has seen the ends of the paths of at most n keys
\* that it gets along.
LEMMA SeenIs ==
    ASSUME NEW Json, IsJson(Json), NEW a \in Json, NEW b \in Json, NEW n \in 0..MaxDepth
    PROVE  \A d : d \in Seen(a, b, n) <=>
                     \E q : Reached(a, b, q) /\ Len(q) <= n /\ d = PairAt(a, b, q)
<1> DEFINE IsEnd(d, i) == \E q : Reached(a, b, q) /\ Len(q) <= i /\ d = PairAt(a, b, q)
           Wrong == {i \in Nat : i \in 0..n /\ ~ \A d : d \in Seen(a, b, i) <=> IsEnd(d, i)}
<1>1. Wrong = {}
  <2> SUFFICES ASSUME Wrong # {} PROVE FALSE
    OBVIOUS
  <2>1. PICK i \in Wrong : \A k \in Wrong : ~(k < i)
    BY LeastNatural, Zenon
  <2>2. i \in Nat /\ i \in 0..n /\ ~ \A d : d \in Seen(a, b, i) <=> IsEnd(d, i)
    BY <2>1
  <2>3. CASE i = 0
    <3>1. Reached(a, b, <<>>) /\ PairAt(a, b, <<>>) = Root(a, b) /\ Len(<<>>) = 0
      <4>1. <<>> \in Seq(STRING) /\ Len(<<>>) = 0
        OBVIOUS
      <4>2. Node(a, <<>>, 0) = a /\ Node(b, <<>>, 0) = b
        BY <4>1, NodeSteps
      <4>3. QED
        BY <4>1, <4>2 DEF Reached, PairAt, Root
    <3>2. \A q : Reached(a, b, q) /\ Len(q) <= 0 => q = <<>>
      BY DEF Reached
    <3>3. Seen(a, b, 0) = {Root(a, b)}
      BY SeenSteps
    <3>4. \A d : d \in Seen(a, b, 0) <=> IsEnd(d, 0)
      BY <3>1, <3>2, <3>3
    <3>5. QED
      BY <2>2, <2>3, <3>4
  <2>4. CASE i # 0
    <3>1. i - 1 \in Nat /\ i - 1 \in 0..n /\ i - 1 < i /\ i \in 1..MaxDepth
      BY <2>2, <2>4, MaxDepthAssumption
    <3>2. \A d : d \in Seen(a, b, i - 1) <=> IsEnd(d, i - 1)
      BY <2>1, <3>1
    <3>3. Seen(a, b, i) = Further(Seen(a, b, i - 1))
      BY <3>1, SeenSteps
    <3>4. \A d : d \in Seen(a, b, i) <=>
                    \/ d \in Seen(a, b, i - 1)
                    \/ \E e \in Seen(a, b, i - 1) : Entered(e) /\ d \in Below(e)
      BY <3>3 DEF Further
    <3>5. \A q : Reached(a, b, q) => Len(q) \in Nat
      BY DEF Reached
    <3>6. ASSUME NEW d, d \in Seen(a, b, i) PROVE IsEnd(d, i)
      <4>1. CASE d \in Seen(a, b, i - 1)
        <5>1. PICK q : Reached(a, b, q) /\ Len(q) <= i - 1 /\ d = PairAt(a, b, q)
          BY <3>2, <4>1
        <5>2. Len(q) <= i
          BY <2>2, <3>5, <5>1
        <5>3. QED
          BY <5>1, <5>2
      <4>2. CASE \E e \in Seen(a, b, i - 1) : Entered(e) /\ d \in Below(e)
        <5>1. PICK e \in Seen(a, b, i - 1) : Entered(e) /\ d \in Below(e)
          BY <4>2
        <5>2. PICK q : Reached(a, b, q) /\ Len(q) <= i - 1 /\ e = PairAt(a, b, q)
          BY <3>2, <5>1
        <5>3. PICK k \in STRING : Reached(a, b, Append(q, k)) /\ d = PairAt(a, b, Append(q, k))
          <6>1. /\ IsJson(Json) /\ a \in Json /\ b \in Json
                /\ Reached(a, b, q) /\ Entered(PairAt(a, b, q)) /\ d \in Below(PairAt(a, b, q))
            BY <5>1, <5>2
          <6>2. IsLongerEnd(a, b, q, d)
            BY <6>1, BelowReached, Zenon
          <6>3. QED
            BY <6>2 DEF IsLongerEnd
        <5>4. Len(Append(q, k)) <= i
          <6>1. q \in Seq(STRING)
            BY <5>2 DEF Reached
          <6>2. Len(Append(q, k)) = Len(q) + 1 /\ Len(q) \in Nat
            BY <6>1
          <6>3. QED
            BY <2>2, <5>2, <6>2
        <5>5. QED
          BY <5>3, <5>4
      <4>3. QED
        BY <3>4, <3>6, <4>1, <4>2
    <3>7. ASSUME NEW d, IsEnd(d, i) PROVE d \in Seen(a, b, i)
      <4>1. PICK q : Reached(a, b, q) /\ Len(q) <= i /\ d = PairAt(a, b, q)
        BY <3>7
      <4>2. CASE Len(q) <= i - 1
        BY <3>2, <3>4, <4>1, <4>2
      <4>3. CASE ~(Len(q) <= i - 1)
        <5>1. Len(q) = i
          BY <2>2, <3>5, <4>1, <4>3
        <5>2. PICK p : /\ Reached(a, b, p) /\ Len(p) = Len(q) - 1
                       /\ Entered(PairAt(a, b, p)) /\ d \in Below(PairAt(a, b, p))
          BY <2>4, <4>1, <5>1, ReachedFromFront
        <5>3. PairAt(a, b, p) \in Seen(a, b, i - 1)
          <6>1. Len(p) <= i - 1
            BY <3>1, <5>1, <5>2
          <6>2. QED
            BY <3>2, <5>2, <6>1
        <5>4. QED
          BY <3>4, <5>2, <5>3
      <4>4. QED
        BY <4>2, <4>3
    <3>8. QED
      BY <2>2, <3>6, <3>7
  <2>5. QED
    BY <2>3, <2>4
<1>2. n \in Nat /\ n \in 0..n
  BY MaxDepthAssumption
<1>3. QED
  BY <1>1, <1>2

\* The two documents differ at the end of q, and are comparable up to there.
Differs(a, b, q) ==
    /\ Reached(a, b, q) /\ Len(q) <= MaxDepth
    /\ ~Equal(Node(a, q, Len(q)), Node(b, q, Len(q)))
    /\ ~(IsObject(Node(a, q, Len(q))) /\ IsObject(Node(b, q, Len(q))))

\* A comparison returns the ends of the paths at which the documents differ.
LEMMA CompareIs ==
    ASSUME NEW Json, IsJson(Json), NEW a \in Json, NEW b \in Json
    PROVE  \A d : d \in CompareJson(a, b) <=> \E q : Differs(a, b, q) /\ d = PairAt(a, b, q)
<1>1. MaxDepth \in 0..MaxDepth
  BY MaxDepthAssumption
<1>2. \A d : d \in Seen(a, b, MaxDepth) <=>
                \E q : Reached(a, b, q) /\ Len(q) <= MaxDepth /\ d = PairAt(a, b, q)
  BY <1>1, SeenIs
<1>3. \A q : PairAt(a, b, q).old = Node(a, q, Len(q)) /\ PairAt(a, b, q).new = Node(b, q, Len(q))
  BY DEF PairAt
<1>4. \A d : d \in CompareJson(a, b) <=>
                /\ d \in Seen(a, b, MaxDepth)
                /\ ~Equal(d.old, d.new) /\ ~(IsObject(d.old) /\ IsObject(d.new))
  BY DEF CompareJson
<1>5. QED
  BY <1>2, <1>3, <1>4 DEF Differs

-----------------------------------------------------------------------------
(* A comparison of two JSON values returns finitely many differences.      *)

\* A function of a finite domain has finitely many values.
LEMMA ValuesFinite ==
    ASSUME NEW f, NEW S, IsFiniteSet(S), NEW T, T = {f[x] : x \in S}
    PROVE  IsFiniteSet(T)
<1> DEFINE g == [x \in S |-> f[x]]
<1>1. g \in Surjection(S, T)
  BY DEF Surjection
<1>2. QED
  BY <1>1, FS_Surjection

LEMMA BelowFinite ==
    ASSUME NEW Json, IsJson(Json), NEW d, d.old \in Json, d.new \in Json, Entered(d)
    PROVE  IsFiniteSet(Below(d))
<1> DEFINE keys == DOMAIN d.old[2] \cup DOMAIN d.new[2]
           f == [key \in keys |->
                   [path |-> Append(d.path, key), old |-> Child(d.old, key), new |-> Child(d.new, key)]]
<1>1. IsFiniteSet(keys)
  <2>1. IsFiniteSet(DOMAIN d.old[2]) /\ IsFiniteSet(DOMAIN d.new[2])
    BY DEF Entered, IsJson
  <2>2. QED
    BY <2>1, FS_Union
<1>2. Below(d) = {f[key] : key \in keys}
  BY DEF Below
<1> HIDE DEF f, keys
<1>3. QED
  BY <1>1, <1>2, ValuesFinite

LEMMA FurtherFinite ==
    ASSUME NEW seen, IsFiniteSet(seen), \A d \in seen : Entered(d) => IsFiniteSet(Below(d))
    PROVE  IsFiniteSet(Further(seen))
<1> DEFINE entered == {e \in seen : Entered(e)}
           f == [d \in entered |-> Below(d)]
           T == {Below(d) : d \in entered}
<1>1. IsFiniteSet(entered)
  <2>1. entered \in SUBSET seen
    OBVIOUS
  <2>2. QED
    BY <2>1, FS_Subset
<1>2. T = {f[d] : d \in entered}
  OBVIOUS
<1>3. \A t \in T : IsFiniteSet(t)
  OBVIOUS
<1>4. Further(seen) = seen \cup UNION T
  BY DEF Further
<1> HIDE DEF f, T, entered
<1>5. IsFiniteSet(T)
  BY <1>1, <1>2, ValuesFinite
<1>6. IsFiniteSet(UNION T)
  BY <1>3, <1>5, FS_UNION
<1>7. QED
  BY <1>4, <1>6, FS_Union

LEMMA CompareFinite ==
    ASSUME NEW Json, IsJson(Json), NEW a \in Json, NEW b \in Json
    PROVE  IsFiniteSet(CompareJson(a, b))
<1> DEFINE Wrong == {i \in Nat : i \in 0..MaxDepth /\ ~IsFiniteSet(Seen(a, b, i))}
<1>1. Wrong = {}
  <2> SUFFICES ASSUME Wrong # {} PROVE FALSE
    OBVIOUS
  <2>1. PICK i \in Wrong : \A k \in Wrong : ~(k < i)
    BY LeastNatural, Zenon
  <2>2. i \in Nat /\ i \in 0..MaxDepth /\ ~IsFiniteSet(Seen(a, b, i))
    BY <2>1
  <2>3. i # 0
    <3>1. IsFiniteSet(Seen(a, b, 0))
      <4>1. Seen(a, b, 0) = {Root(a, b)}
        BY SeenSteps, Zenon
      <4>2. IsFiniteSet({Root(a, b)})
        BY FS_Singleton, Zenon
      <4>3. QED
        BY <4>1, <4>2
    <3>2. QED
      BY <2>2, <3>1
  <2>4. i - 1 \in Nat /\ i - 1 \in 0..MaxDepth /\ i - 1 < i /\ i \in 1..MaxDepth
    BY <2>2, <2>3, MaxDepthAssumption
  <2>5. IsFiniteSet(Seen(a, b, i - 1))
    BY <2>1, <2>4
  <2>6. \A d \in Seen(a, b, i - 1) : Entered(d) => IsFiniteSet(Below(d))
    <3> SUFFICES ASSUME NEW d, d \in Seen(a, b, i - 1), Entered(d) PROVE IsFiniteSet(Below(d))
      OBVIOUS
    <3>1. \E q : Reached(a, b, q) /\ Len(q) <= i - 1 /\ d = PairAt(a, b, q)
      <4>1. \A e : e \in Seen(a, b, i - 1) <=>
                      \E q : Reached(a, b, q) /\ Len(q) <= i - 1 /\ e = PairAt(a, b, q)
        BY <2>4, SeenIs
      <4>2. QED
        BY <4>1
    <3>2. PICK q : Reached(a, b, q) /\ d = PairAt(a, b, q)
      BY <3>1
    <3>3. d.old = Node(a, q, Len(q)) /\ d.new = Node(b, q, Len(q))
      BY <3>2 DEF PairAt
    <3>4. q \in Seq(STRING) /\ Len(q) \in 0..Len(q)
      BY <3>2 DEF Reached
    <3>5. d.old \in Json /\ d.new \in Json
      BY <3>3, <3>4, NodeIsJson
    <3>6. QED
      BY <3>5, BelowFinite
  <2>7. Seen(a, b, i) = Further(Seen(a, b, i - 1))
    BY <2>4, SeenSteps
  <2>8. QED
    BY <2>2, <2>5, <2>6, <2>7, FurtherFinite
<1>2. MaxDepth \in Nat /\ MaxDepth \in 0..MaxDepth
  BY MaxDepthAssumption
<1>3. IsFiniteSet(Seen(a, b, MaxDepth))
  BY <1>1, <1>2
<1>4. CompareJson(a, b) \in SUBSET Seen(a, b, MaxDepth)
  BY DEF CompareJson
<1>5. QED
  BY <1>3, <1>4, FS_Subset

-----------------------------------------------------------------------------
(* Where two documents part.                                               *)

\* What is at the end of a path down v.
At(v, q) == Node(v, q, Len(q))

\* The path p leads to q, or is q.
Within(p, q) == Len(p) <= Len(q) /\ \A k \in 1..Len(p) : p[k] = q[k]

LEMMA WithinSame ==
    ASSUME NEW p \in Seq(STRING), NEW q \in Seq(STRING), Within(p, q), NEW v
    PROVE  Node(v, q, Len(p)) = At(v, p) /\ Len(p) \in 0..Len(q)
<1>1. Len(p) \in 0..Len(p) /\ Len(p) \in 0..Len(q) /\ \A k \in 1..Len(p) : q[k] = p[k]
  BY DEF Within
<1>2. QED
  BY <1>1, NodesShared DEF At

\* What is the same at p is the same at the ends of the paths p leads to.
LEMMA WithinFollows ==
    ASSUME NEW u, NEW v, NEW p \in Seq(STRING), NEW q \in Seq(STRING), Within(p, q), At(u, p) = At(v, p)
    PROVE  At(u, q) = At(v, q)
<1>1. Node(u, q, Len(p)) = Node(v, q, Len(p)) /\ Len(p) \in 0..Len(q)
  BY WithinSame
<1>2. Len(q) \in Len(p)..Len(q) /\ Len(q) \in 0..Len(q)
  BY <1>1
<1>3. QED
  BY <1>1, <1>2, NodesFollow DEF At

\* Two JSON values that are equal have equal members.
LEMMA EqualChildren ==
    ASSUME NEW u, NEW v, Equal(u, v), NEW k
    PROVE  Equal(Child(u, k), Child(v, k))
<1>1. CASE u = v
  BY <1>1 DEF Equal
<1>2. CASE u # v
  <2>1. IsNumber(u) /\ IsNumber(v)
    BY <1>2 DEF Equal, NumericallyEqual
  <2>2. ~IsObject(u) /\ ~IsObject(v)
    BY <2>1 DEF IsNumber, IsObject
  <2>3. QED
    BY <2>2 DEF Equal, Child
<1>3. QED
  BY <1>1, <1>2

LEMMA EqualFollows ==
    ASSUME NEW u, NEW v, NEW q \in Seq(STRING), NEW m \in 0..Len(q), Equal(Node(u, q, m), Node(v, q, m))
    PROVE  Equal(At(u, q), At(v, q))
<1> DEFINE Apart == {i \in Nat : i \in m..Len(q) /\ ~Equal(Node(u, q, i), Node(v, q, i))}
<1>1. Apart = {}
  <2> SUFFICES ASSUME Apart # {} PROVE FALSE
    OBVIOUS
  <2>1. PICK i \in Apart : \A k \in Apart : ~(k < i)
    BY LeastNatural, Zenon
  <2>2. i \in Nat /\ i \in m..Len(q) /\ ~Equal(Node(u, q, i), Node(v, q, i)) /\ i # m
    BY <2>1
  <2>3. i - 1 \in Nat /\ i - 1 \in m..Len(q) /\ i - 1 < i /\ i \in 1..Len(q)
    BY <2>2
  <2>4. Equal(Node(u, q, i - 1), Node(v, q, i - 1))
    BY <2>1, <2>3
  <2>5. Node(u, q, i) = Child(Node(u, q, i - 1), q[i]) /\ Node(v, q, i) = Child(Node(v, q, i - 1), q[i])
    BY <2>3, NodeStep
  <2>6. QED
    BY <2>2, <2>4, <2>5, EqualChildren
<1>2. Len(q) \in Nat /\ Len(q) \in m..Len(q)
  OBVIOUS
<1>3. QED
  BY <1>1, <1>2 DEF At

DiffersWithin(a, b, q) == \E p : Differs(a, b, p) /\ Within(p, q)

\* Down any path two documents come to equal values, or they part on the way or
\* at its end, or objects that differ are at its end.
LEMMA WhereTheyPart ==
    ASSUME NEW a, NEW b, NEW q \in Seq(STRING), Len(q) <= MaxDepth
    PROVE  \/ Equal(At(a, q), At(b, q))
           \/ DiffersWithin(a, b, q)
           \/ IsObject(At(a, q)) /\ IsObject(At(b, q))
<1>1. SUFFICES ASSUME ~Equal(At(a, q), At(b, q))
               PROVE  DiffersWithin(a, b, q) \/ (IsObject(At(a, q)) /\ IsObject(At(b, q)))
  OBVIOUS
<1>2. \A i \in 0..Len(q) : ~Equal(Node(a, q, i), Node(b, q, i))
  BY <1>1, EqualFollows
<1> DEFINE Stops == {i \in Nat : i \in 0..Len(q) /\ (i = Len(q) \/ ~Enters(a, b, q, i))}
<1>3. PICK m \in Stops : \A k \in Stops : ~(k < m)
  <2>1. Len(q) \in Stops
    OBVIOUS
  <2> HIDE DEF Stops
  <2>2. Stops # {} /\ Stops \subseteq Nat
    BY <2>1 DEF Stops
  <2>3. QED
    BY <2>2, LeastNatural, Zenon
<1>4. m \in Nat /\ m \in 0..Len(q)
  BY <1>3
<1>5. \A i \in 0..(m - 1) : Enters(a, b, q, i)
  <2> SUFFICES ASSUME NEW i \in 0..(m - 1) PROVE Enters(a, b, q, i)
    OBVIOUS
  <2>1. i \in Nat /\ i \in 0..Len(q) /\ i < m
    BY <1>4
  <2>2. QED
    BY <1>3, <2>1
<1> DEFINE p == SubSeq(q, 1, m)
<1>6. /\ p \in Seq(STRING) /\ Len(p) = m /\ \A j \in 1..m : p[j] = q[j]
      /\ Reached(a, b, p)
      /\ PairAt(a, b, p) = [path |-> p, old |-> Node(a, q, m), new |-> Node(b, q, m)]
  BY <1>4, <1>5, CutReached
<1> HIDE DEF p
<1>7. Within(p, q)
  BY <1>4, <1>6 DEF Within
<1>8. At(a, p) = Node(a, q, m) /\ At(b, p) = Node(b, q, m)
  BY <1>6, <1>7, WithinSame
<1>9. CASE ~(IsObject(Node(a, q, m)) /\ IsObject(Node(b, q, m)))
  <2>1. Len(p) <= MaxDepth
    BY <1>4, <1>6, MaxDepthAssumption
  <2>2. Differs(a, b, p)
    BY <1>2, <1>4, <1>6, <1>8, <1>9, <2>1 DEF Differs, At
  <2>3. QED
    BY <1>7, <2>2 DEF DiffersWithin
<1>10. CASE IsObject(Node(a, q, m)) /\ IsObject(Node(b, q, m)) /\ m = Len(q)
  BY <1>10 DEF At
<1>11. CASE IsObject(Node(a, q, m)) /\ IsObject(Node(b, q, m)) /\ m # Len(q)
  <2>1. ~Enters(a, b, q, m) /\ m + 1 \in 1..Len(q) /\ m + 1 \in 0..Len(q)
    BY <1>3, <1>4, <1>11
  <2>2. q[m + 1] \notin DOMAIN Node(a, q, m)[2] /\ q[m + 1] \notin DOMAIN Node(b, q, m)[2]
    BY <1>2, <1>4, <1>11, <2>1 DEF Enters
  <2>3. /\ Node(a, q, m + 1) = Child(Node(a, q, (m + 1) - 1), q[m + 1])
        /\ Node(b, q, m + 1) = Child(Node(b, q, (m + 1) - 1), q[m + 1])
    BY <2>1, NodeStep
  <2>4. (m + 1) - 1 = m
    BY <1>4
  <2>5. Node(a, q, m + 1) = Null /\ Node(b, q, m + 1) = Null
    BY <2>2, <2>3, <2>4 DEF Child
  <2>6. QED
    BY <1>2, <2>1, <2>5 DEF Equal
<1>12. QED
  BY <1>9, <1>10, <1>11

-----------------------------------------------------------------------------
(* A value written at a path.                                              *)

LEMMA WithKeyHolds ==
    ASSUME NEW v, NEW key, NEW value
    PROVE  /\ IsObject(WithKey(v, key, value))
           /\ Child(WithKey(v, key, value), key) = value
           /\ \A k : k # key => Child(WithKey(v, key, value), k) = Child(v, k)
<1> DEFINE map == IF IsObject(v) THEN v[2] ELSE <<>>
           f == [k \in DOMAIN map \cup {key} |-> IF k = key THEN value ELSE map[k]]
<1>1. WithKey(v, key, value) = <<"object", f>>
  BY DEF WithKey, JsonObject
<1>2. IsObject(WithKey(v, key, value)) /\ WithKey(v, key, value)[2] = f
  BY <1>1 DEF IsObject
<1>3. key \in DOMAIN f /\ f[key] = value
  OBVIOUS
<1>4. \A k : k # key => (k \in DOMAIN f <=> k \in DOMAIN map) /\ (k \in DOMAIN f => f[k] = map[k])
  OBVIOUS
<1>5. CASE IsObject(v)
  BY <1>2, <1>3, <1>4, <1>5 DEF Child
<1>6. CASE ~IsObject(v)
  <2>1. \A k : k # key => k \notin DOMAIN f
    BY <1>4, <1>6
  <2>2. QED
    BY <1>2, <1>3, <1>6, <2>1 DEF Child
<1>7. QED
  BY <1>5, <1>6

IsWrite(g, target, path, value) ==
    g = [i \in 0..Len(path) |->
            IF i = 0 THEN value
            ELSE WithKey(Node(target, path, Len(path) - i), path[Len(path) - i + 1], g[i - 1])]

\* The recursion of SetAtPath is well defined, by induction on the keys walked.
LEMMA WriteRecursion ==
    ASSUME NEW target, NEW path \in Seq(STRING), NEW value
    PROVE  \E g : IsWrite(g, target, path, value)
<1> DEFINE len == Len(path)
           Inner(i, x) == WithKey(Node(target, path, len - i), path[len - i + 1], x)
           Step(g, i) == IF i = 0 THEN value ELSE Inner(i, g[i - 1])
           Upto(g, n) == \A i \in 0..n : g[i] = Step(g, i)
           Missing == {n \in Nat : ~ \E g : Upto(g, n)}
<1> HIDE DEF Inner
<1>1. Missing = {}
  <2> SUFFICES ASSUME Missing # {} PROVE FALSE
    OBVIOUS
  <2>1. PICK n \in Missing : \A m \in Missing : ~(m < n)
    BY LeastNatural, Zenon
  <2>2. n # 0
    <3>1. Upto([i \in {0} |-> value], 0)
      OBVIOUS
    <3>2. QED
      BY <3>1, <2>1
  <2>3. PICK g : Upto(g, n - 1)
    <3>1. n - 1 \in Nat /\ n - 1 < n
      BY <2>1, <2>2
    <3>2. n - 1 \notin Missing
      BY <2>1, <3>1
    <3> HIDE DEF Upto
    <3>3. QED
      BY <3>1, <3>2
  <2> DEFINE h == [i \in 0..n |-> IF i < n THEN g[i] ELSE Inner(n, g[n - 1])]
  <2>4. n \in Nat /\ \A i \in 0..n : i # n => i \in 0..(n - 1) /\ i < n
    BY <2>1
  <2>5. \A i \in 0..n : i # 0 => i - 1 \in 0..n /\ i - 1 < n /\ h[i - 1] = g[i - 1]
    BY <2>4
  <2>6. h[n] = Step(h, n)
    BY <2>2, <2>4, <2>5
  <2>7. \A i \in 0..n : i # n => h[i] = Step(h, i)
    BY <2>3, <2>4, <2>5
  <2>8. Upto(h, n)
    BY <2>6, <2>7
  <2>9. QED
    BY <2>1, <2>8
<1>2. len \in Nat
  OBVIOUS
<1> HIDE DEF len
<1>3. PICK g : Upto(g, len)
  BY <1>1, <1>2
<1> DEFINE r == [i \in 0..len |-> g[i]]
<1>4. \A i \in 0..len : Step(r, i) = Step(g, i) /\ Step(g, i) = g[i]
  <2>1. \A i \in 0..len : i # 0 => i - 1 \in 0..len /\ r[i - 1] = g[i - 1]
    BY <1>2
  <2>2. \A i \in 0..len : Step(r, i) = Step(g, i)
    BY <2>1
  <2>3. QED
    BY <1>3, <2>2
<1> HIDE DEF Step
<1>5. r = [i \in 0..len |-> Step(r, i)]
  BY <1>4
<1>6. IsWrite(r, target, path, value)
  BY <1>5 DEF Step, Inner, len, IsWrite
<1>7. QED
  BY <1>6

\* What is written down the path, from its end on: the value, and objects.
WritesFromEnd(g, target, path, value) ==
    /\ g[0] = value
    /\ g[Len(path)] = SetAtPath(target, path, value)
    /\ \A i \in 1..Len(path) :
          g[i] = WithKey(Node(target, path, Len(path) - i), path[Len(path) - i + 1], g[i - 1])

LEMMA WriteSteps ==
    ASSUME NEW target, NEW path \in Seq(STRING), path # <<>>, NEW value
    PROVE  \E g : WritesFromEnd(g, target, path, value)
<1> DEFINE f == CHOOSE g : IsWrite(g, target, path, value)
<1>1. IsWrite(f, target, path, value)
  <2>1. \E g : IsWrite(g, target, path, value)
    BY WriteRecursion
  <2>2. QED
    BY <2>1, Zenon
<1>2. f[Len(path)] = SetAtPath(target, path, value)
  BY DEF SetAtPath, IsWrite
<1> HIDE DEF f
<1> DEFINE Step(i) ==
      IF i = 0 THEN value
      ELSE WithKey(Node(target, path, Len(path) - i), path[Len(path) - i + 1], f[i - 1])
<1>3. f = [i \in 0..Len(path) |-> Step(i)]
  BY <1>1 DEF IsWrite
<1>4. Step(0) = value /\ \A i \in 1..Len(path) :
          Step(i) = WithKey(Node(target, path, Len(path) - i), path[Len(path) - i + 1], f[i - 1])
  OBVIOUS
<1> HIDE DEF Step
<1>5. \A i \in 0..Len(path) : f[i] = Step(i)
  BY <1>3
<1>6. f[0] = value /\ \A i \in 1..Len(path) : f[i] = Step(i)
  BY <1>4, <1>5
<1>7. WritesFromEnd(f, target, path, value)
  BY <1>2, <1>4, <1>6 DEF WritesFromEnd
<1>8. QED
  BY <1>7

\* Down the written path each object holds what is further down.
LEMMA WrittenNodes ==
    ASSUME NEW v, NEW p \in Seq(STRING), p # <<>>, NEW x
    PROVE  LET r == SetAtPath(v, p, x)
           IN  /\ At(r, p) = x
               /\ \A j \in 0..(Len(p) - 1) :
                     Node(r, p, j) = WithKey(Node(v, p, j), p[j + 1], Node(r, p, j + 1))
<1> DEFINE r == SetAtPath(v, p, x)
<1>1. PICK g : /\ g[0] = x /\ g[Len(p)] = r
               /\ \A i \in 1..Len(p) :
                     g[i] = WithKey(Node(v, p, Len(p) - i), p[Len(p) - i + 1], g[i - 1])
  <2>1. \E g : WritesFromEnd(g, v, p, x)
    BY WriteSteps
  <2>2. QED
    BY <2>1 DEF WritesFromEnd
<1> HIDE DEF r
<1>2. \A j \in 0..(Len(p) - 1) : g[Len(p) - j] = WithKey(Node(v, p, j), p[j + 1], g[Len(p) - j - 1])
  <2> SUFFICES ASSUME NEW j \in 0..(Len(p) - 1)
               PROVE  g[Len(p) - j] = WithKey(Node(v, p, j), p[j + 1], g[Len(p) - j - 1])
    OBVIOUS
  <2>1. Len(p) - j \in 1..Len(p) /\ Len(p) - (Len(p) - j) = j
    OBVIOUS
  <2>2. QED
    BY <1>1, <2>1
<1> DEFINE Wrong == {j \in Nat : j \in 0..Len(p) /\ Node(r, p, j) # g[Len(p) - j]}
<1>3. Wrong = {}
  <2> SUFFICES ASSUME Wrong # {} PROVE FALSE
    OBVIOUS
  <2>1. PICK j \in Wrong : \A k \in Wrong : ~(k < j)
    BY LeastNatural, Zenon
  <2>2. j \in Nat /\ j \in 0..Len(p) /\ Node(r, p, j) # g[Len(p) - j]
    BY <2>1
  <2>3. j # 0
    <3>1. Node(r, p, 0) = r /\ Len(p) - 0 = Len(p)
      BY NodeSteps
    <3>2. QED
      BY <1>1, <2>2, <3>1
  <2>4. PICK i \in Nat : i + 1 = j /\ i \in 0..(Len(p) - 1) /\ i < j
    <3>1. j - 1 \in Nat /\ (j - 1) + 1 = j /\ j - 1 \in 0..(Len(p) - 1) /\ j - 1 < j
      BY <2>2, <2>3
    <3>2. QED
      BY <3>1
  <2>5. Node(r, p, i) = g[Len(p) - i]
    <3>1. i \in 0..Len(p) /\ i \notin Wrong
      BY <2>1, <2>2, <2>4
    <3>2. QED
      BY <3>1
  <2>6. Node(r, p, j) = Child(Node(r, p, i), p[j])
    <3>1. j \in 1..Len(p) /\ j - 1 = i
      BY <2>2, <2>3, <2>4
    <3>2. QED
      BY <3>1, NodeStep
  <2>7. Child(Node(r, p, i), p[j]) = g[Len(p) - i - 1]
    BY <1>2, <2>4, <2>5, WithKeyHolds
  <2>8. Len(p) - i - 1 = Len(p) - j
    BY <2>4
  <2>9. QED
    BY <2>2, <2>6, <2>7, <2>8
<1>4. \A j \in 0..Len(p) : Node(r, p, j) = g[Len(p) - j]
  <2> SUFFICES ASSUME NEW j \in 0..Len(p) PROVE Node(r, p, j) = g[Len(p) - j]
    OBVIOUS
  <2>1. j \in Nat
    OBVIOUS
  <2>2. QED
    BY <1>3, <2>1
<1>5. At(r, p) = x
  <2>1. Len(p) \in 0..Len(p) /\ Len(p) - Len(p) = 0
    OBVIOUS
  <2>2. QED
    BY <1>1, <1>4, <2>1 DEF At
<1>6. ASSUME NEW j \in 0..(Len(p) - 1)
      PROVE  Node(r, p, j) = WithKey(Node(v, p, j), p[j + 1], Node(r, p, j + 1))
  <2>1. j \in 0..Len(p) /\ j + 1 \in 0..Len(p) /\ Len(p) - j - 1 = Len(p) - (j + 1)
    OBVIOUS
  <2>2. QED
    BY <1>2, <1>4, <2>1
<1>7. QED
  BY <1>5, <1>6 DEF r

\* What is written is a JSON value.
LEMMA WrittenIsJson ==
    ASSUME NEW Json, IsJson(Json), NEW v \in Json, NEW x \in Json, NEW p \in Seq(STRING), p # <<>>
    PROVE  SetAtPath(v, p, x) \in Json
<1>1. PICK g : WritesFromEnd(g, v, p, x)
  <2>1. \E g : WritesFromEnd(g, v, p, x)
    BY WriteSteps
  <2>2. QED
    BY <2>1
<1> DEFINE Wrong == {i \in Nat : i \in 0..Len(p) /\ g[i] \notin Json}
<1>2. Wrong = {}
  <2> SUFFICES ASSUME Wrong # {} PROVE FALSE
    OBVIOUS
  <2>1. PICK i \in Wrong : \A k \in Wrong : ~(k < i)
    BY LeastNatural, Zenon
  <2>2. i \in Nat /\ i \in 0..Len(p) /\ g[i] \notin Json
    BY <2>1
  <2>3. i # 0
    BY <1>1, <2>2 DEF WritesFromEnd
  <2>4. i - 1 \in Nat /\ i - 1 \in 0..Len(p) /\ i - 1 < i /\ i \in 1..Len(p)
    BY <2>2, <2>3
  <2>5. g[i - 1] \in Json
    BY <2>1, <2>4
  <2>6. g[i] = WithKey(Node(v, p, Len(p) - i), p[Len(p) - i + 1], g[i - 1])
    BY <1>1, <2>4 DEF WritesFromEnd
  <2>7. Len(p) - i \in 0..Len(p) /\ Len(p) - i + 1 \in 1..Len(p)
    BY <2>4
  <2>8. Node(v, p, Len(p) - i) \in Json /\ p[Len(p) - i + 1] \in STRING
    BY <2>7, NodeIsJson
  <2>9. QED
    BY <2>2, <2>5, <2>6, <2>8 DEF IsJson
<1>3. Len(p) \in Nat /\ Len(p) \in 0..Len(p)
  OBVIOUS
<1>4. QED
  BY <1>1, <1>2, <1>3 DEF WritesFromEnd

\* On the way to the written path there are objects.
LEMMA WrittenAbove ==
    ASSUME NEW v, NEW p \in Seq(STRING), NEW x, NEW q \in Seq(STRING), Within(q, p), Len(q) < Len(p)
    PROVE  IsObject(At(SetAtPath(v, p, x), q))
<1> DEFINE r == SetAtPath(v, p, x)
<1>1. p # <<>> /\ Len(q) \in 0..(Len(p) - 1)
  OBVIOUS
<1>2. Node(r, p, Len(q)) = WithKey(Node(v, p, Len(q)), p[Len(q) + 1], Node(r, p, Len(q) + 1))
  BY <1>1, WrittenNodes
<1> HIDE DEF r
<1>3. IsObject(Node(r, p, Len(q)))
  BY <1>2, WithKeyHolds
<1>4. At(r, q) = Node(r, p, Len(q))
  BY WithinSame
<1>5. QED
  BY <1>3, <1>4 DEF r

\* Every other path is left as it was.
LEMMA WrittenBeside ==
    ASSUME NEW v, NEW p \in Seq(STRING), NEW x, NEW q \in Seq(STRING), ~Within(p, q), ~Within(q, p)
    PROVE  At(SetAtPath(v, p, x), q) = At(v, q)
<1> DEFINE r == SetAtPath(v, p, x)
           Parts == {k \in Nat : k \in 1..Len(p) /\ k \in 1..Len(q) /\ p[k] # q[k]}
<1>1. Parts # {}
  BY DEF Within
<1>2. PICK m \in Parts : \A k \in Parts : ~(k < m)
  BY <1>1, LeastNatural, Zenon
<1>3. m \in 1..Len(p) /\ m \in 1..Len(q) /\ p[m] # q[m] /\ p # <<>>
  BY <1>2
<1>4. PICK j \in Nat : j + 1 = m
  <2>1. m - 1 \in Nat /\ (m - 1) + 1 = m
    BY <1>3
  <2>2. QED
    BY <2>1
<1>5. j \in 0..Len(p) /\ j \in 0..Len(q) /\ j \in 0..(Len(p) - 1) /\ \A k \in 1..j : p[k] = q[k]
  <2> SUFFICES ASSUME NEW k \in 1..j PROVE p[k] = q[k]
    BY <1>3, <1>4
  <2>1. k \in Nat /\ k < m /\ k \in 1..Len(p) /\ k \in 1..Len(q)
    BY <1>3, <1>4
  <2>2. QED
    BY <1>2, <2>1
<1>6. Node(r, p, j) = WithKey(Node(v, p, j), p[m], Node(r, p, m))
  BY <1>3, <1>4, <1>5, WrittenNodes
<1> HIDE DEF r, Parts
<1>7. Node(r, q, j) = Node(r, p, j) /\ Node(v, q, j) = Node(v, p, j)
  BY <1>5, NodesShared
<1>8. Child(Node(r, q, j), q[m]) = Child(Node(v, q, j), q[m])
  BY <1>3, <1>6, <1>7, WithKeyHolds
<1>9. Node(r, q, m) = Child(Node(r, q, j), q[m]) /\ Node(v, q, m) = Child(Node(v, q, j), q[m])
  <2>1. m - 1 = j
    BY <1>4
  <2>2. QED
    BY <1>3, <2>1, NodeStep
<1>10. Len(q) \in m..Len(q) /\ Len(q) \in 0..Len(q) /\ m \in 0..Len(q)
  BY <1>3
<1>11. Node(r, q, m) = Node(v, q, m)
  BY <1>8, <1>9
<1>12. QED
  BY <1>10, <1>11, NodesFollow DEF At, r

-----------------------------------------------------------------------------
(* The overlay.                                                            *)

IsOverlay(g, base, resolved) ==
    g = [n \in 0..Cardinality(resolved) |->
            IF n = 0 THEN [doc |-> base, left |-> resolved] ELSE WriteNext(g[n - 1])]

\* The recursion of ApplyResolution is well defined, by induction on the writes.
LEMMA OverlayRecursion ==
    ASSUME NEW base, NEW resolved, IsFiniteSet(resolved)
    PROVE  \E g : IsOverlay(g, base, resolved)
<1> DEFINE len == Cardinality(resolved)
           start == [doc |-> base, left |-> resolved]
           Step(g, i) == IF i = 0 THEN start ELSE WriteNext(g[i - 1])
           Upto(g, n) == \A i \in 0..n : g[i] = Step(g, i)
           Missing == {n \in Nat : ~ \E g : Upto(g, n)}
<1> HIDE DEF start
<1>1. Missing = {}
  <2> SUFFICES ASSUME Missing # {} PROVE FALSE
    OBVIOUS
  <2>1. PICK n \in Missing : \A m \in Missing : ~(m < n)
    BY LeastNatural, Zenon
  <2>2. n # 0
    <3>1. Upto([i \in {0} |-> start], 0)
      OBVIOUS
    <3>2. QED
      BY <3>1, <2>1
  <2>3. PICK g : Upto(g, n - 1)
    <3>1. n - 1 \in Nat /\ n - 1 < n
      BY <2>1, <2>2
    <3>2. n - 1 \notin Missing
      BY <2>1, <3>1
    <3> HIDE DEF Upto
    <3>3. QED
      BY <3>1, <3>2
  <2> DEFINE h == [i \in 0..n |-> IF i < n THEN g[i] ELSE WriteNext(g[n - 1])]
  <2>4. n \in Nat /\ \A i \in 0..n : i # n => i \in 0..(n - 1) /\ i < n
    BY <2>1
  <2>5. \A i \in 0..n : i # 0 => i - 1 \in 0..n /\ i - 1 < n /\ h[i - 1] = g[i - 1]
    BY <2>4
  <2>6. h[n] = Step(h, n)
    BY <2>2, <2>4, <2>5
  <2>7. \A i \in 0..n : i # n => h[i] = Step(h, i)
    BY <2>3, <2>4, <2>5
  <2>8. Upto(h, n)
    BY <2>6, <2>7
  <2>9. QED
    BY <2>1, <2>8
<1>2. len \in Nat
  BY FS_CardinalityType
<1> HIDE DEF len
<1>3. PICK g : Upto(g, len)
  BY <1>1, <1>2
<1> DEFINE r == [i \in 0..len |-> g[i]]
<1>4. \A i \in 0..len : Step(r, i) = Step(g, i) /\ Step(g, i) = g[i]
  <2>1. \A i \in 0..len : i # 0 => i - 1 \in 0..len /\ r[i - 1] = g[i - 1]
    BY <1>2
  <2>2. \A i \in 0..len : Step(r, i) = Step(g, i)
    BY <2>1
  <2>3. QED
    BY <1>3, <2>2
<1> HIDE DEF Step
<1>5. r = [i \in 0..len |-> Step(r, i)]
  BY <1>4
<1>6. IsOverlay(r, base, resolved)
  BY <1>5 DEF Step, start, len, IsOverlay
<1>7. QED
  BY <1>6

OverlaysInTurn(g, base, resolved) ==
    /\ g[0] = [doc |-> base, left |-> resolved]
    /\ g[Cardinality(resolved)].doc = ApplyResolution(base, resolved)
    /\ \A i \in 1..Cardinality(resolved) : g[i] = WriteNext(g[i - 1])

LEMMA OverlaySteps ==
    ASSUME NEW base, NEW resolved, IsFiniteSet(resolved)
    PROVE  \E g : OverlaysInTurn(g, base, resolved)
<1> DEFINE f == CHOOSE g : IsOverlay(g, base, resolved)
           n == Cardinality(resolved)
<1>1. IsOverlay(f, base, resolved)
  <2>1. \E g : IsOverlay(g, base, resolved)
    BY OverlayRecursion
  <2>2. QED
    BY <2>1, Zenon
<1>2. f[n].doc = ApplyResolution(base, resolved)
  BY DEF ApplyResolution, IsOverlay
<1>3. n \in Nat
  BY FS_CardinalityType
<1> HIDE DEF f
<1> DEFINE Step(i) == IF i = 0 THEN [doc |-> base, left |-> resolved] ELSE WriteNext(f[i - 1])
<1>4. f = [i \in 0..n |-> Step(i)]
  BY <1>1 DEF IsOverlay
<1>5. Step(0) = [doc |-> base, left |-> resolved] /\ \A i \in 1..n : Step(i) = WriteNext(f[i - 1])
  OBVIOUS
<1> HIDE DEF Step, n
<1>6. \A i \in 0..n : f[i] = Step(i)
  BY <1>4
<1>7. f[0] = Step(0) /\ \A i \in 1..n : f[i] = Step(i)
  BY <1>3, <1>6
<1>8. OverlaysInTurn(f, base, resolved)
  BY <1>2, <1>5, <1>7 DEF OverlaysInTurn, n
<1>9. QED
  BY <1>8

\* What a resolution writes: JSON values at paths none of which leads to another.
IsResolution(Json, resolved) ==
    /\ IsFiniteSet(resolved)
    /\ \A r \in resolved : r.path \in Seq(STRING) /\ r.path # <<>> /\ r.value \in Json
    /\ \A r, s \in resolved : Within(r.path, s.path) => r = s

Keys(v) == IF IsObject(v) THEN DOMAIN v[2] ELSE {}

\* A document overlaid with what was written: the values are at their paths, there
\* are objects on the way to them, every other path is as it was, and no key is gone.
Overlaid(base, d, written) ==
    /\ Keys(base) \cup {r.path[1] : r \in written} \subseteq Keys(d)
    /\ \A r \in written : At(d, r.path) = r.value
    /\ \A r \in written, q \in Seq(STRING) :
          Within(q, r.path) /\ Len(q) < Len(r.path) => IsObject(At(d, q))
    /\ \A q \in Seq(STRING) :
          (\A r \in written : ~Within(r.path, q) /\ ~Within(q, r.path)) => At(d, q) = At(base, q)

LEMMA WrittenKeys ==
    ASSUME NEW v, NEW x, NEW p \in Seq(STRING), p # <<>>
    PROVE  IsObject(SetAtPath(v, p, x)) /\ Keys(SetAtPath(v, p, x)) = Keys(v) \cup {p[1]}
<1> DEFINE r == SetAtPath(v, p, x)
<1>1. 0 \in 0..(Len(p) - 1) /\ 0 + 1 = 1
  OBVIOUS
<1>2. Node(r, p, 0) = WithKey(Node(v, p, 0), p[1], Node(r, p, 1))
  BY <1>1, WrittenNodes
<1> HIDE DEF r
<1>3. Node(r, p, 0) = r /\ Node(v, p, 0) = v
  BY NodeSteps
<1>4. \A key, y : IsObject(WithKey(v, key, y)) /\ Keys(WithKey(v, key, y)) = Keys(v) \cup {key}
  BY DEF WithKey, JsonObject, IsObject, Keys
<1>5. r = WithKey(v, p[1], Node(r, p, 1))
  BY <1>2, <1>3
<1>6. QED
  BY <1>4, <1>5 DEF r

LEMMA WithinItself ==
    ASSUME NEW p \in Seq(STRING)
    PROVE  Within(p, p)
  BY DEF Within

LEMMA WithinThrough ==
    ASSUME NEW p \in Seq(STRING), NEW q \in Seq(STRING), NEW r \in Seq(STRING), Within(p, q), Within(q, r)
    PROVE  Within(p, r)
<1>1. \A k \in 1..Len(p) : k \in 1..Len(q)
  BY DEF Within
<1>2. QED
  BY <1>1 DEF Within

\* Of two paths that lead to one, one leads to the other.
LEMMA WithinBoth ==
    ASSUME NEW p \in Seq(STRING), NEW q \in Seq(STRING), NEW r, Within(p, r), Within(q, r)
    PROVE  Within(p, q) \/ Within(q, p)
<1>1. CASE Len(p) <= Len(q)
  <2>1. \A k \in 1..Len(p) : k \in 1..Len(q)
    BY <1>1
  <2>2. QED
    BY <1>1, <2>1 DEF Within
<1>2. CASE Len(q) <= Len(p)
  <2>1. \A k \in 1..Len(q) : k \in 1..Len(p)
    BY <1>2
  <2>2. QED
    BY <1>2, <2>1 DEF Within
<1>3. QED
  BY <1>1, <1>2

\* One more write.
LEMMA OverlayOne ==
    ASSUME NEW Json, NEW resolved, IsResolution(Json, resolved), NEW base, NEW d,
           NEW written, written \subseteq resolved, NEW r \in resolved \ written,
           Overlaid(base, d, written)
    PROVE  Overlaid(base, SetAtPath(d, r.path, r.value), written \cup {r})
<1> DEFINE p == r.path
           e == SetAtPath(d, p, r.value)
<1>1. p \in Seq(STRING) /\ p # <<>>
  BY DEF IsResolution
<1>2. \A s \in written : s \in resolved /\ s.path \in Seq(STRING) /\ s # r
  BY DEF IsResolution
<1>3. \A s \in written : ~Within(s.path, p) /\ ~Within(p, s.path)
  BY <1>2 DEF IsResolution
<1>4. At(e, p) = r.value
  BY <1>1, WrittenNodes
<1>5. \A q \in Seq(STRING) : Within(q, p) /\ Len(q) < Len(p) => IsObject(At(e, q))
  BY <1>1, WrittenAbove
<1>6. \A q \in Seq(STRING) : ~Within(p, q) /\ ~Within(q, p) => At(e, q) = At(d, q)
  BY <1>1, WrittenBeside
<1>7. Keys(e) = Keys(d) \cup {p[1]}
  BY <1>1, WrittenKeys
<1> HIDE DEF p, e
<1>8. ASSUME NEW s \in written \cup {r} PROVE At(e, s.path) = s.value
  <2>1. CASE s = r
    BY <1>4, <2>1 DEF p
  <2>2. CASE s \in written
    BY <1>2, <1>3, <1>6, <2>2 DEF Overlaid
  <2>3. QED
    BY <2>1, <2>2
<1>9. ASSUME NEW s \in written \cup {r}, NEW q \in Seq(STRING), Within(q, s.path), Len(q) < Len(s.path)
      PROVE  IsObject(At(e, q))
  <2>1. CASE s = r
    BY <1>5, <1>9, <2>1 DEF p
  <2>2. CASE s \in written
    <3>1. IsObject(At(d, q))
      BY <1>9, <2>2 DEF Overlaid
    <3>2. ~Within(p, q)
      <4>1. SUFFICES ASSUME Within(p, q) PROVE FALSE
        OBVIOUS
      <4>2. Within(p, s.path)
        BY <1>1, <1>2, <1>9, <2>2, <4>1, WithinThrough
      <4>3. QED
        BY <1>3, <2>2, <4>2
    <3>3. CASE Within(q, p)
      <4>1. Len(q) < Len(p)
        <5>1. SUFFICES ASSUME ~(Len(q) < Len(p)) PROVE FALSE
          OBVIOUS
        <5>2. Len(q) = Len(p)
          BY <1>1, <3>3, <5>1 DEF Within
        <5>3. Within(p, q)
          BY <1>1, <3>3, <5>2 DEF Within
        <5>4. QED
          BY <3>2, <5>3
      <4>2. QED
        BY <1>5, <3>3, <4>1
    <3>4. CASE ~Within(q, p)
      BY <1>6, <3>1, <3>2, <3>4
    <3>5. QED
      BY <3>3, <3>4
  <2>3. QED
    BY <2>1, <2>2
<1>10. ASSUME NEW q \in Seq(STRING), \A s \in written \cup {r} : ~Within(s.path, q) /\ ~Within(q, s.path)
      PROVE  At(e, q) = At(base, q)
  <2>1. At(e, q) = At(d, q)
    BY <1>6, <1>10 DEF p
  <2>2. At(d, q) = At(base, q)
    BY <1>10 DEF Overlaid
  <2>3. QED
    BY <2>1, <2>2
<1>11. Keys(base) \cup {s.path[1] : s \in written \cup {r}} \subseteq Keys(e)
  BY <1>7 DEF Overlaid, p
<1>12. Overlaid(base, e, written \cup {r})
  BY <1>8, <1>9, <1>10, <1>11 DEF Overlaid
<1>13. QED
  BY <1>12 DEF e, p

\* A resolution that is not empty has a shortest path.
LEMMA ShortestIs ==
    ASSUME NEW left, left # {}, \A r \in left : r.path \in Seq(STRING)
    PROVE  Shortest(left) \in left
<1> DEFINE lengths == {Len(r.path) : r \in left}
<1>1. lengths # {} /\ lengths \subseteq Nat
  <2>1. \A r \in left : Len(r.path) \in Nat
    OBVIOUS
  <2>2. QED
    BY <2>1
<1> HIDE DEF lengths
<1>2. PICK n \in lengths : \A k \in lengths : ~(k < n)
  BY <1>1, LeastNatural, Zenon
<1>3. PICK r \in left : n = Len(r.path)
  BY <1>2 DEF lengths
<1>4. \A s \in left : Len(r.path) <= Len(s.path)
  <2> SUFFICES ASSUME NEW s \in left PROVE Len(r.path) <= Len(s.path)
    OBVIOUS
  <2>1. Len(s.path) \in lengths
    BY DEF lengths
  <2>2. QED
    BY <1>1, <1>2, <1>3, <2>1
<1>5. \E x \in left : \A s \in left : Len(x.path) <= Len(s.path)
  BY <1>4
<1>6. QED
  BY <1>5, Zenon DEF Shortest

\* apply_resolution overlays its base with the whole resolution: each value is at its
\* path, every other path is as it was, and no key is lost.
THEOREM OverlayHolds ==
    ASSUME NEW Json, IsJson(Json), NEW base \in Json, NEW resolved, IsResolution(Json, resolved)
    PROVE  /\ ApplyResolution(base, resolved) \in Json
           /\ Overlaid(base, ApplyResolution(base, resolved), resolved)
<1> DEFINE n == Cardinality(resolved)
<1>1. IsFiniteSet(resolved) /\ n \in Nat
  BY FS_CardinalityType DEF IsResolution
<1>2. PICK g : OverlaysInTurn(g, base, resolved)
  <2>1. \E g : OverlaysInTurn(g, base, resolved)
    BY <1>1, OverlaySteps
  <2>2. QED
    BY <2>1
<1> HIDE DEF n
<1> DEFINE Good(i) == /\ g[i].left \subseteq resolved /\ Cardinality(g[i].left) = n - i
                      /\ g[i].doc \in Json
                      /\ Overlaid(base, g[i].doc, resolved \ g[i].left)
           Wrong == {i \in Nat : i \in 0..n /\ ~Good(i)}
<1>3. Good(0)
  <2>1. g[0].left = resolved /\ g[0].doc = base
    BY <1>2 DEF OverlaysInTurn
  <2>2. Cardinality(resolved) = n - 0
    BY <1>1 DEF n
  <2>3. Overlaid(base, base, {})
    BY DEF Overlaid
  <2>4. resolved \ resolved = {}
    OBVIOUS
  <2>5. QED
    BY <2>1, <2>2, <2>3, <2>4
<1>4. ASSUME NEW i \in 1..n, NEW j \in Nat, j + 1 = i, Good(j) PROVE Good(i)
  <2> DEFINE left == g[j].left
             r == Shortest(left)
  <2>1. j \in 0..n /\ i - 1 = j /\ n - j = (n - i) + 1 /\ n - j # 0 /\ n - i \in Nat
    BY <1>1, <1>4
  <2>2. IsFiniteSet(left) /\ left # {}
    <3>1. IsFiniteSet(left)
      BY <1>1, <1>4, FS_Subset
    <3>2. Cardinality(left) # 0
      BY <1>4, <2>1
    <3>3. QED
      BY <3>1, <3>2, FS_EmptySet
  <2>3. r \in left
    <3>1. \A s \in left : s.path \in Seq(STRING)
      BY <1>4 DEF IsResolution
    <3> HIDE DEF left
    <3>2. QED
      BY <2>2, <3>1, ShortestIs
  <2>4. g[i] = [doc |-> SetAtPath(g[j].doc, r.path, r.value), left |-> left \ {r}]
    <3>1. i \in 1..Cardinality(resolved)
      BY DEF n
    <3>2. g[i] = WriteNext(g[i - 1])
      BY <1>2, <3>1 DEF OverlaysInTurn
    <3>3. QED
      BY <2>1, <3>2 DEF WriteNext
  <2>5. r \in resolved
    BY <1>4, <2>3
  <2>6. r.path \in Seq(STRING) /\ r.path # <<>> /\ r.value \in Json
    BY <2>5 DEF IsResolution
  <2>7. SetAtPath(g[j].doc, r.path, r.value) \in Json
    BY <1>4, <2>6, WrittenIsJson
  <2>8. Overlaid(base, SetAtPath(g[j].doc, r.path, r.value), (resolved \ left) \cup {r})
    <3>1. resolved \ left \subseteq resolved /\ r \in resolved \ (resolved \ left)
      BY <2>3, <2>5
    <3>2. Overlaid(base, g[j].doc, resolved \ left)
      BY <1>4
    <3> HIDE DEF r, left
    <3>3. QED
      BY <3>1, <3>2, OverlayOne
  <2>9. (resolved \ left) \cup {r} = resolved \ (left \ {r})
    BY <2>3, <2>5
  <2>10. Cardinality(left \ {r}) = n - i
    <3>1. Cardinality(left \ {r}) = Cardinality(left) - 1
      <4> HIDE DEF left, r
      <4>1. QED
        BY <2>2, <2>3, FS_RemoveElement
    <3>2. QED
      BY <1>4, <2>1, <3>1
  <2>11. left \ {r} \subseteq resolved
    BY <1>4
  <2> HIDE DEF left, r
  <2>12. g[i].doc = SetAtPath(g[j].doc, r.path, r.value) /\ g[i].left = left \ {r}
    BY <2>4
  <2>13. QED
    BY <2>7, <2>8, <2>9, <2>10, <2>11, <2>12
<1>5. Wrong = {}
  <2> HIDE DEF Good
  <2> SUFFICES ASSUME Wrong # {} PROVE FALSE
    OBVIOUS
  <2>1. PICK i \in Wrong : \A k \in Wrong : ~(k < i)
    BY LeastNatural, Zenon
  <2>2. i \in Nat /\ i \in 1..n /\ ~Good(i)
    BY <1>1, <1>3, <2>1
  <2>3. PICK j \in Nat : j \in 0..n /\ j < i /\ j + 1 = i
    <3>1. i - 1 \in Nat /\ i - 1 \in 0..n /\ i - 1 < i /\ (i - 1) + 1 = i
      BY <1>1, <2>2
    <3>2. QED
      BY <3>1
  <2>4. Good(j)
    BY <2>1, <2>3
  <2> HIDE DEF Wrong
  <2>5. Good(i)
    BY <1>4, <2>2, <2>3, <2>4
  <2>6. QED
    BY <2>2, <2>5
<1>6. Good(n)
  <2> HIDE DEF Good
  <2>1. n \in 0..n
    BY <1>1
  <2>2. QED
    BY <1>1, <1>5, <2>1
<1>7. g[n].left = {}
  <2>1. IsFiniteSet(g[n].left) /\ Cardinality(g[n].left) = 0
    BY <1>1, <1>6, FS_Subset
  <2>2. QED
    BY <2>1, FS_EmptySet
<1>8. resolved \ {} = resolved
  OBVIOUS
<1>9. g[n].doc = ApplyResolution(base, resolved)
  BY <1>2 DEF OverlaysInTurn, n
<1>10. QED
  BY <1>6, <1>7, <1>8, <1>9

-----------------------------------------------------------------------------
(* The changelog.                                                          *)

Moved1(o, d, q) == IF Differs(o, d, q) THEN At(d, q) ELSE None

ChangedAt(o, a, b, q) == Differs(o, a, q) \/ Differs(o, b, q)

ChangeAt(o, a, b, q) ==
    [path       |-> q,
     old_value  |-> At(o, q),
     new_from_a |-> Moved1(o, a, q),
     new_from_b |-> Moved1(o, b, q)]

LEMMA NewAtIs ==
    ASSUME NEW Json, IsJson(Json), NEW o \in Json, NEW d \in Json, NEW q
    PROVE  NewAt(CompareJson(o, d), q) = Moved1(o, d, q)
<1>1. \A e : e \in CompareJson(o, d) <=> \E p : Differs(o, d, p) /\ e = PairAt(o, d, p)
  BY CompareIs
<1>2. \A p : PairAt(o, d, p).path = p /\ PairAt(o, d, p).new = At(d, p)
  BY DEF PairAt, At
<1> DEFINE diffs == CompareJson(o, d)
<1>3. \A e \in diffs : e.path = q => e = PairAt(o, d, q) /\ Differs(o, d, q)
  BY <1>1, <1>2
<1>4. CASE Differs(o, d, q)
  <2>1. PairAt(o, d, q) \in diffs /\ PairAt(o, d, q).path = q
    BY <1>1, <1>2, <1>4
  <2> HIDE DEF diffs
  <2>2. \E e \in diffs : e.path = q
    BY <2>1
  <2>3. (CHOOSE e \in diffs : e.path = q) = PairAt(o, d, q)
    BY <1>3, <2>2
  <2>4. NewAt(diffs, q) = PairAt(o, d, q).new
    BY <2>2, <2>3 DEF NewAt
  <2>5. QED
    BY <1>2, <1>4, <2>4 DEF Moved1, diffs
<1>5. CASE ~Differs(o, d, q)
  <2> HIDE DEF diffs
  <2>1. ~ \E e \in diffs : e.path = q
    BY <1>3, <1>5
  <2>2. NewAt(diffs, q) = None
    BY <2>1 DEF NewAt
  <2>3. QED
    BY <1>5, <2>2 DEF Moved1, diffs
<1>6. QED
  BY <1>4, <1>5

\* The changelog has one change for each path at which a side differs.
THEOREM ChangelogIs ==
    ASSUME NEW Json, IsJson(Json), NEW o \in Json, NEW a \in Json, NEW b \in Json
    PROVE  \A c : c \in ThreeWayDiff(o, a, b) <=>
                     \E q : ChangedAt(o, a, b, q) /\ c = ChangeAt(o, a, b, q)
<1> DEFINE in_a == CompareJson(o, a)
           in_b == CompareJson(o, b)
           F(d) == [path       |-> d.path,
                    old_value  |-> d.old,
                    new_from_a |-> NewAt(in_a, d.path),
                    new_from_b |-> NewAt(in_b, d.path)]
<1>1. /\ \A d : d \in in_a <=> \E q : Differs(o, a, q) /\ d = PairAt(o, a, q)
      /\ \A d : d \in in_b <=> \E q : Differs(o, b, q) /\ d = PairAt(o, b, q)
  BY CompareIs
<1>2. \A q : NewAt(in_a, q) = Moved1(o, a, q) /\ NewAt(in_b, q) = Moved1(o, b, q)
  BY NewAtIs
<1>3. \A q : F(PairAt(o, a, q)) = ChangeAt(o, a, b, q) /\ F(PairAt(o, b, q)) = ChangeAt(o, a, b, q)
  <2> SUFFICES ASSUME NEW q
               PROVE  F(PairAt(o, a, q)) = ChangeAt(o, a, b, q) /\ F(PairAt(o, b, q)) = ChangeAt(o, a, b, q)
    OBVIOUS
  <2>1. PairAt(o, a, q).path = q /\ PairAt(o, a, q).old = At(o, q)
    BY DEF PairAt, At
  <2>2. PairAt(o, b, q).path = q /\ PairAt(o, b, q).old = At(o, q)
    BY DEF PairAt, At
  <2> HIDE DEF in_a, in_b
  <2>3. QED
    BY <1>2, <2>1, <2>2 DEF ChangeAt
<1>4. ThreeWayDiff(o, a, b) = {F(d) : d \in in_a \cup in_b}
  BY DEF ThreeWayDiff
<1> HIDE DEF F, in_a, in_b
<1>5. ASSUME NEW c, c \in ThreeWayDiff(o, a, b)
      PROVE  \E q : ChangedAt(o, a, b, q) /\ c = ChangeAt(o, a, b, q)
  <2>1. PICK d \in in_a \cup in_b : c = F(d)
    BY <1>4, <1>5
  <2>2. \/ \E q : Differs(o, a, q) /\ d = PairAt(o, a, q)
        \/ \E q : Differs(o, b, q) /\ d = PairAt(o, b, q)
    BY <1>1
  <2>3. QED
    BY <1>3, <2>1, <2>2 DEF ChangedAt
<1>6. ASSUME NEW q, ChangedAt(o, a, b, q)
      PROVE  ChangeAt(o, a, b, q) \in ThreeWayDiff(o, a, b)
  <2>1. CASE Differs(o, a, q)
    <3>1. PairAt(o, a, q) \in in_a
      BY <1>1, <2>1
    <3>2. QED
      BY <1>3, <1>4, <3>1
  <2>2. CASE Differs(o, b, q)
    <3>1. PairAt(o, b, q) \in in_b
      BY <1>1, <2>2
    <3>2. QED
      BY <1>3, <1>4, <3>1
  <2>3. QED
    BY <1>6, <2>1, <2>2 DEF ChangedAt
<1>7. QED
  BY <1>5, <1>6

LEMMA ChangelogFinite ==
    ASSUME NEW Json, IsJson(Json), NEW o \in Json, NEW a \in Json, NEW b \in Json
    PROVE  IsFiniteSet(ThreeWayDiff(o, a, b))
<1> DEFINE in_a == CompareJson(o, a)
           in_b == CompareJson(o, b)
           f == [d \in in_a \cup in_b |->
                   [path       |-> d.path,
                    old_value  |-> d.old,
                    new_from_a |-> NewAt(in_a, d.path),
                    new_from_b |-> NewAt(in_b, d.path)]]
<1>1. IsFiniteSet(in_a \cup in_b)
  BY CompareFinite, FS_Union
<1>2. ThreeWayDiff(o, a, b) = {f[d] : d \in in_a \cup in_b}
  BY DEF ThreeWayDiff
<1> HIDE DEF f, in_a, in_b
<1>3. QED
  BY <1>1, <1>2, ValuesFinite

LEMMA PrefixIsWithin ==
    ASSUME NEW p \in Seq(STRING), NEW q \in Seq(STRING), Within(p, q)
    PROVE  IsPrefix(p, q)
<1>1. Len(p) <= Len(q)
  BY DEF Within
<1> DEFINE r == SubSeq(q, 1, Len(p))
<1>2. r \in Seq(STRING) /\ Len(r) = Len(p) /\ \A k \in 1..Len(p) : r[k] = q[k]
  BY <1>1
<1>3. \A k \in 1..Len(p) : p[k] = r[k]
  BY <1>2 DEF Within
<1> HIDE DEF r
<1>4. p = r
  BY <1>2, <1>3, SeqEqual
<1>5. SubSeq(p, 1, Len(p)) = p
  BY SubSeqFull
<1>6. QED
  BY <1>1, <1>4, <1>5 DEF IsPrefix, r

\* Where no changed path lies inside another one, none leads to another one.
LEMMA ChangesApart ==
    ASSUME NEW Json, IsJson(Json), NEW o \in Json, NEW a \in Json, NEW b \in Json,
           ~Overlaps(ThreeWayDiff(o, a, b)),
           NEW p, NEW q, ChangedAt(o, a, b, p), ChangedAt(o, a, b, q), Within(p, q)
    PROVE  p = q
<1>1. p \in Seq(STRING) /\ q \in Seq(STRING)
  BY DEF ChangedAt, Differs, Reached
<1>2. CASE Len(p) = Len(q)
  BY <1>1, <1>2, SeqEqual DEF Within
<1>3. CASE Len(p) # Len(q)
  <2>1. Len(p) < Len(q)
    BY <1>1, <1>3 DEF Within
  <2>2. IsPrefix(p, q)
    BY <1>1, PrefixIsWithin
  <2> DEFINE c == ChangeAt(o, a, b, p)
             d == ChangeAt(o, a, b, q)
  <2>3. \A e : e \in ThreeWayDiff(o, a, b) <=>
                  \E r : ChangedAt(o, a, b, r) /\ e = ChangeAt(o, a, b, r)
    BY ChangelogIs
  <2>4. c \in ThreeWayDiff(o, a, b) /\ d \in ThreeWayDiff(o, a, b)
    BY <2>3
  <2>5. c.path = p /\ d.path = q
    BY DEF ChangeAt
  <2> HIDE DEF c, d
  <2>6. QED
    BY <2>1, <2>2, <2>4, <2>5 DEF Overlaps
<1>4. QED
  BY <1>2, <1>3

-----------------------------------------------------------------------------
(* The owner of every path.                                                *)

\* What OwnedBy makes of a path: the owner's value if it changed it, or else the old one.
Owned(o, d, q) == IF Differs(o, d, q) THEN At(d, q) ELSE At(o, q)

\* The resolution of every change in the favour of the side with d; e is the other's.
OwnersResolution(o, d, e, resolved) ==
    \A r : r \in resolved <=>
              \E q : ChangedAt(o, d, e, q) /\ r = [path |-> q, value |-> Owned(o, d, q)]

\* No path is changed inside another changed one.
Apart(o, d, e) ==
    \A p, q : ChangedAt(o, d, e, p) /\ ChangedAt(o, d, e, q) /\ Within(p, q) => p = q

\* Down any path the overlay comes to what the owner has, or both to objects.
LEMMA OwnerKeepsNodes ==
    ASSUME NEW Json, IsJson(Json), NEW o \in Json, NEW d \in Json, NEW e \in Json,
           IsObject(o), IsObject(d), IsObject(e), Apart(o, d, e),
           NEW resolved, IsFiniteSet(resolved), OwnersResolution(o, d, e, resolved),
           NEW q \in Seq(STRING), Len(q) <= MaxDepth
    PROVE  LET r == ApplyResolution(o, resolved)
           IN  \/ Equal(At(r, q), At(d, q))
               \/ IsObject(At(r, q)) /\ IsObject(At(d, q))
<1> DEFINE r == ApplyResolution(o, resolved)
           Changed1(p) == ChangedAt(o, d, e, p)
<1>1. \A p : Changed1(p) => p \in Seq(STRING)
  BY DEF ChangedAt, Differs, Reached
<1>2. \A p : Changed1(p) => p # <<>>
  <2> SUFFICES ASSUME Changed1(<<>>) PROVE FALSE
    OBVIOUS
  <2>1. Len(<<>>) = 0 /\ <<>> \in Seq(STRING)
    OBVIOUS
  <2>2. Node(o, <<>>, 0) = o /\ Node(d, <<>>, 0) = d /\ Node(e, <<>>, 0) = e
    BY <2>1, NodeSteps
  <2>3. QED
    BY <2>1, <2>2 DEF ChangedAt, Differs
<1>3. \A p \in Seq(STRING) : At(d, p) \in Json /\ At(o, p) \in Json
  <2> SUFFICES ASSUME NEW p \in Seq(STRING) PROVE At(d, p) \in Json /\ At(o, p) \in Json
    OBVIOUS
  <2>1. Len(p) \in 0..Len(p)
    OBVIOUS
  <2>2. QED
    BY <2>1, NodeIsJson DEF At
<1> DEFINE W(p) == [path |-> p, value |-> Owned(o, d, p)]
<1>4. \A p : W(p).path = p /\ W(p).value = Owned(o, d, p)
  OBVIOUS
<1>5. \A x : x \in resolved <=> \E p : Changed1(p) /\ x = W(p)
  BY DEF OwnersResolution
<1> HIDE DEF W
<1>6. IsResolution(Json, resolved)
  <2>1. ASSUME NEW x \in resolved PROVE x.path \in Seq(STRING) /\ x.path # <<>> /\ x.value \in Json
    <3>1. PICK p : Changed1(p) /\ x = W(p)
      BY <1>5
    <3> HIDE DEF Changed1
    <3>2. x.path = p /\ x.value = Owned(o, d, p)
      BY <1>4, <3>1
    <3>3. p \in Seq(STRING) /\ p # <<>>
      BY <1>1, <1>2, <3>1
    <3>4. QED
      BY <1>3, <3>2, <3>3 DEF Owned
  <2>2. ASSUME NEW x \in resolved, NEW y \in resolved, Within(x.path, y.path) PROVE x = y
    <3>1. PICK p : Changed1(p) /\ x = W(p)
      BY <1>5
    <3>2. PICK t : Changed1(t) /\ y = W(t)
      BY <1>5
    <3>3. x.path = p /\ y.path = t
      BY <1>4, <3>1, <3>2
    <3>4. p = t
      BY <2>2, <3>1, <3>2, <3>3 DEF Apart
    <3>5. QED
      BY <3>1, <3>2, <3>4
  <2>3. QED
    BY <2>1, <2>2 DEF IsResolution
<1>7. Overlaid(o, r, resolved)
  BY <1>6, OverlayHolds
<1> HIDE DEF r
<1>8. \A p : Changed1(p) => W(p) \in resolved
  BY <1>5
<1>9. \/ Equal(At(o, q), At(d, q))
      \/ DiffersWithin(o, d, q)
      \/ IsObject(At(o, q)) /\ IsObject(At(d, q))
  BY WhereTheyPart
<1>10. ASSUME DiffersWithin(o, d, q) PROVE \E p : Changed1(p) /\ Differs(o, d, p) /\ Within(p, q)
  BY <1>10 DEF DiffersWithin, ChangedAt
<1>11. CASE \E p : Changed1(p) /\ Within(p, q)
  <2>1. PICK p : Changed1(p) /\ Within(p, q)
    BY <1>11
  <2>2. p \in Seq(STRING)
    BY <1>1, <2>1
  <2>3. At(r, p) = Owned(o, d, p)
    BY <1>4, <1>7, <1>8, <2>1 DEF Overlaid
  <2>4. CASE Differs(o, d, p)
    <3>1. At(r, p) = At(d, p)
      BY <2>3, <2>4 DEF Owned
    <3>2. At(r, q) = At(d, q)
      BY <2>1, <2>2, <3>1, WithinFollows
    <3>3. QED
      BY <3>2 DEF Equal, r
  <2>5. CASE ~Differs(o, d, p)
    <3>1. At(r, p) = At(o, p)
      BY <2>3, <2>5 DEF Owned
    <3>2. At(r, q) = At(o, q)
      BY <2>1, <2>2, <3>1, WithinFollows
    <3>3. ~DiffersWithin(o, d, q)
      <4> SUFFICES ASSUME DiffersWithin(o, d, q) PROVE FALSE
        OBVIOUS
      <4>1. PICK t : Changed1(t) /\ Differs(o, d, t) /\ Within(t, q)
        BY <1>10
      <4>2. t \in Seq(STRING)
        BY <1>1, <4>1
      <4>3. Within(t, p) \/ Within(p, t)
        BY <2>1, <2>2, <4>1, <4>2, WithinBoth
      <4>4. t = p
        BY <2>1, <4>1, <4>3 DEF Apart
      <4>5. QED
        BY <2>5, <4>1, <4>4
    <3>4. QED
      BY <1>9, <3>2, <3>3 DEF r
  <2>6. QED
    BY <2>4, <2>5
<1>12. CASE ~ \E p : Changed1(p) /\ Within(p, q)
  <2>1. ~DiffersWithin(o, d, q)
    BY <1>10, <1>12
  <2>2. CASE \E p : Changed1(p) /\ Within(q, p)
    <3>1. PICK p : Changed1(p) /\ Within(q, p)
      BY <2>2
    <3>2. p \in Seq(STRING)
      BY <1>1, <3>1
    <3>3. Len(q) < Len(p)
      <4> SUFFICES ASSUME ~(Len(q) < Len(p)) PROVE FALSE
        OBVIOUS
      <4>1. Len(q) = Len(p)
        BY <3>1, <3>2 DEF Within
      <4>2. Within(p, q)
        BY <3>1, <4>1 DEF Within
      <4>3. QED
        BY <1>12, <3>1, <4>2
    <3>4. IsObject(At(r, q))
      BY <1>4, <1>7, <1>8, <3>1, <3>3 DEF Overlaid
    <3>5. Len(q) \in 0..(Len(p) - 1)
      BY <3>2, <3>3
    <3>6. Node(d, p, Len(q)) = At(d, q) /\ Node(o, p, Len(q)) = At(o, q)
      BY <3>1, <3>2, WithinSame
    <3>7. CASE Differs(o, d, p)
      <4>1. Enters(o, d, p, Len(q))
        BY <3>5, <3>7 DEF Differs, Reached
      <4>2. IsObject(At(d, q))
        BY <3>6, <4>1 DEF Enters
      <4>3. QED
        BY <3>4, <4>2 DEF r
    <3>8. CASE Differs(o, e, p)
      <4>1. Enters(o, e, p, Len(q))
        BY <3>5, <3>8 DEF Differs, Reached
      <4>2. IsObject(At(o, q))
        BY <3>6, <4>1 DEF Enters
      <4>3. Equal(At(o, q), At(d, q)) => IsObject(At(d, q))
        BY <4>2 DEF Equal, NumericallyEqual, IsNumber, IsObject
      <4>4. IsObject(At(d, q))
        BY <1>9, <2>1, <4>3
      <4>5. QED
        BY <3>4, <4>4 DEF r
    <3>9. QED
      BY <3>1, <3>7, <3>8 DEF ChangedAt
  <2>3. CASE ~ \E p : Changed1(p) /\ Within(q, p)
    <3>1. \A x \in resolved : ~Within(x.path, q) /\ ~Within(q, x.path)
      BY <1>4, <1>5, <1>12, <2>3
    <3>2. At(r, q) = At(o, q)
      BY <1>7, <3>1 DEF Overlaid
    <3>3. QED
      BY <1>9, <2>1, <3>2 DEF r
  <2>4. QED
    BY <2>2, <2>3
<1>13. QED
  BY <1>11, <1>12

\* A document is the same as itself.
LEMMA SameJsonItself ==
    ASSUME NEW Json, IsJson(Json), NEW d \in Json
    PROVE  SameJson(d, d)
<1>1. \A c : c \in CompareJson(d, d) <=> \E q : Differs(d, d, q) /\ c = PairAt(d, d, q)
  BY CompareIs
<1>2. \A q : ~Differs(d, d, q)
  BY DEF Differs, Equal
<1>3. QED
  BY <1>1, <1>2 DEF SameJson

\* The members of an upserted object are the payload's, then the record's.
LEMMA UpsertedChild ==
    ASSUME NEW d, NEW r, IsObject(d), IsObject(r), NEW key
    PROVE  /\ IsObject(Upserted(d, r))
           /\ Child(Upserted(d, r), key) = IF key \in DOMAIN r[2] THEN Child(r, key) ELSE Child(d, key)
<1> DEFINE f == [x \in DOMAIN r[2] \cup DOMAIN d[2] |-> IF x \in DOMAIN r[2] THEN r[2][x] ELSE d[2][x]]
<1>1. Upserted(d, r) = <<"object", f>>
  BY DEF Upserted, JsonObject
<1>2. IsObject(Upserted(d, r)) /\ Upserted(d, r)[2] = f
  BY <1>1 DEF IsObject
<1>3. DOMAIN f = DOMAIN r[2] \cup DOMAIN d[2]
  OBVIOUS
<1>4. CASE key \in DOMAIN r[2]
  <2>1. key \in DOMAIN f /\ f[key] = r[2][key]
    BY <1>4
  <2> HIDE DEF f
  <2>2. QED
    BY <1>2, <1>4, <2>1 DEF Child
<1>5. CASE key \notin DOMAIN r[2]
  <2>1. key \in DOMAIN f <=> key \in DOMAIN d[2]
    BY <1>5
  <2>2. key \in DOMAIN f => f[key] = d[2][key]
    BY <1>5
  <2> HIDE DEF f
  <2>3. QED
    BY <1>2, <1>5, <2>1, <2>2 DEF Child
<1>6. QED
  BY <1>4, <1>5

\* Down any path but the empty one the upserted object goes as one of the two does.
LEMMA UpsertedNodes ==
    ASSUME NEW d, NEW r, IsObject(d), IsObject(r), NEW q \in Seq(STRING), q # <<>>
    PROVE  At(Upserted(d, r), q) = At(r, q) \/ At(Upserted(d, r), q) = At(d, q)
<1> DEFINE u == Upserted(d, r)
<1>1. 1 \in 1..Len(q) /\ 1 \in 0..Len(q) /\ Len(q) \in 1..Len(q) /\ Len(q) \in 0..Len(q) /\ 1 - 1 = 0
  OBVIOUS
<1>2. \A v : Node(v, q, 1) = Child(v, q[1])
  <2> SUFFICES ASSUME NEW v PROVE Node(v, q, 1) = Child(v, q[1])
    OBVIOUS
  <2>1. Node(v, q, 0) = v
    BY NodeSteps
  <2>2. Node(v, q, 1) = Child(Node(v, q, 1 - 1), q[1])
    BY <1>1, NodeStep
  <2>3. QED
    BY <1>1, <2>1, <2>2
<1>3. Child(u, q[1]) = Child(r, q[1]) \/ Child(u, q[1]) = Child(d, q[1])
  BY UpsertedChild
<1> HIDE DEF u
<1>4. ASSUME NEW v, Node(u, q, 1) = Node(v, q, 1) PROVE At(u, q) = At(v, q)
  <2>1. QED
    BY <1>1, <1>4, NodesFollow DEF At
<1>5. QED
  BY <1>2, <1>3, <1>4 DEF u

\* A side whose policy owns every path keeps what it has, when no changed path lies
\* inside another one: what it is given back differs from its own nowhere.
LEMMA OwnerKeeps ==
    ASSUME NEW Json, IsJson(Json), NEW o \in Json, NEW d \in Json, NEW e \in Json,
           IsObject(o), IsObject(d), IsObject(e), Apart(o, d, e),
           NEW resolved, IsFiniteSet(resolved), OwnersResolution(o, d, e, resolved),
           ApplyResolution(o, resolved) \in Json, IsObject(ApplyResolution(o, resolved))
    PROVE  SameJson(Upserted(d, ApplyResolution(o, resolved)), d)
<1> DEFINE r == ApplyResolution(o, resolved)
           u == Upserted(d, r)
<1>1. \A q \in Seq(STRING) : Len(q) <= MaxDepth =>
          \/ Equal(At(r, q), At(d, q))
          \/ IsObject(At(r, q)) /\ IsObject(At(d, q))
  BY OwnerKeepsNodes
<1> HIDE DEF r
<1>2. u \in Json
  BY DEF IsJson, r
<1>3. IsObject(u)
  <2>1. IsObject(r)
    BY DEF r
  <2>2. QED
    BY <2>1, UpsertedChild
<1>4. ASSUME NEW q, Differs(u, d, q) PROVE FALSE
  <2>1. q \in Seq(STRING) /\ Len(q) <= MaxDepth
    BY <1>4 DEF Differs, Reached
  <2>2. ~Equal(At(u, q), At(d, q)) /\ ~(IsObject(At(u, q)) /\ IsObject(At(d, q)))
    BY <1>4 DEF Differs, At
  <2>3. q # <<>>
    <3> SUFFICES ASSUME q = <<>> PROVE FALSE
      OBVIOUS
    <3>1. Len(q) = 0 /\ Node(u, q, 0) = u /\ Node(d, q, 0) = d
      BY <2>1, NodeSteps
    <3> HIDE DEF u
    <3>2. QED
      BY <1>3, <2>2, <3>1 DEF At
  <2>4. At(u, q) = At(r, q) \/ At(u, q) = At(d, q)
    <3>1. IsObject(r)
      BY DEF r
    <3>2. QED
      BY <2>1, <2>3, <3>1, UpsertedNodes
  <2> HIDE DEF u
  <2>5. QED
    BY <1>1, <2>1, <2>2, <2>4 DEF Equal
<1> HIDE DEF u
<1>5. \A c : c \in CompareJson(u, d) <=> \E q : Differs(u, d, q) /\ c = PairAt(u, d, q)
  BY <1>2, CompareIs
<1>6. SameJson(u, d)
  BY <1>4, <1>5 DEF SameJson
<1>7. QED
  BY <1>6 DEF u, r

-----------------------------------------------------------------------------
(* An overlay whose paths may lie inside one another.                      *)

IsWriting(Json, resolved) ==
    /\ IsFiniteSet(resolved)
    /\ \A r \in resolved : r.path \in Seq(STRING) /\ r.path # <<>> /\ r.value \in Json

\* Whatever is written to an object in any order, it stays a JSON object.
LEMMA OverlayIsJson ==
    ASSUME NEW Json, IsJson(Json), NEW base \in Json, IsObject(base),
           NEW resolved, IsWriting(Json, resolved)
    PROVE  ApplyResolution(base, resolved) \in Json /\ IsObject(ApplyResolution(base, resolved))
<1> DEFINE n == Cardinality(resolved)
<1>1. IsFiniteSet(resolved) /\ n \in Nat
  BY FS_CardinalityType DEF IsWriting
<1>2. PICK g : OverlaysInTurn(g, base, resolved)
  <2>1. \E g : OverlaysInTurn(g, base, resolved)
    BY <1>1, OverlaySteps
  <2>2. QED
    BY <2>1
<1> HIDE DEF n
<1> DEFINE Good(i) == /\ g[i].left \subseteq resolved /\ Cardinality(g[i].left) = n - i
                      /\ g[i].doc \in Json /\ IsObject(g[i].doc)
           Wrong == {i \in Nat : i \in 0..n /\ ~Good(i)}
<1>3. Good(0)
  <2>1. g[0].left = resolved /\ g[0].doc = base
    BY <1>2 DEF OverlaysInTurn
  <2>2. Cardinality(resolved) = n - 0
    BY <1>1 DEF n
  <2>3. QED
    BY <2>1, <2>2
<1>4. ASSUME NEW i \in 1..n, NEW j \in Nat, j + 1 = i, Good(j) PROVE Good(i)
  <2> DEFINE left == g[j].left
             r == Shortest(left)
  <2>1. i - 1 = j /\ n - j = (n - i) + 1 /\ n - j # 0 /\ n - i \in Nat
    BY <1>1, <1>4
  <2>2. IsFiniteSet(left) /\ left # {}
    <3>1. IsFiniteSet(left)
      BY <1>1, <1>4, FS_Subset
    <3>2. Cardinality(left) # 0
      BY <1>4, <2>1
    <3>3. QED
      BY <3>1, <3>2, FS_EmptySet
  <2>3. r \in left
    <3>1. \A s \in left : s.path \in Seq(STRING)
      BY <1>4 DEF IsWriting
    <3> HIDE DEF left
    <3>2. QED
      BY <2>2, <3>1, ShortestIs
  <2>4. g[i] = [doc |-> SetAtPath(g[j].doc, r.path, r.value), left |-> left \ {r}]
    <3>1. i \in 1..Cardinality(resolved)
      BY DEF n
    <3>2. g[i] = WriteNext(g[i - 1])
      BY <1>2, <3>1 DEF OverlaysInTurn
    <3>3. QED
      BY <2>1, <3>2 DEF WriteNext
  <2>5. r \in resolved
    BY <1>4, <2>3
  <2>6. r.path \in Seq(STRING) /\ r.path # <<>> /\ r.value \in Json
    BY <2>5 DEF IsWriting
  <2>7. SetAtPath(g[j].doc, r.path, r.value) \in Json
    BY <1>4, <2>6, WrittenIsJson
  <2>8. IsObject(SetAtPath(g[j].doc, r.path, r.value))
    BY <2>6, WrittenKeys
  <2>9. Cardinality(left \ {r}) = n - i
    <3>1. Cardinality(left \ {r}) = Cardinality(left) - 1
      <4> HIDE DEF left, r
      <4>1. QED
        BY <2>2, <2>3, FS_RemoveElement
    <3>2. QED
      BY <1>4, <2>1, <3>1
  <2>10. left \ {r} \subseteq resolved
    BY <1>4
  <2> HIDE DEF left, r
  <2>11. g[i].doc = SetAtPath(g[j].doc, r.path, r.value) /\ g[i].left = left \ {r}
    BY <2>4
  <2>12. QED
    BY <2>7, <2>8, <2>9, <2>10, <2>11
<1>5. Wrong = {}
  <2> HIDE DEF Good
  <2> SUFFICES ASSUME Wrong # {} PROVE FALSE
    OBVIOUS
  <2>1. PICK i \in Wrong : \A k \in Wrong : ~(k < i)
    BY LeastNatural, Zenon
  <2>2. i \in Nat /\ i \in 1..n /\ ~Good(i)
    BY <1>1, <1>3, <2>1
  <2>3. PICK j \in Nat : j \in 0..n /\ j < i /\ j + 1 = i
    <3>1. i - 1 \in Nat /\ i - 1 \in 0..n /\ i - 1 < i /\ (i - 1) + 1 = i
      BY <1>1, <2>2
    <3>2. QED
      BY <3>1
  <2>4. Good(j)
    BY <2>1, <2>3
  <2> HIDE DEF Wrong
  <2>5. Good(i)
    BY <1>4, <2>2, <2>3, <2>4
  <2>6. QED
    BY <2>2, <2>5
<1>6. Good(n)
  <2> HIDE DEF Good
  <2>1. n \in 0..n
    BY <1>1
  <2>2. QED
    BY <1>1, <1>5, <2>1
<1>7. g[n].doc = ApplyResolution(base, resolved)
  BY <1>2 DEF OverlaysInTurn, n
<1>8. QED
  BY <1>6, <1>7

-----------------------------------------------------------------------------
(* A document that was pushed and is compared again.                       *)

\* A changed path is not the whole document, and there are objects on the way to it.
LEMMA ChangedIs ==
    ASSUME NEW o, NEW a, NEW b, IsObject(o), IsObject(a), IsObject(b),
           NEW p, ChangedAt(o, a, b, p)
    PROVE  /\ p \in Seq(STRING) /\ p # <<>>
           /\ \A q \in Seq(STRING) : Within(q, p) /\ Len(q) < Len(p) => IsObject(At(o, q))
<1>1. p \in Seq(STRING)
  BY DEF ChangedAt, Differs, Reached
<1>2. p # <<>>
  <2> SUFFICES ASSUME p = <<>> PROVE FALSE
    OBVIOUS
  <2>1. Len(p) = 0 /\ Node(o, p, 0) = o /\ Node(a, p, 0) = a /\ Node(b, p, 0) = b
    BY <1>1, NodeSteps
  <2>2. QED
    BY <2>1 DEF ChangedAt, Differs
<1>3. ASSUME NEW q \in Seq(STRING), Within(q, p), Len(q) < Len(p) PROVE IsObject(At(o, q))
  <2>1. Len(q) \in 0..(Len(p) - 1)
    BY <1>1, <1>3
  <2>2. IsObject(Node(o, p, Len(q)))
    BY <2>1 DEF ChangedAt, Differs, Reached, Enters
  <2>3. Node(o, p, Len(q)) = At(o, q)
    BY <1>1, <1>3, WithinSame
  <2>4. QED
    BY <2>2, <2>3
<1>4. QED
  BY <1>1, <1>2, <1>3

\* The resolution writes every change, with what one of the sides made of it or with
\* what it was.
SidesPicked(o, a, b, resolved) ==
    /\ \A q : ChangedAt(o, a, b, q) => \E r \in resolved : r.path = q
    /\ \A r \in resolved :
          /\ ChangedAt(o, a, b, r.path)
          /\ \/ r.value = At(o, r.path)
             \/ Differs(o, a, r.path) /\ r.value = At(a, r.path)
             \/ Differs(o, b, r.path) /\ r.value = At(b, r.path)

\* Pushed over A's document, the overlay makes it the overlay: what A has besides it
\* is null.
LEMMA PushedIsOverlay ==
    ASSUME NEW Json, IsJson(Json), NEW o \in Json, NEW a \in Json, NEW b \in Json,
           IsObject(o), IsObject(a), IsObject(b),
           NEW resolved, IsResolution(Json, resolved), SidesPicked(o, a, b, resolved),
           IsObject(ApplyResolution(o, resolved)),
           NEW q \in Seq(STRING), q # <<>>, Len(q) <= MaxDepth
    PROVE  At(Upserted(a, ApplyResolution(o, resolved)), q) = At(ApplyResolution(o, resolved), q)
<1> DEFINE r == ApplyResolution(o, resolved)
           u == Upserted(a, r)
<1>1. Overlaid(o, r, resolved)
  BY OverlayHolds
<1> HIDE DEF r
<1>2. IsObject(r)
  BY DEF r
<1> HIDE DEF u
<1>3. /\ 1 \in 1..Len(q) /\ 1 \in 0..Len(q) /\ Len(q) \in 1..Len(q) /\ Len(q) \in 0..Len(q)
      /\ 1 - 1 = 0 /\ q[1] \in STRING
  OBVIOUS
<1>4. \A v : Node(v, q, 1) = Child(v, q[1])
  <2> SUFFICES ASSUME NEW v PROVE Node(v, q, 1) = Child(v, q[1])
    OBVIOUS
  <2>1. Node(v, q, 0) = v
    BY NodeSteps
  <2>2. Node(v, q, 1) = Child(Node(v, q, 1 - 1), q[1])
    BY <1>3, NodeStep
  <2>3. QED
    BY <1>3, <2>1, <2>2
<1>5. ASSUME NEW v, NEW w, Child(v, q[1]) = Child(w, q[1]) PROVE At(v, q) = At(w, q)
  BY <1>3, <1>4, <1>5, NodesFollow DEF At
<1>6. CASE q[1] \in DOMAIN r[2]
  <2>1. Child(u, q[1]) = Child(r, q[1])
    BY <1>2, <1>6, UpsertedChild DEF u
  <2>2. QED
    BY <1>5, <2>1 DEF r, u
<1>7. CASE q[1] \notin DOMAIN r[2]
  <2>1. Child(u, q[1]) = Child(a, q[1]) /\ Child(r, q[1]) = Null
    BY <1>2, <1>7, UpsertedChild DEF u, Child
  <2>2. Keys(o) \cup {x.path[1] : x \in resolved} \subseteq DOMAIN r[2]
    BY <1>1, <1>2 DEF Overlaid, Keys
  <2>3. Child(o, q[1]) = Null
    BY <1>7, <2>2 DEF Child, Keys
  <2>4. ~DiffersWithin(o, a, q)
    <3> SUFFICES ASSUME DiffersWithin(o, a, q) PROVE FALSE
      OBVIOUS
    <3>1. PICK p : Differs(o, a, p) /\ Within(p, q)
      BY DEF DiffersWithin
    <3>2. ChangedAt(o, a, b, p)
      BY <3>1 DEF ChangedAt
    <3>3. p \in Seq(STRING) /\ p # <<>>
      BY <3>2, ChangedIs
    <3>4. p[1] = q[1]
      BY <3>1, <3>3 DEF Within
    <3>5. PICK x \in resolved : x.path = p
      BY <3>2 DEF SidesPicked
    <3>6. QED
      BY <1>7, <2>2, <3>4, <3>5
  <2>5. At(o, q) = At(r, q) /\ At(u, q) = At(a, q)
    BY <1>5, <2>1, <2>3
  <2>6. \A i \in Nat : i \in 1..Len(q) => Node(r, q, i) = Null
    <3> DEFINE Wrong == {i \in Nat : i \in 1..Len(q) /\ Node(r, q, i) # Null}
    <3>1. Wrong = {}
      <4> SUFFICES ASSUME Wrong # {} PROVE FALSE
        OBVIOUS
      <4>1. PICK i \in Wrong : \A k \in Wrong : ~(k < i)
        BY LeastNatural, Zenon
      <4>2. i \in Nat /\ i \in 1..Len(q) /\ Node(r, q, i) # Null
        BY <4>1
      <4>3. i # 1
        BY <1>4, <2>1, <4>2
      <4>4. i - 1 \in Nat /\ i - 1 \in 1..Len(q) /\ i - 1 < i
        BY <4>2, <4>3
      <4>5. Node(r, q, i - 1) = Null
        BY <4>1, <4>4
      <4>6. Node(r, q, i) = Child(Node(r, q, i - 1), q[i])
        BY <4>2, NodeStep
      <4>7. QED
        BY <4>2, <4>5, <4>6 DEF Child, Null, IsObject
    <3>2. QED
      BY <3>1
  <2>7. At(r, q) = Null
    BY <1>3, <2>6 DEF At
  <2>8. ~IsObject(Null)
    BY DEF Null, IsObject
  <2>9. Equal(At(o, q), At(a, q))
    BY <2>4, <2>5, <2>7, <2>8, WhereTheyPart
  <2>10. At(a, q) = Null
    BY <2>5, <2>7, <2>9 DEF Equal, NumericallyEqual, IsNumber, Null
  <2>11. QED
    BY <2>5, <2>7, <2>10 DEF r, u
<1>8. QED
  BY <1>6, <1>7

\* What a written value and the old one at a changed path are: equal, or not both objects.
LEMMA PickedParts ==
    ASSUME NEW o, NEW a, NEW b, NEW resolved, SidesPicked(o, a, b, resolved),
           NEW r \in resolved, IsObject(At(o, r.path)), IsObject(r.value)
    PROVE  r.value = At(o, r.path)
  BY DEF SidesPicked, Differs, At

\* Compared again, the pushed document differs at the changed paths whose values were
\* written with another one than the old, and nowhere else.
LEMMA PushedDiffers ==
    ASSUME NEW Json, IsJson(Json), NEW o \in Json, NEW a \in Json, NEW b \in Json,
           IsObject(o), IsObject(a), IsObject(b),
           NEW resolved, IsResolution(Json, resolved), SidesPicked(o, a, b, resolved),
           IsObject(ApplyResolution(o, resolved))
    PROVE  LET u == Upserted(a, ApplyResolution(o, resolved))
           IN  /\ \A r \in resolved : At(u, r.path) = r.value
               /\ \A r \in resolved : ~Equal(At(o, r.path), r.value) => Differs(o, u, r.path)
               /\ \A p : Differs(o, u, p)
                            => \E r \in resolved : r.path = p /\ ~Equal(At(o, p), r.value)
<1> DEFINE R == ApplyResolution(o, resolved)
           u == Upserted(a, R)
<1>1. Overlaid(o, R, resolved)
  BY OverlayHolds
<1>2. \A q \in Seq(STRING) : q # <<>> /\ Len(q) <= MaxDepth => At(u, q) = At(R, q)
  BY PushedIsOverlay
<1>3. IsObject(u)
  BY UpsertedChild
<1> HIDE DEF R, u
<1>4. \A p : ChangedAt(o, a, b, p) =>
          /\ p \in Seq(STRING) /\ p # <<>> /\ Len(p) <= MaxDepth
          /\ \A q \in Seq(STRING) : Within(q, p) /\ Len(q) < Len(p) => IsObject(At(o, q))
  BY ChangedIs DEF ChangedAt, Differs
<1>5. ASSUME NEW r \in resolved PROVE At(u, r.path) = r.value
  <2>1. ChangedAt(o, a, b, r.path)
    BY DEF SidesPicked
  <2>2. At(R, r.path) = r.value
    BY <1>1 DEF Overlaid
  <2>3. QED
    BY <1>2, <1>4, <2>1, <2>2
<1>6. ASSUME NEW p, Differs(o, u, p)
      PROVE  \E r \in resolved : r.path = p /\ ~Equal(At(o, p), r.value)
  <2>1. p \in Seq(STRING) /\ Len(p) <= MaxDepth
    BY <1>6 DEF Differs, Reached
  <2>2. ~Equal(At(o, p), At(u, p)) /\ ~(IsObject(At(o, p)) /\ IsObject(At(u, p)))
    BY <1>6 DEF Differs, At
  <2>3. p # <<>>
    <3> SUFFICES ASSUME p = <<>> PROVE FALSE
      OBVIOUS
    <3>1. Len(p) = 0 /\ Node(o, p, 0) = o /\ Node(u, p, 0) = u
      BY <2>1, NodeSteps
    <3>2. QED
      BY <1>3, <2>2, <3>1 DEF At
  <2>4. At(u, p) = At(R, p)
    BY <1>2, <2>1, <2>3
  <2>5. CASE \E r \in resolved : Within(r.path, p)
    <3>1. PICK r \in resolved : Within(r.path, p)
      BY <2>5
    <3>2. r.path \in Seq(STRING)
      BY DEF IsResolution
    <3>3. r.path = p
      <4>1. SUFFICES ASSUME r.path # p PROVE FALSE
        OBVIOUS
      <4>2. Len(r.path) # Len(p)
        BY <2>1, <3>1, <3>2, <4>1, SeqEqual DEF Within
      <4>3. Len(r.path) \in 0..(Len(p) - 1)
        BY <2>1, <3>1, <3>2, <4>2 DEF Within
      <4>4. Enters(o, u, p, Len(r.path))
        BY <1>6, <4>3 DEF Differs, Reached
      <4>5. Node(o, p, Len(r.path)) = At(o, r.path) /\ Node(u, p, Len(r.path)) = At(u, r.path)
        BY <2>1, <3>1, <3>2, WithinSame
      <4>6. /\ IsObject(At(o, r.path)) /\ IsObject(r.value)
            /\ ~Equal(At(o, r.path), r.value)
        BY <1>5, <4>4, <4>5 DEF Enters
      <4>7. QED
        BY <4>6, PickedParts DEF Equal
    <3>4. QED
      BY <1>5, <2>2, <3>3
  <2>6. CASE ~ \E r \in resolved : Within(r.path, p)
    <3>1. CASE \E r \in resolved : Within(p, r.path)
      <4>1. PICK r \in resolved : Within(p, r.path)
        BY <3>1
      <4>2. r.path \in Seq(STRING) /\ ChangedAt(o, a, b, r.path)
        BY DEF IsResolution, SidesPicked
      <4>3. Len(p) < Len(r.path)
        <5> SUFFICES ASSUME ~(Len(p) < Len(r.path)) PROVE FALSE
          OBVIOUS
        <5>1. Len(p) = Len(r.path)
          BY <2>1, <4>1, <4>2 DEF Within
        <5>2. Within(r.path, p)
          BY <4>1, <5>1 DEF Within
        <5>3. QED
          BY <2>6, <5>2
      <4>4. IsObject(At(R, p)) /\ IsObject(At(o, p))
        BY <1>1, <1>4, <2>1, <4>1, <4>2, <4>3 DEF Overlaid
      <4>5. QED
        BY <2>2, <2>4, <4>4
    <3>2. CASE ~ \E r \in resolved : Within(p, r.path)
      <4>1. At(R, p) = At(o, p)
        BY <1>1, <2>1, <2>6, <3>2 DEF Overlaid
      <4>2. QED
        BY <2>2, <2>4, <4>1 DEF Equal
    <3>3. QED
      BY <3>1, <3>2
  <2>7. QED
    BY <2>5, <2>6
<1>7. ASSUME NEW r \in resolved, ~Equal(At(o, r.path), r.value) PROVE Differs(o, u, r.path)
  <2>1. r.path \in Seq(STRING) /\ Len(r.path) <= MaxDepth
    BY <1>4 DEF SidesPicked
  <2>2. At(u, r.path) = r.value
    BY <1>5
  <2>3. ~(IsObject(At(o, r.path)) /\ IsObject(r.value))
    BY <1>7, PickedParts DEF Equal
  <2>4. DiffersWithin(o, u, r.path)
    BY <1>7, <2>1, <2>2, <2>3, WhereTheyPart
  <2>5. PICK t : Differs(o, u, t) /\ Within(t, r.path)
    BY <2>4 DEF DiffersWithin
  <2>6. PICK s \in resolved : s.path = t
    BY <1>6, <2>5
  <2>7. s = r
    BY <2>5, <2>6 DEF IsResolution
  <2>8. QED
    BY <2>5, <2>6, <2>7
<1>8. QED
  BY <1>5, <1>6, <1>7 DEF R, u

\* Two overlays agree when what the one writes the other writes too, or has anyway.
LEMMA OverlaysAgree ==
    ASSUME NEW Json, IsJson(Json), NEW o \in Json,
           NEW again, IsResolution(Json, again), NEW first, IsResolution(Json, first),
           \A r \in again : \E s \in first : s.path = r.path /\ Equal(r.value, s.value),
           \A s \in first : \/ \E r \in again : r.path = s.path
                            \/ Equal(At(o, s.path), s.value),
           \A s \in first, q \in Seq(STRING) :
              Within(q, s.path) /\ Len(q) < Len(s.path) => IsObject(At(o, q))
    PROVE  SameJson(ApplyResolution(o, again), ApplyResolution(o, first))
<1> DEFINE u == ApplyResolution(o, again)
           v == ApplyResolution(o, first)
<1>1. u \in Json /\ v \in Json /\ Overlaid(o, u, again) /\ Overlaid(o, v, first)
  BY OverlayHolds
<1> HIDE DEF u, v
<1>2. /\ \A r \in again : r.path \in Seq(STRING)
      /\ \A s \in first : s.path \in Seq(STRING)
  BY DEF IsResolution
<1>3. ASSUME NEW s \in first PROVE Equal(At(u, s.path), At(v, s.path))
  <2>1. At(v, s.path) = s.value
    BY <1>1 DEF Overlaid
  <2>2. CASE \E r \in again : r.path = s.path
    <3>1. PICK r \in again : r.path = s.path
      BY <2>2
    <3>2. PICK t \in first : t.path = r.path /\ Equal(r.value, t.value)
      OBVIOUS
    <3>3. t = s
      BY <1>2, <3>1, <3>2, WithinItself DEF IsResolution
    <3>4. At(u, r.path) = r.value
      BY <1>1 DEF Overlaid
    <3>5. QED
      BY <2>1, <3>1, <3>2, <3>3, <3>4
  <2>3. CASE ~ \E r \in again : r.path = s.path
    <3>1. \A r \in again : ~Within(r.path, s.path) /\ ~Within(s.path, r.path)
      <4> SUFFICES ASSUME NEW r \in again, Within(r.path, s.path) \/ Within(s.path, r.path) PROVE FALSE
        OBVIOUS
      <4>1. PICK t \in first : t.path = r.path
        OBVIOUS
      <4>2. t = s
        BY <4>1 DEF IsResolution
      <4>3. QED
        BY <2>3, <4>1, <4>2
    <3>2. At(u, s.path) = At(o, s.path)
      BY <1>1, <1>2, <3>1 DEF Overlaid
    <3>3. QED
      BY <2>1, <2>3, <3>2
  <2>4. QED
    BY <2>2, <2>3
<1>4. ASSUME NEW q \in Seq(STRING)
      PROVE  \/ Equal(At(u, q), At(v, q))
             \/ IsObject(At(u, q)) /\ IsObject(At(v, q))
  <2>1. CASE \E s \in first : Within(s.path, q)
    <3>1. PICK s \in first : Within(s.path, q)
      BY <2>1
    <3>2. /\ Node(u, q, Len(s.path)) = At(u, s.path) /\ Node(v, q, Len(s.path)) = At(v, s.path)
          /\ Len(s.path) \in 0..Len(q)
      BY <1>2, <3>1, WithinSame
    <3>3. Equal(At(u, q), At(v, q))
      BY <1>3, <3>2, EqualFollows
    <3>4. QED
      BY <3>3
  <2>2. CASE ~ \E s \in first : Within(s.path, q)
    <3>1. ~ \E r \in again : Within(r.path, q)
      BY <2>2
    <3>2. CASE \E s \in first : Within(q, s.path)
      <4>1. PICK s \in first : Within(q, s.path)
        BY <3>2
      <4>2. \A p \in Seq(STRING) : Within(q, p) /\ ~Within(p, q) => Len(q) < Len(p)
        <5> SUFFICES ASSUME NEW p \in Seq(STRING), Within(q, p), ~Within(p, q), ~(Len(q) < Len(p)) PROVE FALSE
          OBVIOUS
        <5>1. Len(q) = Len(p)
          BY DEF Within
        <5>2. QED
          BY <5>1 DEF Within
      <4>3. Len(q) < Len(s.path)
        BY <1>2, <2>2, <4>1, <4>2
      <4>4. IsObject(At(v, q)) /\ IsObject(At(o, q))
        BY <1>1, <4>1, <4>3 DEF Overlaid
      <4>5. CASE \E r \in again : Within(q, r.path)
        <5>1. PICK r \in again : Within(q, r.path)
          BY <4>5
        <5>2. Len(q) < Len(r.path)
          BY <1>2, <3>1, <4>2, <5>1
        <5>3. IsObject(At(u, q))
          BY <1>1, <5>1, <5>2 DEF Overlaid
        <5>4. QED
          BY <4>4, <5>3
      <4>6. CASE ~ \E r \in again : Within(q, r.path)
        <5>1. At(u, q) = At(o, q)
          BY <1>1, <3>1, <4>6 DEF Overlaid
        <5>2. QED
          BY <4>4, <5>1
      <4>7. QED
        BY <4>5, <4>6
    <3>3. CASE ~ \E s \in first : Within(q, s.path)
      <4>1. ~ \E r \in again : Within(q, r.path)
        BY <3>3
      <4>2. At(u, q) = At(o, q) /\ At(v, q) = At(o, q)
        BY <1>1, <2>2, <3>1, <3>3, <4>1 DEF Overlaid
      <4>3. QED
        BY <4>2 DEF Equal
    <3>4. QED
      BY <3>2, <3>3
  <2>3. QED
    BY <2>1, <2>2
<1>5. \A q : ~Differs(u, v, q)
  <2> SUFFICES ASSUME NEW q, Differs(u, v, q) PROVE FALSE
    OBVIOUS
  <2>1. q \in Seq(STRING)
    BY DEF Differs, Reached
  <2>2. QED
    BY <1>4, <2>1 DEF Differs, At
<1>6. \A c : c \in CompareJson(u, v) <=> \E q : Differs(u, v, q) /\ c = PairAt(u, v, q)
  BY <1>1, CompareIs
<1>7. SameJson(u, v)
  BY <1>5, <1>6 DEF SameJson
<1>8. QED
  BY <1>7 DEF u, v
=============================================================================
