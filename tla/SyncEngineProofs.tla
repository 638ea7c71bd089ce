-------------------------- MODULE SyncEngineProofs --------------------------
(***************************************************************************)
(* The engine does what the builder was asked for and what the preview     *)
(* told, whatever the diff, the merge, the validation and the systems; and *)
(* so it does in a host that captures meanwhile.                           *)
(***************************************************************************)
EXTENDS CaptureHost, MergePoliciesProofs, FiniteSetTheorems, SequenceTheorems

-----------------------------------------------------------------------------
(* The observer: no capture is lost from sight, whatever the capacity of   *)
(* the channel and however the observer and its task end.                  *)

Elements(s) == {s[i] : i \in DOMAIN s}

\* Appending what is greater than everything in an increasing sequence.
LEMMA AppendGreater ==
    ASSUME NEW s \in Seq(Nat), NEW n \in Nat,
           Increasing(s), \A m \in Elements(s) : m < n
    PROVE  /\ Append(s, n) \in Seq(Nat)
           /\ Increasing(Append(s, n))
           /\ Elements(Append(s, n)) = Elements(s) \cup {n}
<1> DEFINE t == Append(s, n)
<1>1. t \in Seq(Nat) /\ Len(t) = Len(s) + 1 /\ t[Len(s) + 1] = n
  OBVIOUS
<1>2. \A i \in DOMAIN s : i \in DOMAIN t /\ t[i] = s[i] /\ s[i] \in Nat
  OBVIOUS
<1>3. DOMAIN t = DOMAIN s \cup {Len(s) + 1} /\ DOMAIN s = 1..Len(s) /\ Len(s) \in Nat
  BY <1>1
<1> HIDE DEF t
<1>4. Increasing(t)
  BY <1>1, <1>2, <1>3 DEF Increasing, Elements
<1>5. Elements(t) = Elements(s) \cup {n}
  BY <1>1, <1>2, <1>3 DEF Elements
<1>6. QED
  BY <1>1, <1>4, <1>5 DEF t

\* Taking the head of an increasing sequence off.
LEMMA TailGreater ==
    ASSUME NEW s \in Seq(Nat), s # <<>>, Increasing(s)
    PROVE  /\ Tail(s) \in Seq(Nat)
           /\ Head(s) \in Nat
           /\ Increasing(Tail(s))
           /\ \A m \in Elements(Tail(s)) : Head(s) < m
           /\ Elements(s) = Elements(Tail(s)) \cup {Head(s)}
<1> DEFINE t == Tail(s)
<1>1. t \in Seq(Nat) /\ Len(t) = Len(s) - 1 /\ Head(s) = s[1] /\ Len(s) \in Nat \ {0} /\ s[1] \in Nat
  OBVIOUS
<1>2. \A i \in 1..(Len(s) - 1) : t[i] = s[i + 1] /\ s[i + 1] \in Nat
  OBVIOUS
<1>3. DOMAIN t = 1..(Len(s) - 1) /\ DOMAIN s = 1..Len(s)
  BY <1>1
<1> HIDE DEF t
<1>4. Increasing(t)
  <2> SUFFICES ASSUME NEW i \in DOMAIN t, NEW j \in DOMAIN t, i < j
               PROVE  t[i] < t[j]
    BY DEF Increasing
  <2> DEFINE n == Len(s)
  <2>0. n \in Nat /\ i \in 1..(n - 1) /\ j \in 1..(n - 1) /\ DOMAIN s = 1..n
    BY <1>1, <1>3
  <2> HIDE DEF n
  <2>1. i + 1 \in DOMAIN s /\ j + 1 \in DOMAIN s /\ i + 1 < j + 1
    BY <2>0
  <2>2. s[i + 1] < s[j + 1]
    BY <2>1 DEF Increasing
  <2>3. QED
    BY <2>2, <1>2, <1>3
<1>5. \A m \in Elements(t) : s[1] < m
  <2> SUFFICES ASSUME NEW i \in DOMAIN t
               PROVE  s[1] < t[i]
    BY DEF Elements
  <2>1. 1 \in DOMAIN s /\ i + 1 \in DOMAIN s /\ 1 < i + 1
    BY <1>1, <1>3
  <2>2. s[1] < s[i + 1]
    BY <2>1 DEF Increasing
  <2>3. QED
    BY <2>2, <1>2, <1>3
<1>6. Elements(s) = Elements(t) \cup {s[1]}
  <2>1. \A i \in DOMAIN s : i = 1 \/ (i - 1 \in DOMAIN t /\ s[i] = t[i - 1])
    BY <1>1, <1>2, <1>3
  <2>2. 1 \in DOMAIN s /\ \A i \in DOMAIN t : i + 1 \in DOMAIN s /\ t[i] = s[i + 1]
    BY <1>1, <1>2, <1>3
  <2>3. QED
    BY <2>1, <2>2 DEF Elements
<1>7. QED
  BY <1>1, <1>4, <1>5, <1>6 DEF t

-----------------------------------------------------------------------------
(* The inductive invariant.  The accounting of EveryCaptureAccounted is    *)
(* inductive as soon as the variables have their types.                    *)

OTypeOK ==
    /\ offers \in Nat
    /\ channel \in Seq(Nat)
    /\ posting \in Nat
    /\ attempted \in Seq(Nat)

OInv == OTypeOK /\ EveryCaptureAccounted

\* EveryCaptureAccounted with its parts named.
Done == Elements(attempted)
Now  == {posting} \ {0}

Accounted ==
    /\ Increasing(attempted) /\ Increasing(channel)
    /\ \A n \in Done : \A m \in Now \cup Waiting : n < m
    /\ \A n \in Now : \A m \in Waiting : n < m
    /\ lost \cap (Done \cup Now \cup Waiting) = {}
    /\ lost \cup Done \cup Now \cup Waiting = 1 .. offers

\* The named parts are the property, before and after a step.
LEMMA AccountedIsTheProperty == EveryCaptureAccounted <=> Accounted
  BY DEF EveryCaptureAccounted, Accounted, Done, Now, Elements, Waiting

\* The same of the state after a step.
LEMMA AccountedPrime == EveryCaptureAccounted' <=> Accounted'
  BY DEF EveryCaptureAccounted, Accounted, Done, Now, Elements, Waiting

\* Nothing was offered yet.
LEMMA OInitEstablishes == OInit => OInv
  <1> SUFFICES ASSUME OInit PROVE OTypeOK /\ Accounted
    BY AccountedIsTheProperty DEF OInv
  <1>1. OTypeOK
    BY DEF OInit, OTypeOK
  <1>2. Done = {} /\ Now = {} /\ Waiting = {} /\ lost = {} /\ 1 .. offers = {}
    BY DEF OInit, Done, Now, Waiting, Elements
  <1>3. Increasing(attempted) /\ Increasing(channel)
    BY DEF OInit, Increasing
  <1>4. QED
    BY <1>1, <1>2, <1>3 DEF Accounted

\* Each step of the observer and of its task keeps the account.
LEMMA OStepPreserves == OInv /\ [ONext]_ovars => OInv'
<1> SUFFICES ASSUME OTypeOK, Accounted, [ONext]_ovars
             PROVE  OTypeOK' /\ Accounted'
  BY AccountedIsTheProperty, AccountedPrime DEF OInv
<1> USE DEF OTypeOK
<1>0. /\ Done \subseteq 1 .. offers /\ Now \subseteq 1 .. offers
      /\ Waiting \subseteq 1 .. offers /\ lost \subseteq 1 .. offers
  BY DEF Accounted
<1>1. CASE Offer
  <2>0. OTypeOK'
    <3>1. offers + 1 \in Nat /\ Append(channel, offers + 1) \in Seq(Nat)
      BY AppendProperties
    <3>2. QED
      BY <1>1, <3>1 DEF Offer
  <2>1. Done' = Done /\ Now' = Now /\ Increasing(attempted)'
    BY <1>1 DEF Offer, Done, Now, Elements, Accounted, Increasing
  <2>2. 1 .. offers' = (1 .. offers) \cup {offers + 1} /\ offers + 1 \notin 1 .. offers
    BY <1>1 DEF Offer
  <2>3. \A n \in 1 .. offers : n < offers + 1
    OBVIOUS
  <2>4. CASE channel' = Append(channel, offers + 1) /\ lost' = lost
    <3>1. \A m \in Elements(channel) : m < offers + 1
      BY <1>0, <2>3 DEF Elements, Waiting
    <3>2. Increasing(channel') /\ Elements(channel') = Elements(channel) \cup {offers + 1}
      BY <3>1, <2>4, AppendGreater DEF Accounted
    <3>3. Waiting' = Waiting \cup {offers + 1}
      BY <3>2 DEF Elements, Waiting
    <3>4. QED
      BY <1>0, <2>0, <2>1, <2>2, <2>3, <2>4, <3>2, <3>3 DEF Accounted
  <2>5. CASE lost' = lost \cup {offers + 1} /\ channel' = channel
    <3>1. Waiting' = Waiting /\ Increasing(channel)'
      BY <2>5 DEF Waiting, Accounted, Increasing
    <3>2. QED
      BY <1>0, <2>0, <2>1, <2>2, <2>3, <2>5, <3>1 DEF Accounted
  <2>6. QED
    BY <1>1, <2>4, <2>5 DEF Offer
<1>2. CASE ClientPanics
  <2>1. OTypeOK' /\ Waiting' = {} /\ Increasing(channel)' /\ lost' = lost \cup Waiting
    BY <1>2 DEF ClientPanics, Waiting, Increasing
  <2>2. Done' = Done /\ Now' = Now /\ Increasing(attempted)' /\ offers' = offers
    BY <1>2 DEF ClientPanics, Done, Now, Elements, Accounted, Increasing
  <2>3. Waiting \cap (Done \cup Now) = {}
    BY <1>0 DEF Accounted
  <2>4. QED
    BY <2>1, <2>2, <2>3 DEF Accounted
<1>3. CASE Receive
  <2>1. /\ Tail(channel) \in Seq(Nat) /\ Head(channel) \in Nat
        /\ Increasing(Tail(channel))
        /\ \A m \in Elements(Tail(channel)) : Head(channel) < m
        /\ Elements(channel) = Elements(Tail(channel)) \cup {Head(channel)}
    BY <1>3, TailGreater DEF Receive, Accounted
  <2>2. Waiting = Waiting' \cup {Head(channel)} /\ \A m \in Waiting' : Head(channel) < m
    BY <1>3, <2>1 DEF Receive, Waiting, Elements
  <2>3. Head(channel) # 0 /\ Now' = {Head(channel)} /\ Now = {}
    BY <1>0, <1>3, <2>2 DEF Receive, Now
  <2>4. OTypeOK' /\ Increasing(channel)'
    BY <1>3, <2>1 DEF Receive, Increasing
  <2>5. Done' = Done /\ Increasing(attempted)' /\ lost' = lost /\ offers' = offers
    BY <1>3 DEF Receive, Done, Elements, Accounted, Increasing
  <2>6. QED
    BY <2>2, <2>3, <2>4, <2>5 DEF Accounted
<1>4. CASE Posted
  <2>1. Now = {posting} /\ Now' = {}
    BY <1>4 DEF Posted, Now
  <2>2. \A m \in Elements(attempted) : m < posting
    BY <2>1 DEF Accounted, Done
  <2>3. Increasing(attempted') /\ Elements(attempted') = Elements(attempted) \cup {posting}
        /\ attempted' \in Seq(Nat)
    BY <1>4, <2>2, AppendGreater DEF Posted, Accounted
  <2>4. Done' = Done \cup Now
    BY <2>1, <2>3 DEF Done, Elements
  <2>5. OTypeOK' /\ Waiting' = Waiting /\ Increasing(channel)' /\ lost' = lost /\ offers' = offers
    BY <1>4, <2>3 DEF Posted, Waiting, Accounted, Increasing
  <2>6. QED
    BY <2>1, <2>3, <2>4, <2>5 DEF Accounted, Increasing
<1>5. CASE ShutDown
  <2>1. Waiting' = {} /\ Increasing(channel)' /\ lost' = lost \cup Waiting /\ offers' = offers
    BY <1>5 DEF ShutDown, Waiting, Increasing
  <2>2. Now' = {} /\ channel' \in Seq(Nat) /\ posting' \in Nat
    BY <1>5 DEF ShutDown, Now
  <2>3. /\ attempted' \in Seq(Nat) /\ Increasing(attempted') /\ Done' = Done \cup Now
    <3>1. CASE posting = 0
      <4>1. attempted' = attempted /\ Now = {}
        BY <1>5, <3>1 DEF ShutDown, Now
      <4>2. QED
        BY <4>1 DEF Done, Elements, Accounted
    <3>2. CASE posting # 0
      <4>1. Now = {posting} /\ attempted' = Append(attempted, posting)
        BY <1>5, <3>2 DEF ShutDown, Now
      <4>2. \A m \in Elements(attempted) : m < posting
        BY <4>1 DEF Accounted, Done
      <4>3. Increasing(attempted') /\ Elements(attempted') = Elements(attempted) \cup {posting}
            /\ attempted' \in Seq(Nat)
        BY <4>1, <4>2, AppendGreater DEF Accounted
      <4>4. QED
        BY <4>1, <4>3 DEF Done
    <3>3. QED
      BY <3>1, <3>2
  <2>4. Waiting \cap (Done \cup Now) = {}
    BY <1>0 DEF Accounted
  <2>5. QED
    BY <2>1, <2>2, <2>3, <2>4 DEF Accounted, Increasing
<1>6. CASE StartTask \/ DropObserver \/ EndTask \/ UNCHANGED ovars
  BY <1>6 DEF StartTask, DropObserver, EndTask, ovars, Accounted, Done, Now, Waiting,
              Elements, Increasing
<1>7. QED
  BY <1>1, <1>2, <1>3, <1>4, <1>5, <1>6 DEF ONext, TaskStep

\* EveryCaptureAccounted (HttpObserver): what on_capture was given is posted once and in
\* order, in flight, waiting or lost, for every capacity.
THEOREM EveryCaptureIsAccounted == OSpec => []EveryCaptureAccounted
<1>1. OInv => EveryCaptureAccounted
  BY DEF OInv
<1>2. QED
  BY <1>1, OInitEstablishes, OStepPreserves, PTL DEF OSpec

-----------------------------------------------------------------------------
(* The call that decides.                                                  *)

\* A bounded set of naturals with a member has a greatest one: the least of its
\* upper bounds.
LEMMA GreatestNatural ==
    ASSUME NEW n \in Nat, NEW S, S \subseteq 0..n, 0 \in S
    PROVE  Max(S) \in S /\ \A m \in S : m <= Max(S)
<1> DEFINE T == {m \in Nat : \A k \in S : k <= m}
<1>1. T # {} /\ T \subseteq Nat
  <2>1. n \in T
    OBVIOUS
  <2>2. QED
    BY <2>1
<1>2. PICK g \in T : \A m \in T : ~(m < g)
  BY <1>1, LeastNatural, Zenon
<1>3. g \in S
  <2> SUFFICES ASSUME g \notin S PROVE FALSE
    OBVIOUS
  <2>1. g \in Nat /\ \A k \in S : k \in Nat /\ k <= g /\ k # g
    BY <1>2
  <2>2. g # 0
    OBVIOUS
  <2>3. g - 1 \in T
    BY <2>1, <2>2
  <2>4. QED
    BY <2>1, <2>3, <1>2
<1>4. \A k \in S : g >= k
  BY <1>2
<1>5. Max(S) \in S /\ \A k \in S : Max(S) >= k
  BY <1>3, <1>4, Zenon DEF Max
<1>6. QED
  BY <1>5

\* Of a sequence of calls: the latest of some kinds, and what that means.
LatestOf(q, kinds) == Max({0} \cup UNION {{i \in DOMAIN q : q[i].call = kind} : kind \in kinds})

IsLatest(i, q, kinds) ==
    /\ i \in 0..Len(q)
    /\ i # 0 => q[i].call \in kinds
    /\ \A j \in 1..Len(q) : q[j].call \in kinds => j <= i

\* LatestOf returns the latest, and nothing else is.
LEMMA LatestCall ==
    ASSUME NEW kinds, NEW q \in Seq(BuilderCalls)
    PROVE  /\ IsLatest(LatestOf(q, kinds), q, kinds)
           /\ \A i : IsLatest(i, q, kinds) => i = LatestOf(q, kinds)
<1> DEFINE S == {0} \cup UNION {{i \in DOMAIN q : q[i].call = kind} : kind \in kinds}
           n == Len(q)
           L == Max(S)
<1>0. n \in Nat /\ DOMAIN q = 1..n
  OBVIOUS
<1> HIDE DEF n
<1>1. \A i : i \in S <=> (i = 0 \/ (i \in 1..n /\ q[i].call \in kinds))
  BY <1>0
<1>2. L = LatestOf(q, kinds)
  BY DEF LatestOf
<1> HIDE DEF S
<1>3. S \subseteq 0..n /\ 0 \in S
  BY <1>0, <1>1
<1>4. L \in S /\ \A m \in S : m <= L
  BY <1>0, <1>3, GreatestNatural
<1> HIDE DEF L
<1>5. L \in 0..n /\ L \in Nat
  BY <1>0, <1>3, <1>4
<1>6. L # 0 => q[L].call \in kinds
  BY <1>1, <1>4
<1>7. \A j \in 1..n : q[j].call \in kinds => j <= L
  BY <1>1, <1>4
<1>8. ASSUME NEW i \in 0..n, i # 0 => q[i].call \in kinds,
             \A j \in 1..n : q[j].call \in kinds => j <= i
      PROVE  i = L
  <2>1. i \in S
    BY <1>0, <1>1, <1>8
  <2>2. i <= L
    BY <2>1, <1>4
  <2>3. L <= i
    BY <1>0, <1>5, <1>6, <1>8
  <2>4. QED
    BY <2>2, <2>3, <1>0, <1>5, <1>8
<1>9. QED
  BY <1>2, <1>5, <1>6, <1>7, <1>8 DEF IsLatest, n

\* A call of one of the kinds is the latest of them, another one leaves it as it
\* was.
LEMMA LatestAfterCall ==
    ASSUME NEW kinds, NEW q \in Seq(BuilderCalls), NEW c \in BuilderCalls
    PROVE  LatestOf(Append(q, c), kinds) =
              IF c.call \in kinds THEN Len(q) + 1 ELSE LatestOf(q, kinds)
<1> DEFINE r == Append(q, c)
           n == Len(q)
           L == LatestOf(q, kinds)
           i == IF c.call \in kinds THEN n + 1 ELSE L
<1>1. r \in Seq(BuilderCalls) /\ Len(r) = n + 1 /\ n \in Nat
  OBVIOUS
<1>2. r[n + 1] = c /\ \A j \in 1..n : r[j] = q[j]
  OBVIOUS
<1>3. IsLatest(L, q, kinds)
  BY LatestCall
<1> HIDE DEF r, L
<1>4. IsLatest(i, r, kinds)
  BY <1>1, <1>2, <1>3 DEF IsLatest
<1>5. i = LatestOf(r, kinds)
  <2> HIDE DEF i
  <2>1. QED
    BY <1>1, <1>4, LatestCall
<1>6. QED
  BY <1>5 DEF r, L

-----------------------------------------------------------------------------
(* The inductive invariant.                                                *)

\* The builder has its fields; its stores are numbered, the host's own is number
\* 0, and the default one is never that.
EngineTypeOK ==
    /\ DOMAIN builder = {"policies", "invariants", "ancestor", "default_ancestor", "policy_store"}
    /\ calls \in Seq(BuilderCalls)
    /\ syncs \in Nat
    /\ \E n \in Nat : DOMAIN stores = 0..n
    /\ builder.ancestor \in {None} \cup DOMAIN stores
    /\ builder.default_ancestor \in {None} \cup (DOMAIN stores \ {Custom})

StoreCalls == {"ancestor_store", "seed_ancestor"}

LastStoreCall == LatestOf(calls, StoreCalls)

\* While the builder is configured: the store that the last call about it chose,
\* or none yet.
ChosenAsAsked ==
    phase = "building" =>
        /\ LastStoreCall = 0 => builder.ancestor = None /\ builder.default_ancestor = None
        /\ LastStoreCall # 0 /\ calls[LastStoreCall].call = "ancestor_store" =>
              builder.ancestor = Custom /\ builder.default_ancestor = None
        /\ LastStoreCall # 0 /\ calls[LastStoreCall].call = "seed_ancestor" =>
              /\ builder.default_ancestor # None
              /\ builder.ancestor = builder.default_ancestor
              /\ stores[builder.default_ancestor] = calls[LastStoreCall].canonical

\* What the code makes of the latest call, in every order of the calls.
BuiltAsAsked ==
    phase = "built" /\ syncs = 0 =>
        /\ LastStoreCall = 0 => stores[builder.ancestor] = None
        /\ LastStoreCall # 0 /\ calls[LastStoreCall].call = "ancestor_store" =>
              builder.ancestor = Custom
        /\ LastStoreCall # 0 /\ calls[LastStoreCall].call = "seed_ancestor" =>
              /\ builder.ancestor # Custom
              /\ stores[builder.ancestor] = calls[LastStoreCall].canonical

\* An engine has a store, and what a preview reported still holds.
EngineReady ==
    /\ phase = "built" => builder.ancestor # None
    /\ report # None => phase = "built" /\ report = ReportOf(PolicyOverride)

EngineInv == EngineTypeOK /\ ChosenAsAsked /\ BuiltAsAsked /\ EngineReady

\* No seed gets into the host's own store.
CustomUntouched == syncs = 0 => stores[Custom] \in CustomHolds

\* The latest call is one of the two kinds, and the two give the property.
LEMMA BuiltIsTheProperty ==
    ASSUME EngineTypeOK
    PROVE  /\ LastStoreCall \in 0..Len(calls)
           /\ LastStoreCall # 0 => calls[LastStoreCall].call \in StoreCalls
           /\ BuiltAsAsked /\ CustomUntouched => BaselineAsAsked
<1>1. calls \in Seq(BuilderCalls) /\ DOMAIN calls = 1..Len(calls) /\ Len(calls) \in Nat
  BY DEF EngineTypeOK
<1>2. /\ LastStoreCall \in 0..Len(calls)
      /\ LastStoreCall # 0 => calls[LastStoreCall].call \in StoreCalls
  BY <1>1, LatestCall DEF LastStoreCall, IsLatest
<1>3. Latest({"ancestor_store", "seed_ancestor"}) = LastStoreCall
  BY DEF Latest, CallsOf, LastStoreCall, LatestOf, StoreCalls
<1>4. \A kind : LastStoreCall \in CallsOf(kind) =>
                   LastStoreCall # 0 /\ calls[LastStoreCall].call = kind
  BY <1>1 DEF CallsOf
<1> HIDE DEF LastStoreCall
<1>5. QED
  BY <1>2, <1>3, <1>4, Zenon DEF BaselineAsAsked, BuiltAsAsked, CustomUntouched

\* The number of a new store is not taken.
LEMMA FreshStoreIsFree ==
    ASSUME NEW n \in Nat, DOMAIN stores = 0..n
    PROVE  FreshStore = n + 1
<1>1. Cardinality(0..n) = n + 1
  BY FS_Interval
<1>2. QED
  BY <1>1 DEF FreshStore

-----------------------------------------------------------------------------
(* The steps.                                                              *)

\* Nothing was called yet, and there is only the host's own store.
LEMMA EInitEstablishes == EInit => EngineInv
<1> SUFFICES ASSUME EInit PROVE EngineInv
  OBVIOUS
<1>1. DOMAIN stores = 0..0 /\ calls \in Seq(BuilderCalls) /\ DOMAIN calls = 1..0
  BY DEF EInit, Custom
<1>2. EngineTypeOK
  BY <1>1 DEF EInit, EngineTypeOK
<1>3. LastStoreCall = 0
  BY <1>2, BuiltIsTheProperty DEF EInit
<1>4. ChosenAsAsked
  BY <1>3 DEF EInit, ChosenAsAsked
<1>5. BuiltAsAsked /\ EngineReady
  BY DEF EInit, BuiltAsAsked, EngineReady
<1>6. QED
  BY <1>2, <1>4, <1>5 DEF EngineInv

\* What every call of the builder does to the calls.
LEMMA CalledFacts ==
    ASSUME EngineInv, NEW c \in BuilderCalls, Called(c)
    PROVE  /\ phase = "building" /\ report = None /\ report' = None
           /\ syncs' = syncs
           /\ calls' \in Seq(BuilderCalls)
           /\ LastStoreCall # 0 => calls'[LastStoreCall] = calls[LastStoreCall]
           /\ c.call \notin StoreCalls => LastStoreCall' = LastStoreCall
           /\ c.call \in StoreCalls => LastStoreCall' # 0 /\ calls'[LastStoreCall'] = c
<1>1. calls \in Seq(BuilderCalls) /\ calls' = Append(calls, c) /\ Len(calls) \in Nat
  BY DEF Called, EngineInv, EngineTypeOK
<1>2. LastStoreCall' = IF c.call \in StoreCalls THEN Len(calls) + 1 ELSE LastStoreCall
  BY <1>1, LatestAfterCall DEF LastStoreCall, StoreCalls
<1>3. LastStoreCall \in 0..Len(calls)
  BY BuiltIsTheProperty DEF EngineInv
<1>4. calls' \in Seq(BuilderCalls) /\ calls'[Len(calls) + 1] = c
  BY <1>1
<1>5. LastStoreCall # 0 => calls'[LastStoreCall] = calls[LastStoreCall]
  <2> HIDE DEF LastStoreCall
  <2>1. QED
    BY <1>1, <1>3
<1>6. phase = "building" /\ report = None /\ report' = None /\ syncs' = syncs
  BY DEF Called, EngineInv, EngineReady
<1> HIDE DEF LastStoreCall
<1>7. ASSUME c.call \in StoreCalls PROVE LastStoreCall' # 0 /\ calls'[LastStoreCall'] = c
  <2>1. Len(calls) + 1 # 0 /\ LastStoreCall' = Len(calls) + 1
    BY <1>1, <1>2, <1>7
  <2>2. QED
    BY <2>1, <1>4, Zenon
<1>8. c.call \notin StoreCalls => LastStoreCall' = LastStoreCall
  BY <1>2
<1>9. QED
  BY <1>4, <1>5, <1>6, <1>7, <1>8, Zenon

\* A setter that is not about the store leaves the choice of one alone.
LEMMA ConfigureKeeps ==
    ASSUME EngineInv, NEW c \in BuilderCalls, Configure(c)
    PROVE  EngineInv'
<1> USE DEF EngineInv
<1>1. Called(c) /\ builder' = Configured(builder, c) /\ UNCHANGED <<phase, stores>>
  BY DEF Configure
<1>2. c.call \in Setters
  BY DEF Configure
<1>3. CASE c.call = "ancestor_store"
  <2>1. builder' = WithAncestorStore(builder)
    BY <1>1, <1>3 DEF Configured
  <2>2. /\ DOMAIN builder' = DOMAIN builder
        /\ builder'.ancestor = Custom /\ builder'.default_ancestor = None
    BY <2>1 DEF WithAncestorStore, EngineTypeOK
  <2>3. Custom \in DOMAIN stores
    BY DEF Custom, EngineTypeOK
  <2>4. EngineTypeOK'
    BY <1>1, <2>2, <2>3, CalledFacts DEF EngineTypeOK
  <2>5. LastStoreCall' # 0 /\ calls'[LastStoreCall'] = c
    BY <1>1, <1>3, CalledFacts DEF StoreCalls
  <2>6. ChosenAsAsked'
    BY <1>3, <2>2, <2>5 DEF ChosenAsAsked
  <2>7. BuiltAsAsked' /\ EngineReady'
    BY <1>1, CalledFacts DEF BuiltAsAsked, EngineReady
  <2>8. QED
    BY <2>4, <2>6, <2>7
<1>4. CASE c.call # "ancestor_store"
  <2>1. c.call \notin StoreCalls
    BY <1>2, <1>4 DEF Setters, StoreCalls
  <2>2. /\ DOMAIN builder' = DOMAIN builder
        /\ builder'.ancestor = builder.ancestor
        /\ builder'.default_ancestor = builder.default_ancestor
    BY <1>1, <1>2, <1>4
       DEF Setters, Configured, WithPolicy, WithInvariant, OneWay, WithPolicyStore, EngineTypeOK
  <2>3. EngineTypeOK'
    BY <1>1, <2>2, CalledFacts DEF EngineTypeOK
  <2>4. LastStoreCall' = LastStoreCall
        /\ (LastStoreCall # 0 => calls'[LastStoreCall] = calls[LastStoreCall])
    BY <1>1, <2>1, CalledFacts
  <2>5. ChosenAsAsked'
    BY <1>1, <2>2, <2>4 DEF ChosenAsAsked
  <2>6. BuiltAsAsked' /\ EngineReady'
    BY <1>1, CalledFacts DEF BuiltAsAsked, EngineReady
  <2>7. QED
    BY <2>3, <2>5, <2>6
<1>5. QED
  BY <1>3, <1>4

\* A seed goes to the default store, which the builder has from then on.
LEMMA SeedAncestorKeeps ==
    ASSUME EngineInv, NEW c \in BuilderCalls, SeedAncestor(c)
    PROVE  EngineInv'
<1> USE DEF EngineInv
<1> DEFINE id == Seeded.id
<1>1. /\ c.call = "seed_ancestor" /\ Called(c) /\ phase' = phase
      /\ stores' = Insert(stores, id, c.canonical)
      /\ builder' = [builder EXCEPT !.default_ancestor = id, !.ancestor = Seeded.ancestor]
  BY DEF SeedAncestor
<1>2. PICK n \in Nat : DOMAIN stores = 0..n
  BY DEF EngineTypeOK
<1>3. \/ builder.default_ancestor = None /\ id = n + 1 /\ Seeded.ancestor = id
      \/ builder.default_ancestor # None /\ id = builder.default_ancestor
                                         /\ Seeded.ancestor = builder.ancestor
  BY <1>2, FreshStoreIsFree DEF Seeded
<1>4. builder.default_ancestor # None => builder.ancestor = builder.default_ancestor
  <2> SUFFICES ASSUME builder.default_ancestor # None
               PROVE  builder.ancestor = builder.default_ancestor
    OBVIOUS
  <2>1. phase = "building"
    BY <1>1, CalledFacts
  <2>2. LastStoreCall # 0 => calls[LastStoreCall].call \in StoreCalls
    BY BuiltIsTheProperty
  <2> HIDE DEF LastStoreCall
  <2>3. QED
    BY <2>1, <2>2 DEF ChosenAsAsked, StoreCalls
<1>5. id # Custom /\ Seeded.ancestor = id /\ (id = n + 1 \/ id \in 0..n)
  BY <1>2, <1>3, <1>4 DEF EngineTypeOK, Custom
<1> HIDE DEF id
<1>6. DOMAIN stores' = 0..n \cup {id} /\ stores'[id] = c.canonical
  <2>1. /\ DOMAIN Insert(stores, id, c.canonical) = DOMAIN stores \cup {id}
        /\ Insert(stores, id, c.canonical)[id] = c.canonical
    BY DEF Insert
  <2>2. QED
    BY <1>1, <1>2, <2>1, Zenon
<1>7. \E m \in Nat : DOMAIN stores' = 0..m
  <2>1. CASE id = n + 1
    <3>1. DOMAIN stores' = 0..(n + 1)
      BY <1>6, <2>1
    <3>2. QED
      BY <3>1
  <2>2. CASE id \in 0..n
    <3>1. DOMAIN stores' = 0..n
      BY <1>6, <2>2
    <3>2. QED
      BY <3>1
  <2>3. QED
    BY <1>5, <2>1, <2>2
<1>8. /\ DOMAIN builder' = DOMAIN builder
      /\ builder'.ancestor = id /\ builder'.default_ancestor = id
  BY <1>1, <1>5 DEF EngineTypeOK
<1>9. EngineTypeOK'
  <2>1. id \in DOMAIN stores' \ {Custom}
    BY <1>5, <1>6
  <2>2. calls' \in Seq(BuilderCalls) /\ syncs' = syncs
    BY <1>1, CalledFacts
  <2>3. QED
    BY <1>7, <1>8, <2>1, <2>2 DEF EngineTypeOK
<1>10. LastStoreCall' # 0 /\ calls'[LastStoreCall'] = c
  BY <1>1, CalledFacts DEF StoreCalls
<1>11. id # None
  BY <1>5, <1>2, NoneAssumption
<1>12. ChosenAsAsked'
  BY <1>1, <1>6, <1>8, <1>10, <1>11 DEF ChosenAsAsked
<1>13. BuiltAsAsked' /\ EngineReady'
  BY <1>1, CalledFacts DEF BuiltAsAsked, EngineReady
<1>14. QED
  BY <1>9, <1>12, <1>13

\* The validation changes nothing but the phase.
LEMMA ValidateKeeps ==
    ASSUME EngineInv, NEW c \in BuilderCalls, ValidateAgainstSchema(c)
    PROVE  EngineInv'
<1> USE DEF EngineInv
<1>1. /\ Called(c) /\ builder' = builder /\ stores' = stores
      /\ phase' \in {phase, "refused"} /\ c.call \notin StoreCalls
  BY DEF ValidateAgainstSchema, StoreCalls
<1>2. phase = "building" /\ report' = None
  BY <1>1, CalledFacts
<1>3. EngineTypeOK'
  BY <1>1, CalledFacts DEF EngineTypeOK
<1>4. LastStoreCall' = LastStoreCall
      /\ (LastStoreCall # 0 => calls'[LastStoreCall] = calls[LastStoreCall])
  BY <1>1, CalledFacts
<1>5. ChosenAsAsked'
  BY <1>1, <1>2, <1>4 DEF ChosenAsAsked
<1>6. BuiltAsAsked' /\ EngineReady'
  BY <1>1, <1>2 DEF BuiltAsAsked, EngineReady
<1>7. QED
  BY <1>3, <1>5, <1>6

\* The engine has the store that was chosen, or an empty one.
LEMMA BuildEngineKeeps ==
    ASSUME EngineInv, BuildEngine
    PROVE  EngineInv'
<1> USE DEF EngineInv
<1>1. phase = "building" /\ phase' = "built" /\ UNCHANGED <<calls, report, syncs>>
  BY DEF BuildEngine
<1>2. LastStoreCall' = LastStoreCall
  BY <1>1 DEF LastStoreCall
<1>3. LastStoreCall # 0 => calls[LastStoreCall].call \in StoreCalls
  BY BuiltIsTheProperty
<1>4. PICK n \in Nat : DOMAIN stores = 0..n
  BY DEF EngineTypeOK
<1>5. \A k \in Nat : k # None
  BY NoneAssumption
<1> HIDE DEF LastStoreCall
<1>6. CASE builder.ancestor = None
  <2>1. /\ stores' = Insert(stores, n + 1, None)
        /\ builder' = [builder EXCEPT !.ancestor = n + 1]
    BY <1>4, <1>6, FreshStoreIsFree DEF BuildEngine
  <2>2. DOMAIN stores' = 0..(n + 1) /\ stores'[n + 1] = None
    <3>1. /\ DOMAIN Insert(stores, n + 1, None) = DOMAIN stores \cup {n + 1}
          /\ Insert(stores, n + 1, None)[n + 1] = None
      BY DEF Insert
    <3>2. DOMAIN stores' = 0..n \cup {n + 1} /\ stores'[n + 1] = None
      BY <1>4, <2>1, <3>1, Zenon
    <3>3. 0..n \cup {n + 1} = 0..(n + 1)
      OBVIOUS
    <3>4. QED
      BY <3>2, <3>3, Zenon
  <2>3. /\ DOMAIN builder' = DOMAIN builder
        /\ builder'.ancestor = n + 1 /\ builder'.default_ancestor = builder.default_ancestor
    BY <2>1 DEF EngineTypeOK
  <2>4. LastStoreCall = 0
    BY <1>1, <1>3, <1>5, <1>6 DEF ChosenAsAsked, StoreCalls, Custom
  <2>5. EngineTypeOK'
    <3>1. n + 1 \in Nat /\ \A k \in 0..n : k \in 0..(n + 1)
      OBVIOUS
    <3>2. QED
      BY <1>1, <1>4, <2>2, <2>3, <3>1 DEF EngineTypeOK
  <2>6. ChosenAsAsked'
    BY <1>1 DEF ChosenAsAsked
  <2>7. BuiltAsAsked'
    BY <1>2, <2>2, <2>3, <2>4 DEF BuiltAsAsked
  <2>8. EngineReady'
    BY <1>1, <1>5, <2>3 DEF EngineReady
  <2>9. QED
    BY <2>5, <2>6, <2>7, <2>8
<1>7. CASE builder.ancestor # None
  <2>1. stores' = stores /\ builder' = builder
    BY <1>7 DEF BuildEngine
  <2>2. LastStoreCall # 0
    BY <1>1, <1>7 DEF ChosenAsAsked
  <2>3. EngineTypeOK'
    BY <1>1, <2>1 DEF EngineTypeOK
  <2>4. ChosenAsAsked'
    BY <1>1 DEF ChosenAsAsked
  <2>5. builder.default_ancestor # Custom
    BY <1>5 DEF EngineTypeOK, Custom
  <2>6. BuiltAsAsked'
    BY <1>1, <1>2, <2>1, <2>2, <2>5 DEF BuiltAsAsked, ChosenAsAsked
  <2>7. EngineReady'
    BY <1>1, <1>7, <2>1 DEF EngineReady
  <2>8. QED
    BY <2>3, <2>4, <2>6, <2>7
<1>8. QED
  BY <1>6, <1>7

\* What happens to a built engine that keeps its stores: a preview, edits, documents.
LEMMA EngineKeeps ==
    ASSUME EngineInv, phase = "built", UNCHANGED <<builder, calls, phase, stores, syncs>>,
           EngineReady'
    PROVE  EngineInv'
<1>1. LastStoreCall' = LastStoreCall
  BY DEF LastStoreCall
<1>2. QED
  BY <1>1 DEF EngineInv, EngineTypeOK, ChosenAsAsked, BuiltAsAsked

\* A sync keeps the engine as it was configured, and may change what a store holds.
LEMMA SyncKeeps ==
    ASSUME EngineInv, SyncNoOp \/ SyncEscalates \/ SyncPushes
    PROVE  EngineInv'
<1> USE DEF EngineInv
<1>1. /\ phase = "built" /\ syncs' = syncs + 1 /\ report' = None
      /\ UNCHANGED <<builder, calls, phase>>
  BY DEF SyncNoOp, SyncEscalates, SyncPushes, SyncBegins, Ready
<1>2. DOMAIN stores' = DOMAIN stores
  BY DEF SyncNoOp, SyncEscalates, SyncPushes
<1>3. syncs' \in Nat /\ syncs' # 0
  BY <1>1 DEF EngineTypeOK
<1>4. EngineTypeOK'
  BY <1>1, <1>2, <1>3 DEF EngineTypeOK
<1>5. ChosenAsAsked' /\ BuiltAsAsked'
  BY <1>1, <1>3 DEF ChosenAsAsked, BuiltAsAsked
<1>6. EngineReady'
  BY <1>1 DEF EngineReady
<1>7. QED
  BY <1>4, <1>5, <1>6

\* Every step keeps the invariant.
LEMMA EngineInvIsInductive == EngineInv /\ [ENext]_evars => EngineInv'
<1> SUFFICES ASSUME EngineInv, [ENext]_evars PROVE EngineInv'
  OBVIOUS
<1>1. CASE \E c \in BuilderCalls : Configure(c) \/ SeedAncestor(c) \/ ValidateAgainstSchema(c)
  BY <1>1, ConfigureKeeps, SeedAncestorKeeps, ValidateKeeps
<1>2. CASE BuildEngine
  BY <1>2, BuildEngineKeeps
<1>3. CASE Preview
  <2>1. phase = "built" /\ UNCHANGED <<builder, calls, phase, stores, document, record, syncs>>
        /\ report' = ReportOf(PolicyOverride)
    BY <1>3 DEF Preview, Ready
  <2>2. ReportOf(PolicyOverride)' = ReportOf(PolicyOverride)
    BY <2>1 DEF ReportOf, PolicyOverride, Changelog, AncestorView, Resolution, ConflictPaths
  <2>3. EngineReady'
    BY <2>1, <2>2 DEF EngineReady, EngineInv
  <2>4. QED
    BY <2>1, <2>3, EngineKeeps
<1>4. CASE SyncNoOp \/ SyncEscalates \/ SyncPushes
  BY <1>4, SyncKeeps
<1>5. CASE (\E s \in Sides : Edit(s)) \/ (\E json \in PolicyDocuments : SetJson(json))
  <2>1. phase = "built" /\ UNCHANGED <<builder, calls, phase, stores, syncs>> /\ report' = None
    BY <1>5 DEF Edit, SetJson
  <2>2. EngineReady'
    BY <2>1 DEF EngineReady, EngineInv
  <2>3. QED
    BY <2>1, <2>2, EngineKeeps
<1>6. CASE UNCHANGED evars
  <2>1. UNCHANGED <<builder, calls, phase, stores, document, record, report, syncs>>
    BY <1>6 DEF evars
  <2>2. LastStoreCall' = LastStoreCall
    BY <2>1 DEF LastStoreCall
  <2>3. EngineReady'
    BY <2>1 DEF EngineInv, EngineReady, ReportOf, PolicyOverride, Changelog, AncestorView,
                Resolution, ConflictPaths
  <2>4. QED
    BY <2>1, <2>2, <2>3 DEF EngineInv, EngineTypeOK, ChosenAsAsked, BuiltAsAsked
<1>7. QED
  BY <1>1, <1>2, <1>3, <1>4, <1>5, <1>6 DEF ENext

-----------------------------------------------------------------------------
(* The theorems.                                                           *)

\* Until the first sync only a seed and build write stores, none of them number 0.
LEMMA CustomStaysUntouched ==
    EngineInv /\ CustomUntouched /\ [ENext]_evars => CustomUntouched'
<1> SUFFICES ASSUME EngineInv, CustomUntouched, [ENext]_evars, syncs' = 0
             PROVE  stores'[Custom] \in CustomHolds
  BY DEF CustomUntouched
<1>1. syncs \in Nat /\ Custom \in DOMAIN stores /\ FreshStore # Custom
  <2>1. PICK n \in Nat : DOMAIN stores = 0..n
    BY DEF EngineInv, EngineTypeOK
  <2>2. FreshStore = n + 1
    BY <2>1, FreshStoreIsFree
  <2>3. QED
    BY <2>1, <2>2 DEF EngineInv, EngineTypeOK, Custom
<1>2. ASSUME stores' = stores, syncs' = syncs PROVE stores'[Custom] \in CustomHolds
  BY <1>2 DEF CustomUntouched
<1>3. ASSUME NEW id, NEW d, id # Custom, stores' = Insert(stores, id, d), syncs' = syncs
      PROVE  stores'[Custom] \in CustomHolds
  BY <1>1, <1>3 DEF CustomUntouched, Insert
<1>4. ASSUME NEW c \in BuilderCalls, SeedAncestor(c) PROVE stores'[Custom] \in CustomHolds
  <2>1. stores' = Insert(stores, Seeded.id, c.canonical) /\ syncs' = syncs
    BY <1>4 DEF SeedAncestor, Called
  <2>2. Seeded.id # Custom
    BY <1>1 DEF Seeded, EngineInv, EngineTypeOK
  <2>3. QED
    BY <1>3, <2>1, <2>2
<1>5. CASE BuildEngine
  BY <1>1, <1>2, <1>3, <1>5 DEF BuildEngine
<1>6. CASE SyncNoOp \/ SyncEscalates \/ SyncPushes
  BY <1>1, <1>6 DEF SyncNoOp, SyncEscalates, SyncPushes, SyncBegins
<1>7. CASE \/ \E c \in BuilderCalls : Configure(c) \/ ValidateAgainstSchema(c)
           \/ Preview
           \/ \E s \in Sides : Edit(s)
           \/ \E json \in PolicyDocuments : SetJson(json)
           \/ UNCHANGED evars
  BY <1>2, <1>7 DEF Configure, ValidateAgainstSchema, Called, Preview, Edit, SetJson, evars
<1>8. QED
  BY <1>4, <1>5, <1>6, <1>7 DEF ENext

\* BaselineAsAsked for every configuration: whatever the order of the calls of
\* the builder (core/src/drivers/sync_engine.rs, ancestor_store, seed_ancestor,
\* build), the first cycle starts from what the last call about it asked for, a
\* seed that follows a store of the host's own apart.
THEOREM BaselineIsAsAsked == ESpec => []BaselineAsAsked
<1>1. EngineInv /\ CustomUntouched => BaselineAsAsked
  BY BuiltIsTheProperty DEF EngineInv
<1>2. ESpec => []EngineInv
  BY EInitEstablishes, EngineInvIsInductive, PTL DEF ESpec
<1>3. EInit => CustomUntouched
  BY DEF EInit, CustomUntouched, Custom
<1>4. QED
  BY <1>1, <1>2, <1>3, CustomStaysUntouched, PTL DEF ESpec

\* Without tier-2 invariants a candidate passes as it is.
LEMMA NoInvariants ==
    ASSUME builder.invariants = <<>>, NEW candidate
    PROVE  ~Rejected(candidate) /\ Applied(candidate)[Len(builder.invariants)] = candidate
<1> DEFINE F(g) == [i \in 0..0 |-> IF i = 0 THEN candidate
                                  ELSE IF g[i - 1] = None THEN None
                                  ELSE Check(builder.invariants[i], AncestorView, g[i - 1])]
           f == CHOOSE g : g = F(g)
<1>1. Len(builder.invariants) = 0 /\ DOMAIN builder.invariants = {}
  OBVIOUS
<1>2. Applied(candidate) = f
  BY <1>1 DEF Applied
<1>3. F([i \in 0..0 |-> candidate]) = [i \in 0..0 |-> candidate]
  OBVIOUS
<1>4. f = F(f)
  <2> HIDE DEF F
  <2>1. QED
    BY <1>3
<1>5. f[0] = candidate
  <2> HIDE DEF f
  <2>1. QED
    BY <1>4
<1>6. QED
  BY <1>1, <1>2, <1>5 DEF Rejected

\* PreviewForetells for every diff, merge and pair of systems: what run_shadow
\* reports is what the next sync does (core/src/application/orchestrator.rs).
THEOREM PreviewsForetell == ESpec => PreviewForetells
<1> DEFINE Foretold ==
      SyncHappens /\ report # None /\ builder.invariants = <<>> =>
          CASE outcome' = "NoOp"      -> ~report.moved
            [] outcome' = "Escalated" -> report.moved /\ report.conflicts # {}
            [] outcome' = "Synced"    ->
                  /\ report.moved /\ report.conflicts = {}
                  /\ stores'[builder.ancestor] = report.would_write
                  /\ \A s \in Sides : record'[s] = Pushed(record[s], report.would_write)
<1>1. ASSUME EngineInv, [ENext]_evars PROVE Foretold
  <2> SUFFICES ASSUME SyncHappens, report # None, builder.invariants = <<>>
               PROVE  Foretold
    OBVIOUS
  <2> DEFINE resolution == Resolution(PolicyOverride)
             candidate  == Overlay(AncestorView, resolution)
  <2>1. /\ report.moved = (Changelog # {})
        /\ report.conflicts = ConflictPaths(resolution)
        /\ Changelog # {} /\ ConflictPaths(resolution) = {} => report.would_write = candidate
    BY <1>1 DEF EngineInv, EngineReady, ReportOf
  <2>2. ~Rejected(candidate) /\ AfterInvariants(candidate) = candidate
    BY NoInvariants DEF AfterInvariants
  <2>3. SyncNoOp \/ SyncEscalates \/ SyncPushes
    BY <1>1 DEF SyncHappens, ENext, evars, Configure, SeedAncestor, ValidateAgainstSchema, Called,
                BuildEngine, Preview, Edit, SetJson
  <2>4. CASE SyncNoOp
    BY <2>1, <2>4 DEF SyncNoOp
  <2>5. CASE SyncEscalates
    BY <2>1, <2>2, <2>5 DEF SyncEscalates
  <2>6. CASE SyncPushes
    <3>1. /\ Changelog # {} /\ ConflictPaths(resolution) = {} /\ outcome' = "Synced"
          /\ record' = [s \in Sides |-> Pushed(record[s], candidate)]
          /\ stores' = [stores EXCEPT ![builder.ancestor] = candidate]
      BY <2>2, <2>6 DEF SyncPushes
    <3>2. builder.ancestor \in DOMAIN stores
      BY <1>1, <2>6 DEF EngineInv, EngineReady, EngineTypeOK, SyncPushes, SyncBegins, Ready
    <3> HIDE DEF resolution, candidate
    <3>3. QED
      BY <2>1, <3>1, <3>2
  <2>7. QED
    BY <2>3, <2>4, <2>5, <2>6
<1>2. ESpec => []EngineInv
  BY EInitEstablishes, EngineInvIsInductive, PTL DEF ESpec
<1>3. EngineInv /\ [ENext]_evars => [Foretold]_evars
  BY <1>1
<1>4. QED
  BY <1>2, <1>3, PTL DEF ESpec, PreviewForetells

-----------------------------------------------------------------------------
(* The one-way preset.                                                     *)

\* Whatever the calls of the builder: since the last one_way, what no policy call
\* has declared is the source's.
OwnedAsAsked ==
    LET last == LatestOf(calls, {"one_way"})
    IN  last # 0 =>
          /\ builder.policies.default = OwnedBy(SourceSide)
          /\ \A path \in DOMAIN builder.policies.by_path :
                \E i \in CallsOf("policy") : i > last /\ calls[i].path = path

\* What a call of the builder leaves of the calls before it.
LEMMA CallsGrow ==
    ASSUME EngineInv, NEW c \in BuilderCalls, Called(c)
    PROVE  /\ \A i \in CallsOf("policy") : i \in CallsOf("policy")' /\ calls'[i] = calls[i]
           /\ c.call = "policy" => /\ Len(calls) + 1 \in CallsOf("policy")'
                                   /\ calls'[Len(calls) + 1] = c
           /\ LatestOf(calls, {"one_way"})' =
                 IF c.call = "one_way" THEN Len(calls) + 1 ELSE LatestOf(calls, {"one_way"})
           /\ LatestOf(calls, {"one_way"}) \in 0..Len(calls)
<1>1. calls \in Seq(BuilderCalls) /\ calls' = Append(calls, c) /\ Len(calls) \in Nat
  BY DEF Called, EngineInv, EngineTypeOK
<1>2. /\ DOMAIN calls = 1..Len(calls) /\ DOMAIN calls' = 1..(Len(calls) + 1)
      /\ \A i \in DOMAIN calls : calls'[i] = calls[i]
      /\ calls'[Len(calls) + 1] = c
  BY <1>1
<1>3. \A i \in CallsOf("policy") : i \in CallsOf("policy")' /\ calls'[i] = calls[i]
  BY <1>1, <1>2 DEF CallsOf
<1>4. c.call = "policy" => Len(calls) + 1 \in CallsOf("policy")'
  BY <1>1, <1>2 DEF CallsOf
<1>5. LatestOf(calls, {"one_way"}) \in 0..Len(calls)
  BY <1>1, LatestCall DEF IsLatest
<1>6. LatestOf(Append(calls, c), {"one_way"}) =
         IF c.call \in {"one_way"} THEN Len(calls) + 1 ELSE LatestOf(calls, {"one_way"})
  BY <1>1, LatestAfterCall
<1>7. LatestOf(calls, {"one_way"})' = LatestOf(Append(calls, c), {"one_way"})
  BY <1>1
<1>8. QED
  BY <1>2, <1>3, <1>4, <1>5, <1>6, <1>7

\* A call that is not about the policies.
LEMMA CallLeavesPolicies ==
    ASSUME EngineInv, OwnedAsAsked, NEW c \in BuilderCalls, Called(c),
           c.call \notin {"policy", "one_way"}, builder'.policies = builder.policies
    PROVE  OwnedAsAsked'
<1> DEFINE last == LatestOf(calls, {"one_way"})
<1>1. last' = last
  BY CallsGrow
<1>2. ASSUME NEW path \in DOMAIN builder.policies.by_path, last # 0
      PROVE  \E i \in CallsOf("policy")' : i > last /\ calls'[i].path = path
  <2>1. PICK i \in CallsOf("policy") : i > last /\ calls[i].path = path
    BY <1>2 DEF OwnedAsAsked
  <2>2. QED
    BY <2>1, CallsGrow
<1> HIDE DEF last
<1>3. QED
  BY <1>1, <1>2 DEF OwnedAsAsked, last

LEMMA ConfigureOwns ==
    ASSUME EngineInv, OwnedAsAsked, NEW c \in BuilderCalls, Configure(c)
    PROVE  OwnedAsAsked'
<1> DEFINE last == LatestOf(calls, {"one_way"})
<1>1. Called(c) /\ c.call \in Setters /\ builder' = Configured(builder, c)
  BY DEF Configure
<1>2. "policies" \in DOMAIN builder
  BY DEF EngineInv, EngineTypeOK
<1>3. CASE c.call = "one_way"
  <2>1. builder'.policies = OwnedByDefault(SourceSide)
    BY <1>1, <1>2, <1>3 DEF Configured, OneWay
  <2>2. builder'.policies.default = OwnedBy(SourceSide) /\ DOMAIN builder'.policies.by_path = {}
    BY <2>1 DEF OwnedByDefault
  <2>3. QED
    BY <2>2 DEF OwnedAsAsked
<1>4. CASE c.call = "policy"
  <2>1. builder' = WithPolicy(builder, c.path, c.policy)
    BY <1>1, <1>4 DEF Configured
  <2>2. /\ builder'.policies.by_path = Insert(builder.policies.by_path, c.path, c.policy)
        /\ builder'.policies.default = builder.policies.default
    BY <1>2, <2>1 DEF WithPolicy
  <2>3. DOMAIN builder'.policies.by_path = DOMAIN builder.policies.by_path \cup {c.path}
    BY <2>2 DEF Insert
  <2>4. /\ last' = last /\ last \in 0..Len(calls) /\ Len(calls) \in Nat
        /\ Len(calls) + 1 \in CallsOf("policy")' /\ calls'[Len(calls) + 1] = c
    BY <1>1, <1>4, CallsGrow DEF EngineInv, EngineTypeOK
  <2>5. ASSUME last # 0, NEW path \in DOMAIN builder'.policies.by_path
        PROVE  \E i \in CallsOf("policy")' : i > last /\ calls'[i].path = path
    <3>1. CASE path = c.path
      BY <2>4, <3>1
    <3>2. CASE path # c.path
      <4>1. path \in DOMAIN builder.policies.by_path
        BY <2>3, <2>5, <3>2
      <4>2. PICK i \in CallsOf("policy") : i > last /\ calls[i].path = path
        BY <2>5, <4>1 DEF OwnedAsAsked
      <4>3. QED
        BY <1>1, <4>2, CallsGrow
    <3>3. QED
      BY <3>1, <3>2
  <2>6. last # 0 => builder'.policies.default = OwnedBy(SourceSide)
    BY <2>2 DEF OwnedAsAsked
  <2> HIDE DEF last
  <2>7. QED
    BY <2>4, <2>5, <2>6 DEF OwnedAsAsked, last
<1>5. CASE c.call \notin {"policy", "one_way"}
  <2>1. builder'.policies = builder.policies
    BY <1>1, <1>2, <1>5
       DEF Setters, Configured, WithInvariant, WithAncestorStore, WithPolicyStore
  <2>2. QED
    BY <1>1, <1>5, <2>1, CallLeavesPolicies
<1>6. QED
  BY <1>3, <1>4, <1>5

LEMMA OwnedAsAskedIsInductive == EngineInv /\ OwnedAsAsked /\ [ENext]_evars => OwnedAsAsked'
<1> SUFFICES ASSUME EngineInv, OwnedAsAsked, [ENext]_evars PROVE OwnedAsAsked'
  OBVIOUS
<1>1. "policies" \in DOMAIN builder
  BY DEF EngineInv, EngineTypeOK
<1>2. ASSUME NEW c \in BuilderCalls, Configure(c) PROVE OwnedAsAsked'
  BY <1>2, ConfigureOwns
<1>3. ASSUME NEW c \in BuilderCalls, SeedAncestor(c) \/ ValidateAgainstSchema(c) PROVE OwnedAsAsked'
  <2>1. /\ Called(c) /\ c.call \notin {"policy", "one_way"}
        /\ builder'.policies = builder.policies
    BY <1>1, <1>3 DEF SeedAncestor, ValidateAgainstSchema
  <2>2. QED
    BY <2>1, CallLeavesPolicies
<1>4. ASSUME calls' = calls, builder'.policies = builder.policies PROVE OwnedAsAsked'
  BY <1>4 DEF OwnedAsAsked, CallsOf
<1>5. CASE BuildEngine
  BY <1>1, <1>4, <1>5 DEF BuildEngine
<1>6. CASE \/ Preview \/ SyncNoOp \/ SyncEscalates \/ SyncPushes
           \/ \E s \in Sides : Edit(s)
           \/ \E json \in PolicyDocuments : SetJson(json)
           \/ UNCHANGED evars
  BY <1>4, <1>6 DEF Preview, SyncNoOp, SyncEscalates, SyncPushes, SyncBegins, Edit, SetJson, evars
<1>7. QED
  BY <1>2, <1>3, <1>5, <1>6 DEF ENext

\* A map of some policies.
IsMapOver(m, Policies) ==
    /\ \A path \in DOMAIN m.by_path : m.by_path[path] \in Policies
    /\ m.default \in Policies

ResolutionOf(m, o, a, b) ==
    {[path |-> c.path, value |-> Resolve(Lookup(m, c.path), c)] : c \in Diff(o, a, b)}

Merges(m, o, a, b) == ConflictPaths(ResolutionOf(m, o, a, b)) = {}

Merged(m, o, a, b) == Overlay(o, ResolutionOf(m, o, a, b))

\* The host deals in documents, and configures these policies, which make documents
\* of documents.
HoldDocs(Docs, Policies) ==
    /\ None \notin Docs
    /\ InitialRecords \subseteq [Sides -> Docs \cup {None}]
    /\ CustomHolds \subseteq Docs \cup {None}
    /\ \A s \in Sides : \A d \in Docs : Editions(s, d) \subseteq Docs
    /\ {NoPolicy, OwnedBy(SourceSide)} \subseteq Policies
    /\ \A c \in BuilderCalls : /\ c.call = "policy" => c.policy \in Policies
                               /\ c.call = "seed_ancestor" => c.canonical \in Docs
    /\ \A a, d \in Docs : Upsert(a, d) \in Docs
    /\ \A o, a, b \in Docs : \A m :
          IsMapOver(m, Policies) /\ Merges(m, o, a, b) => Merged(m, o, a, b) \in Docs

\* A field that the map leaves to the source has the source's value after a merge
\* (of flat documents: FlatOwnerKeepsFields and FlatStaysFlat of DocumentSyncProofs).
OwnersKeepFields(Docs, Policies) ==
    /\ \A d \in Docs : \A f : SameField(d, d, f)
    /\ \A o, a, b \in Docs : \A m, f :
          /\ IsMapOver(m, Policies) /\ Merges(m, o, a, b)
          /\ Lookup(m, <<f>>) = OwnedBy(SourceSide)
          /\ f \in FieldsOf(Pushed(a, Merged(m, o, a, b)))
          => SameField(a, Pushed(a, Merged(m, o, a, b)), f)

\* While neither a policy store nor tier-2 invariants have a say, systems and stores
\* hold documents.
DocsKept(Docs, Policies) ==
    /\ IsMapOver(builder.policies, Policies)
    /\ builder.invariants \in Seq({c.invariant : c \in BuilderCalls})
    /\ ~builder.policy_store /\ builder.invariants = <<>> =>
          /\ record \in [Sides -> Docs \cup {None}]
          /\ \A id \in DOMAIN stores : stores[id] \in Docs \cup {None}

LEMMA DocsAtFirst ==
    ASSUME NEW Docs, NEW Policies, HoldDocs(Docs, Policies), EInit
    PROVE  DocsKept(Docs, Policies)
<1>1. builder.policies = EmptyMap /\ builder.invariants = <<>> /\ record \in InitialRecords
  BY DEF EInit
<1>2. IsMapOver(EmptyMap, Policies)
  BY DEF IsMapOver, EmptyMap, HoldDocs
<1>3. PICK d \in CustomHolds : stores = [id \in {Custom} |-> d]
  BY DEF EInit
<1>4. QED
  BY <1>1, <1>2, <1>3 DEF DocsKept, HoldDocs

\* What the builder is told of.
LEMMA ConfigureKeepsDocs ==
    ASSUME NEW Docs, NEW Policies, HoldDocs(Docs, Policies), EngineInv, DocsKept(Docs, Policies),
           NEW c \in BuilderCalls, Configure(c)
    PROVE  DocsKept(Docs, Policies)'
<1>1. /\ c.call \in Setters /\ builder' = Configured(builder, c)
      /\ record' = record /\ stores' = stores
  BY DEF Configure, Called
<1>2. {"policies", "invariants", "policy_store"} \subseteq DOMAIN builder
  BY DEF EngineInv, EngineTypeOK
<1>3. IsMapOver(builder'.policies, Policies)
  <2>1. CASE c.call = "one_way"
    <3>1. builder'.policies = OwnedByDefault(SourceSide)
      BY <1>1, <1>2, <2>1 DEF Configured, OneWay
    <3>2. QED
      BY <3>1 DEF OwnedByDefault, IsMapOver, HoldDocs
  <2>2. CASE c.call = "policy"
    <3>1. builder'.policies = [by_path |-> Insert(builder.policies.by_path, c.path, c.policy),
                               default |-> builder.policies.default]
      BY <1>1, <1>2, <2>2 DEF Configured, WithPolicy
    <3>2. c.policy \in Policies
      BY <2>2 DEF HoldDocs
    <3>3. QED
      BY <3>1, <3>2 DEF DocsKept, IsMapOver, Insert
  <2>3. CASE c.call \notin {"policy", "one_way"}
    <3>1. builder'.policies = builder.policies
      BY <1>1, <1>2, <2>3
         DEF Setters, Configured, WithInvariant, WithAncestorStore, WithPolicyStore
    <3>2. QED
      BY <3>1 DEF DocsKept
  <2>4. QED
    BY <2>1, <2>2, <2>3
<1>4. builder'.invariants \in Seq({d.invariant : d \in BuilderCalls})
  <2>1. CASE c.call = "invariant"
    BY <1>1, <1>2, <2>1 DEF Configured, WithInvariant, DocsKept
  <2>2. CASE c.call # "invariant"
    <3>1. builder'.invariants = builder.invariants
      BY <1>1, <1>2, <2>2
         DEF Setters, Configured, WithPolicy, OneWay, WithAncestorStore, WithPolicyStore
    <3>2. QED
      BY <3>1 DEF DocsKept
  <2>3. QED
    BY <2>1, <2>2
<1>5. ASSUME ~builder'.policy_store, builder'.invariants = <<>>
      PROVE  ~builder.policy_store /\ builder.invariants = <<>>
  <2>1. CASE c.call = "invariant"
    <3>1. builder'.invariants = Append(builder.invariants, c.invariant)
      BY <1>1, <1>2, <2>1 DEF Configured, WithInvariant
    <3>2. Len(builder'.invariants) = Len(builder.invariants) + 1 /\ Len(builder.invariants) \in Nat
      BY <3>1 DEF DocsKept
    <3>3. QED
      BY <1>5, <3>2
  <2>2. CASE c.call = "policy_store"
    <3>1. builder'.policy_store = TRUE
      BY <1>1, <1>2, <2>2 DEF Configured, WithPolicyStore
    <3>2. QED
      BY <1>5, <3>1
  <2>3. CASE c.call \in {"policy", "one_way", "ancestor_store"}
    <3>1. /\ builder'.policy_store = builder.policy_store
          /\ builder'.invariants = builder.invariants
      BY <1>1, <1>2, <2>3 DEF Configured, WithPolicy, OneWay, WithAncestorStore
    <3>2. QED
      BY <1>5, <3>1
  <2>4. QED
    BY <1>1, <2>1, <2>2, <2>3 DEF Setters
<1>6. QED
  BY <1>1, <1>3, <1>4, <1>5 DEF DocsKept

\* A seed and a store that is made for the engine are documents, or none yet.
LEMMA StoresKeepDocs ==
    ASSUME NEW Docs, NEW Policies, HoldDocs(Docs, Policies), EngineInv, DocsKept(Docs, Policies),
           (\E c \in BuilderCalls : SeedAncestor(c)) \/ BuildEngine
    PROVE  DocsKept(Docs, Policies)'
<1>1. {"policies", "invariants", "policy_store"} \subseteq DOMAIN builder
  BY DEF EngineInv, EngineTypeOK
<1>2. /\ builder'.policies = builder.policies
      /\ builder'.invariants = builder.invariants
      /\ builder'.policy_store = builder.policy_store
      /\ record' = record
  BY <1>1 DEF SeedAncestor, BuildEngine, Called
<1>3. stores' = stores \/ \E id : \E d \in Docs \cup {None} : stores' = Insert(stores, id, d)
  BY DEF SeedAncestor, BuildEngine, HoldDocs
<1>4. ASSUME \A id \in DOMAIN stores : stores[id] \in Docs \cup {None}
      PROVE  \A id \in DOMAIN stores' : stores'[id] \in Docs \cup {None}
  BY <1>3, <1>4 DEF Insert
<1>5. QED
  BY <1>2, <1>4 DEF DocsKept

\* A sync by the builder's policies makes documents of documents.
LEMMA SyncMerges ==
    ASSUME SyncPushes, ~builder.policy_store, builder.invariants = <<>>
    PROVE  LET m == builder.policies
               o == AncestorView
               a == record[SideA]
               b == record[SideB]
           IN  /\ Merges(m, o, a, b)
               /\ record' = [s \in Sides |-> Pushed(record[s], Merged(m, o, a, b))]
               /\ stores' = [stores EXCEPT ![builder.ancestor] = Merged(m, o, a, b)]
<1> DEFINE resolution == Resolution(PolicyOverride)
           candidate  == Overlay(AncestorView, resolution)
<1>1. PolicyOverride = builder.policies
  BY DEF PolicyOverride
<1>2. resolution = ResolutionOf(builder.policies, AncestorView, record[SideA], record[SideB])
  BY <1>1 DEF Resolution, ResolutionOf, Changelog
<1>3. AfterInvariants(candidate) = candidate
  BY NoInvariants DEF AfterInvariants
<1>4. /\ ConflictPaths(resolution) = {}
      /\ record' = [s \in Sides |-> Pushed(record[s], candidate)]
      /\ stores' = [stores EXCEPT ![builder.ancestor] = candidate]
  BY <1>3 DEF SyncPushes
<1> HIDE DEF resolution
<1>5. QED
  BY <1>2, <1>4 DEF Merges, Merged

LEMMA SyncSeesDocs ==
    ASSUME NEW Docs, NEW Policies, HoldDocs(Docs, Policies), EngineInv, DocsKept(Docs, Policies),
           Ready, ~builder.policy_store, builder.invariants = <<>>
    PROVE  AncestorView \in Docs /\ \A s \in Sides : record[s] \in Docs
<1>1. \A s \in Sides : record[s] \in Docs
  BY DEF DocsKept, Ready
<1>2. builder.ancestor \in DOMAIN stores
  BY DEF EngineInv, EngineReady, EngineTypeOK, Ready
<1>3. QED
  BY <1>1, <1>2 DEF DocsKept, AncestorView, Sides

LEMMA SyncKeepsDocs ==
    ASSUME NEW Docs, NEW Policies, HoldDocs(Docs, Policies), EngineInv, DocsKept(Docs, Policies),
           SyncPushes
    PROVE  DocsKept(Docs, Policies)'
<1>1. builder' = builder /\ Ready
  BY DEF SyncPushes, SyncBegins
<1>2. SUFFICES ASSUME ~builder.policy_store, builder.invariants = <<>>
               PROVE  /\ record' \in [Sides -> Docs \cup {None}]
                      /\ \A id \in DOMAIN stores' : stores'[id] \in Docs \cup {None}
  BY <1>1 DEF DocsKept
<1> DEFINE m == builder.policies
           a == record[SideA]
           b == record[SideB]
           merged == Merged(m, AncestorView, a, b)
<1>3. AncestorView \in Docs /\ a \in Docs /\ b \in Docs /\ \A s \in Sides : record[s] \in Docs
  BY <1>1, <1>2, SyncSeesDocs DEF Sides
<1>4. /\ Merges(m, AncestorView, a, b)
      /\ record' = [s \in Sides |-> Pushed(record[s], merged)]
      /\ stores' = [stores EXCEPT ![builder.ancestor] = merged]
  BY <1>2, SyncMerges
<1>5. IsMapOver(m, Policies)
  BY DEF DocsKept
<1> HIDE DEF m, a, b
<1>6. merged \in Docs
  BY <1>3, <1>4, <1>5 DEF HoldDocs
<1> HIDE DEF merged
<1>7. \A s \in Sides : Pushed(record[s], merged) \in Docs
  BY <1>3, <1>6 DEF Pushed, HoldDocs
<1>8. \A id \in DOMAIN stores : stores[id] \in Docs \cup {None}
  BY <1>2 DEF DocsKept
<1>9. QED
  BY <1>4, <1>6, <1>7, <1>8

LEMMA DocsKeptIsInductive ==
    ASSUME NEW Docs, NEW Policies, HoldDocs(Docs, Policies)
    PROVE  EngineInv /\ DocsKept(Docs, Policies) /\ [ENext]_evars => DocsKept(Docs, Policies)'
<1> SUFFICES ASSUME EngineInv, DocsKept(Docs, Policies), [ENext]_evars
             PROVE  DocsKept(Docs, Policies)'
  OBVIOUS
<1>1. ASSUME UNCHANGED <<builder, record, stores>> PROVE DocsKept(Docs, Policies)'
  BY <1>1 DEF DocsKept
<1>2. CASE \E c \in BuilderCalls : Configure(c)
  BY <1>2, ConfigureKeepsDocs
<1>3. CASE (\E c \in BuilderCalls : SeedAncestor(c)) \/ BuildEngine
  BY <1>3, StoresKeepDocs
<1>4. CASE \/ \E c \in BuilderCalls : ValidateAgainstSchema(c)
           \/ Preview \/ SyncNoOp \/ SyncEscalates
           \/ \E json \in PolicyDocuments : SetJson(json)
           \/ UNCHANGED evars
  BY <1>1, <1>4 DEF ValidateAgainstSchema, Called, Preview, SyncNoOp, SyncEscalates, SyncBegins,
                    SetJson, evars
<1>5. CASE SyncPushes
  BY <1>5, SyncKeepsDocs
<1>6. ASSUME NEW s \in Sides, Edit(s) PROVE DocsKept(Docs, Policies)'
  <2>1. PICK d \in Editions(s, record[s]) : record' = [record EXCEPT ![s] = d]
    BY <1>6 DEF Edit
  <2>2. record[s] # None /\ UNCHANGED <<builder, stores>>
    BY <1>6 DEF Edit
  <2>3. ASSUME record \in [Sides -> Docs \cup {None}] PROVE record' \in [Sides -> Docs \cup {None}]
    <3>1. record[s] \in Docs
      BY <2>2, <2>3
    <3>2. d \in Docs
      BY <2>1, <3>1 DEF HoldDocs
    <3>3. QED
      BY <2>1, <2>3, <3>2
  <2>4. QED
    BY <2>2, <2>3 DEF DocsKept
<1>7. QED
  BY <1>2, <1>3, <1>4, <1>5, <1>6 DEF ENext

LEMMA OneWayStep ==
    ASSUME NEW Docs, NEW Policies, HoldDocs(Docs, Policies), OwnersKeepFields(Docs, Policies),
           EngineInv, OwnedAsAsked, DocsKept(Docs, Policies), [ENext]_evars,
           SyncHappens, CallsOf("one_way") # {}, ~builder.policy_store, builder.invariants = <<>>,
           NEW f \in FieldsOf(record'[SideA]),
           ~ \E i \in CallsOf("policy") : i > Latest({"one_way"}) /\ calls[i].path = <<f>>
    PROVE  SameField(record[SideA], record'[SideA], f)
<1> DEFINE m == builder.policies
           a == record[SideA]
           b == record[SideB]
           merged == Merged(m, AncestorView, a, b)
<1>1. SyncNoOp \/ SyncEscalates \/ SyncPushes
  BY DEF SyncHappens, ENext, evars, Configure, SeedAncestor, ValidateAgainstSchema, Called,
         BuildEngine, Preview, Edit, SetJson
<1>2. Ready
  BY <1>1 DEF SyncNoOp, SyncEscalates, SyncPushes, SyncBegins
<1>3. AncestorView \in Docs /\ a \in Docs /\ b \in Docs
  BY <1>2, SyncSeesDocs DEF Sides
<1>4. Latest({"one_way"}) = LatestOf(calls, {"one_way"})
  BY DEF Latest, LatestOf, CallsOf
<1>5. LatestOf(calls, {"one_way"}) # 0
  <2>1. PICK i \in DOMAIN calls : calls[i].call = "one_way"
    BY DEF CallsOf
  <2>2. IsLatest(LatestOf(calls, {"one_way"}), calls, {"one_way"})
    BY LatestCall DEF EngineInv, EngineTypeOK
  <2>3. i \in 1..Len(calls)
    BY <2>1 DEF EngineInv, EngineTypeOK
  <2>4. i <= LatestOf(calls, {"one_way"})
    BY <2>1, <2>2, <2>3 DEF IsLatest
  <2>5. QED
    BY <2>3, <2>4
<1>6. Lookup(m, <<f>>) = OwnedBy(SourceSide)
  <2>1. <<f>> \notin DOMAIN m.by_path
    BY <1>4, <1>5 DEF OwnedAsAsked
  <2>2. m.default = OwnedBy(SourceSide)
    BY <1>5 DEF OwnedAsAsked
  <2>3. QED
    BY <2>1, <2>2 DEF Lookup
<1>7. CASE SyncNoOp \/ SyncEscalates
  <2>1. record' = record
    BY <1>7 DEF SyncNoOp, SyncEscalates
  <2>2. QED
    BY <1>3, <2>1 DEF OwnersKeepFields
<1>8. CASE SyncPushes
  <2>1. Merges(m, AncestorView, a, b) /\ record' = [s \in Sides |-> Pushed(record[s], merged)]
    BY <1>8, SyncMerges
  <2>2. record'[SideA] = Pushed(a, merged)
    BY <2>1 DEF Sides
  <2>3. IsMapOver(m, Policies)
    BY DEF DocsKept
  <2> HIDE DEF m, a, b
  <2>4. f \in FieldsOf(Pushed(a, Merged(m, AncestorView, a, b)))
    BY <2>2
  <2>5. SameField(a, Pushed(a, Merged(m, AncestorView, a, b)), f)
    BY <1>3, <1>6, <2>1, <2>3, <2>4 DEF OwnersKeepFields
  <2>6. QED
    BY <2>2, <2>5 DEF a
<1>9. QED
  BY <1>1, <1>7, <1>8

\* OneWayOwnsTheRest, for any number and order of calls of the builder: a field that
\* no policy call after the last one_way declares keeps what the source has through
\* every sync (core/src/drivers/sync_engine.rs, one_way).  What is configured before
\* one_way is gone with it, what is configured after it stands.
THEOREM OneWayOwns ==
    ASSUME NEW Docs, NEW Policies, HoldDocs(Docs, Policies), OwnersKeepFields(Docs, Policies)
    PROVE  ESpec => OneWayOwnsTheRest
<1> DEFINE Inv == EngineInv /\ OwnedAsAsked /\ DocsKept(Docs, Policies)
           Owns ==
              SyncHappens /\ CallsOf("one_way") # {} /\ ~builder.policy_store
                          /\ builder.invariants = <<>> =>
                 \A f \in FieldsOf(record'[SideA]) :
                    \/ \E i \in CallsOf("policy") : i > Latest({"one_way"}) /\ calls[i].path = <<f>>
                    \/ SameField(record[SideA], record'[SideA], f)
<1>1. EInit => Inv
  <2> SUFFICES ASSUME EInit PROVE Inv
    OBVIOUS
  <2>1. LatestOf(calls, {"one_way"}) = 0
    <3>1. calls = <<>> /\ EngineInv
      BY EInitEstablishes DEF EInit
    <3>2. IsLatest(LatestOf(calls, {"one_way"}), calls, {"one_way"})
      BY <3>1, LatestCall DEF EngineInv, EngineTypeOK
    <3>3. QED
      BY <3>1, <3>2 DEF IsLatest
  <2>2. QED
    BY <2>1, EInitEstablishes, DocsAtFirst DEF OwnedAsAsked
<1>2. Inv /\ [ENext]_evars => Inv'
  BY EngineInvIsInductive, OwnedAsAskedIsInductive, DocsKeptIsInductive
<1>3. Inv /\ [ENext]_evars => [Owns]_evars
  BY OneWayStep
<1> HIDE DEF Inv
<1>4. QED
  BY <1>1, <1>2, <1>3, PTL DEF ESpec, OneWayOwnsTheRest

-----------------------------------------------------------------------------
(* The host.                                                               *)

\* A host that captures drives the engine and the observer as their own
\* specifications say: the two meet in the records alone, which a capture reads
\* (core/src/application/capture.rs).
THEOREM HostRefinesItsParts == HostSpec => ESpec /\ OSpec
<1>1. HostInit => EInit /\ OInit
  BY DEF HostInit
<1>2. [HostNext]_hostvars => [ENext]_evars
  BY DEF HostNext, hostvars, Capture, CaptureFails, CaptureSideA, CaptureSideB
<1>3. [HostNext]_hostvars => [ONext]_ovars
  BY DEF HostNext, hostvars, Capture, CaptureFails, CaptureSideA, CaptureSideB, ONext
<1>4. QED
  BY <1>1, <1>2, <1>3, PTL DEF HostSpec, ESpec, OSpec

\* What the two promise holds in the host, while captures, edits and syncs
\* interleave.
THEOREM HostKeepsPromises ==
    HostSpec => [](BaselineAsAsked /\ EveryCaptureAccounted) /\ PreviewForetells
  BY HostRefinesItsParts, BaselineIsAsAsked, PreviewsForetell, EveryCaptureIsAccounted, PTL
=============================================================================
