-------------------------- MODULE KernelCallProofs --------------------------
(***************************************************************************)
(* The buffers of a kernel call: for every set of requests and addresses,  *)
(* every width of the packed word and any number of traps, no buffer leaks *)
(* or is freed twice, and an answer is the answer to its own request.  And *)
(* a host that works by such calls decides what an engine decides.         *)
(***************************************************************************)
EXTENDS KernelHost, SequenceTheorems, TLAPS

PC == {"idle", "alloc", "write", "export", "read", "reply"}

Buffer == [ptr : Nat, len : Nat]

ArgPtrs == {argBufs[i].ptr : i \in {j \in DOMAIN argBufs : Held(argBufs[j])}}

KernelTypeOK ==
    /\ pc \in PC
    /\ DOMAIN live \subseteq Addresses
    /\ \A p \in DOMAIN live : live[p] \in [len : Nat, bytes : Texts \cup {Zeroed}]
    /\ argBufs \in Seq(Buffer)

\* How far the call in progress got.
Progress ==
    /\ pc = "idle" => argBufs = <<>>
    /\ pc # "idle" => request \in Requests /\ Len(argBufs) <= Len(request.args)
    /\ pc = "alloc" => Len(argBufs) < Len(request.args)
    /\ pc = "write" => Len(argBufs) > 0
    /\ pc \in {"export", "read", "reply"} => Len(argBufs) = Len(request.args)

\* An argument has the buffer that its size asks for, and is in it once written.
Placed(i) ==
    /\ argBufs[i].len = Size(request.args[i])
    /\ Held(argBufs[i]) =>
          /\ argBufs[i].ptr \in DOMAIN live
          /\ live[argBufs[i].ptr].len = argBufs[i].len
          /\ i < Len(argBufs) \/ pc # "write" => live[argBufs[i].ptr].bytes = request.args[i]

AllPlaced == \A i \in DOMAIN argBufs : Placed(i)

Apart ==
    \A i, j \in DOMAIN argBufs :
        i # j /\ Held(argBufs[i]) /\ Held(argBufs[j]) => argBufs[i].ptr # argBufs[j].ptr

OwnAnswer == Compute(request.name, request.args)

EnvelopeKept ==
    /\ pc = "read" =>
          /\ OwnAnswer # Trapped
          /\ Unpack(out).ptr \in DOMAIN live \ ArgPtrs
          /\ Unpack(out).len = Size(Envelope(OwnAnswer))
          /\ live[Unpack(out).ptr].len = Size(Envelope(OwnAnswer))
          /\ live[Unpack(out).ptr].bytes = Envelope(OwnAnswer)
    /\ pc = "reply" => OwnAnswer # Trapped /\ raw = Envelope(OwnAnswer)

KInv ==
    /\ KernelTypeOK
    /\ Progress
    /\ AllPlaced
    /\ Apart
    /\ EnvelopeKept
    /\ NothingLeaks
    /\ FreedOnce

-----------------------------------------------------------------------------
(* Lemmas on the operators.                                                *)

\* Unpack undoes Pack as long as the length fits into the word.
LEMMA UnpackOfPack ==
    ASSUME NEW ptr \in Nat, NEW len \in 0 .. (WordSize - 1)
    PROVE  Unpack(Pack(ptr, len)) = [ptr |-> ptr, len |-> len]
<1> DEFINE W == WordSize
           word == ptr * W + len
           q == word \div W
           r == word % W
<1>1. W \in Nat /\ W > 0 /\ len \in Nat
  BY WordAssumption
<1>2. ptr * W \in Nat /\ word \in Nat
  BY <1>1
<1>3. word = W * q + r /\ q \in Int /\ r \in 0 .. (W - 1)
  BY <1>1, <1>2
<1>4. q \in Int /\ r \in 0 .. (W - 1) /\ ptr * W + len = q * W + r
  BY <1>1, <1>3
<1> HIDE DEF q, r, word, W
<1>5. (ptr - q) * W = r - len
  BY <1>1, <1>4
<1>6. len \in 0 .. (W - 1)
  BY DEF W
<1>7. ~(ptr - q >= 1)
  <2> SUFFICES ASSUME ptr - q >= 1 PROVE FALSE
    OBVIOUS
  <2>1. (ptr - q) * W >= W
    BY <1>1, <1>4
  <2>2. QED
    BY <2>1, <1>1, <1>4, <1>5, <1>6
<1>8. ~(q - ptr >= 1)
  <2> SUFFICES ASSUME q - ptr >= 1 PROVE FALSE
    OBVIOUS
  <2>1. (q - ptr) * W >= W
    BY <1>1, <1>4
  <2>2. (ptr - q) * W = -((q - ptr) * W)
    BY <1>1, <1>4
  <2>3. QED
    BY <2>1, <2>2, <1>1, <1>4, <1>5, <1>6
<1>9. q = ptr /\ r = len
  BY <1>1, <1>4, <1>5, <1>7, <1>8
<1>10. QED
  BY <1>9 DEF Unpack, Pack, q, r, word, W

\* What the export reads are the arguments.
LEMMA ArgumentsArrive ==
    ASSUME KInv, pc = "export"
    PROVE  Answer = OwnAnswer
<1>1. request \in Requests /\ request.args \in Seq(Texts) /\ Len(argBufs) = Len(request.args)
  BY RequestsAssumption DEF KInv, Progress
<1>2. argBufs \in Seq(Buffer)
  BY DEF KInv, KernelTypeOK
<1>3. DOMAIN argBufs = DOMAIN request.args
  BY <1>1, <1>2
<1>4. ASSUME NEW i \in DOMAIN argBufs PROVE BytesAt(argBufs[i]) = request.args[i]
  <2>1. Placed(i) /\ request.args[i] \in Texts
    BY <1>1, <1>3, <1>4 DEF KInv, AllPlaced
  <2>2. CASE Held(argBufs[i])
    BY <2>1, <2>2 DEF Placed, BytesAt
  <2>3. CASE ~Held(argBufs[i])
    BY <2>1, <2>3, TextsAssumption DEF Placed, BytesAt, Held
  <2>4. QED
    BY <2>2, <2>3
<1>5. request.args = [i \in DOMAIN request.args |-> request.args[i]]
  BY <1>1
<1>6. [i \in DOMAIN argBufs |-> BytesAt(argBufs[i])] = request.args
  BY <1>3, <1>4, <1>5
<1>7. QED
  BY <1>6 DEF Answer, OwnAnswer

\* Buffers that are all there, once each and with their lengths, are freed cleanly.
OwnsAll(bufs) ==
    /\ \A i \in DOMAIN bufs : Held(bufs[i]) =>
          bufs[i].ptr \in DOMAIN live /\ live[bufs[i].ptr].len = bufs[i].len
    /\ \A i, j \in DOMAIN bufs :
          i # j /\ Held(bufs[i]) /\ Held(bufs[j]) => bufs[i].ptr # bufs[j].ptr

\* df_dealloc of such buffers takes exactly them away, or leaves some stranded.
LEMMA CleanFree ==
    ASSUME NEW bufs \in Seq(Buffer), OwnsAll(bufs), FreedOnce, NEW fails, Dealloc(bufs, fails)
    PROVE  FreedOnce' /\ live' = [p \in DOMAIN live \ PtrsOf(bufs) |-> live[p]]
<1>1. \A i \in DOMAIN bufs : i \in Nat /\ \A j \in 1 .. (i - 1) : j \in DOMAIN bufs /\ j # i
  OBVIOUS
<1>2. ~Misfree(bufs)
  BY <1>1 DEF Misfree, OwnsAll
<1>3. QED
  BY <1>2 DEF Dealloc, FreedOnce

\* The arguments of the call are such buffers, and so are they with the envelope.
LEMMA OwnsArguments ==
    ASSUME KInv
    PROVE  OwnsAll(argBufs) /\ PtrsOf(argBufs) = ArgPtrs
  BY DEF KInv, AllPlaced, Placed, Apart, OwnsAll, PtrsOf, ArgPtrs

\* What the envelope of the call in progress is to its memory.
LEMMA EnvelopeFacts ==
    ASSUME KInv, pc \in {"read", "reply"}
    PROVE  /\ Envelope(OwnAnswer) \in Texts /\ Size(Envelope(OwnAnswer)) \in 1 .. (WordSize - 1)
           /\ Unwrap(Envelope(OwnAnswer)) = OwnAnswer
<1>1. request \in Requests /\ OwnAnswer # Trapped
  BY DEF KInv, Progress, EnvelopeKept
<1>2. /\ Envelope(OwnAnswer) \in Texts /\ Envelope(OwnAnswer) # EmptyText
      /\ Unwrap(Envelope(OwnAnswer)) = OwnAnswer
  BY <1>1, RequestsAssumption DEF OwnAnswer
<1>3. QED
  BY <1>2, TextsAssumption, WordAssumption

\* With the envelope before them, the buffers are all that there is.
LEMMA OwnsEnvelope ==
    ASSUME KInv, pc = "read"
    PROVE  LET bufs == <<Unpack(out)>> \o argBufs
           IN  bufs \in Seq(Buffer) /\ OwnsAll(bufs) /\ PtrsOf(bufs) = DOMAIN live
<1> DEFINE e    == Unpack(out)
           bufs == <<e>> \o argBufs
<1>1. e.ptr \in DOMAIN live \ ArgPtrs /\ live[e.ptr].len = e.len /\ e.len \in 1 .. (WordSize - 1)
  BY EnvelopeFacts DEF KInv, EnvelopeKept
<1>2. e \in Buffer /\ Held(e)
  <2>1. e.ptr \in Addresses
    BY <1>1 DEF KInv, KernelTypeOK
  <2>2. \A ptr \in Addresses : ptr \in Nat
    BY WordAssumption
  <2>3. \A len \in 1 .. (WordSize - 1) : len \in Nat /\ len # 0
    BY WordAssumption
  <2>4. e.ptr \in Nat /\ e.len \in Nat /\ e.len # 0
    BY <1>1, <2>1, <2>2, <2>3
  <2>5. QED
    BY <2>4 DEF Unpack, Buffer, Held
<1>3. argBufs \in Seq(Buffer)
  BY DEF KInv, KernelTypeOK
<1> HIDE DEF e
<1>4. /\ bufs \in Seq(Buffer)
      /\ bufs[1] = e
      /\ DOMAIN bufs = 1 .. (Len(argBufs) + 1)
      /\ DOMAIN argBufs = 1 .. Len(argBufs) /\ Len(argBufs) \in Nat
      /\ \A i \in 1 .. Len(argBufs) : bufs[i + 1] = argBufs[i]
  BY <1>2, <1>3
<1>5. \A i \in DOMAIN bufs : i = 1 \/ (i - 1 \in DOMAIN argBufs /\ bufs[i] = argBufs[i - 1])
  BY <1>4
<1>6. 1 \in DOMAIN bufs /\ \A i \in DOMAIN argBufs : i + 1 \in DOMAIN bufs /\ bufs[i + 1] = argBufs[i]
  BY <1>4
<1>7. \A i \in DOMAIN bufs : i \in Int
  BY <1>4
<1>8. OwnsAll(argBufs) /\ PtrsOf(argBufs) = ArgPtrs
  BY OwnsArguments
<1> HIDE DEF bufs
<1>9. OwnsAll(bufs)
  <2>1. ASSUME NEW i \in DOMAIN bufs, Held(bufs[i])
        PROVE  bufs[i].ptr \in DOMAIN live /\ live[bufs[i].ptr].len = bufs[i].len
    BY <2>1, <1>1, <1>4, <1>5, <1>8 DEF OwnsAll, e
  <2>2. ASSUME NEW i \in DOMAIN bufs, i # 1, Held(bufs[i])
        PROVE  bufs[i].ptr \in ArgPtrs
    BY <2>2, <1>5 DEF ArgPtrs
  <2>3. e.ptr \notin ArgPtrs
    BY <1>1
  <2>4. ASSUME NEW i \in DOMAIN bufs, NEW j \in DOMAIN bufs, i # 1, j # 1, i # j,
               Held(bufs[i]), Held(bufs[j])
        PROVE  bufs[i].ptr # bufs[j].ptr
    <3>1. /\ i - 1 \in DOMAIN argBufs /\ bufs[i] = argBufs[i - 1]
          /\ j - 1 \in DOMAIN argBufs /\ bufs[j] = argBufs[j - 1]
      BY <2>4, <1>5
    <3>2. i - 1 # j - 1
      BY <2>4, <1>7
    <3>3. QED
      BY <3>1, <3>2, <2>4, <1>8 DEF OwnsAll
  <2>5. \A i, j \in DOMAIN bufs :
           i # j /\ Held(bufs[i]) /\ Held(bufs[j]) => bufs[i].ptr # bufs[j].ptr
    BY <2>2, <2>3, <2>4, <1>4
  <2>6. QED
    BY <2>1, <2>5 DEF OwnsAll
<1>10. PtrsOf(bufs) = ArgPtrs \cup {e.ptr}
  <2>1. \A p \in PtrsOf(bufs) : p \in ArgPtrs \cup {e.ptr}
    BY <1>4, <1>5 DEF PtrsOf, ArgPtrs
  <2>2. e.ptr \in PtrsOf(bufs)
    BY <1>2, <1>4, <1>6 DEF PtrsOf
  <2>3. ArgPtrs \subseteq PtrsOf(bufs)
    BY <1>6 DEF PtrsOf, ArgPtrs
  <2>4. QED
    BY <2>1, <2>2, <2>3
<1>11. DOMAIN live = ArgPtrs \cup {e.ptr}
  BY DEF KInv, NothingLeaks, ArgPtrs, PtrsOf, e
<1>12. QED
  BY <1>4, <1>9, <1>10, <1>11 DEF bufs, e

-----------------------------------------------------------------------------
(* The inductive step.                                                     *)

\* A call that left no buffer and no trace is over.
LEMMA BackToIdle ==
    ASSUME pc' = "idle", argBufs' = <<>>, DOMAIN live' = {}, FreedOnce'
    PROVE  KInv'
<1>1. DOMAIN argBufs' = {} /\ argBufs' \in Seq(Buffer)
  OBVIOUS
<1>2. KernelTypeOK'
  BY <1>1 DEF KernelTypeOK, PC, FreedOnce
<1>3. Progress' /\ EnvelopeKept'
  BY DEF Progress, EnvelopeKept
<1>4. AllPlaced' /\ Apart' /\ NothingLeaks'
  BY <1>1 DEF AllPlaced, Apart, NothingLeaks, PtrsOf
<1>5. QED
  BY <1>2, <1>3, <1>4 DEF KInv

\* A return or a failure with only the arguments left frees them all.
LEMMA FinishEndsCall ==
    ASSUME KInv, pc # "read", NEW answer, NEW fails, Finish(answer, <<>>, fails)
    PROVE  KInv'
<1>1. argBufs \in Seq(Buffer) /\ <<>> \o argBufs = argBufs /\ FreedOnce
  BY DEF KInv, KernelTypeOK
<1>2. Dealloc(argBufs, fails)
  BY <1>1 DEF Finish
<1>3. FreedOnce' /\ live' = [p \in DOMAIN live \ PtrsOf(argBufs) |-> live[p]]
  BY <1>1, <1>2, OwnsArguments, CleanFree
<1>4. DOMAIN live = PtrsOf(argBufs)
  BY OwnsArguments DEF KInv, NothingLeaks, ArgPtrs, PtrsOf
<1>5. DOMAIN live' = {}
  BY <1>3, <1>4
<1>6. QED
  BY <1>3, <1>5, BackToIdle DEF Finish

\* A read that fails frees the envelope and then the arguments.
LEMMA ReadFailsEndsCall == KInv /\ ReadFails => KInv'
<1> SUFFICES ASSUME KInv, ReadFails PROVE KInv'
  OBVIOUS
<1> DEFINE bufs == <<Unpack(out)>> \o argBufs
<1>1. pc = "read" /\ Finish(HostError, <<Unpack(out)>>, 1)
  BY DEF ReadFails
<1>2. bufs \in Seq(Buffer) /\ OwnsAll(bufs) /\ PtrsOf(bufs) = DOMAIN live /\ Dealloc(bufs, 1)
  BY <1>1, OwnsEnvelope DEF Finish
<1> HIDE DEF bufs
<1>3. FreedOnce' /\ live' = [p \in DOMAIN live \ PtrsOf(bufs) |-> live[p]]
  BY <1>2, CleanFree DEF KInv
<1>4. DOMAIN live' = {}
  BY <1>2, <1>3
<1>5. QED
  BY <1>1, <1>3, <1>4, BackToIdle DEF Finish

\* A new call finds no buffer and has no argument placed.
LEMMA CallPreserves ==
    ASSUME KInv, NEW r \in Requests, Call(r)
    PROVE  KInv'
<1>1. argBufs = <<>> /\ argBufs' = <<>> /\ pc' = "alloc" /\ request' = r /\ live' = live
  BY DEF KInv, Progress, Call
<1>2. KernelTypeOK' /\ FreedOnce'
  BY <1>1 DEF KInv, KernelTypeOK, PC, FreedOnce, Call
<1>3. r.args \in Seq(Texts) /\ r.args # <<>>
  BY RequestsAssumption
<1>4. Len(<<>>) = 0 /\ Len(r.args) > 0
  BY <1>3
<1>5. Progress' /\ EnvelopeKept'
  BY <1>1, <1>4 DEF Progress, EnvelopeKept
<1>6. AllPlaced' /\ Apart'
  BY <1>1 DEF AllPlaced, Apart
<1>7. NothingLeaks'
  <2>1. DOMAIN live = {}
    BY <1>1 DEF KInv, NothingLeaks, PtrsOf, Call
  <2>2. QED
    BY <1>1, <2>1 DEF NothingLeaks, PtrsOf
<1>8. QED
  BY <1>2, <1>5, <1>6, <1>7 DEF KInv

\* The next argument gets a buffer that no other has.
LEMMA AllocPreserves == KInv /\ Alloc => KInv'
<1> SUFFICES ASSUME KInv, Alloc PROVE KInv'
  OBVIOUS
<1> DEFINE n == Len(argBufs) + 1
<1>1. /\ pc = "alloc" /\ pc' = "write"
      /\ request' = request /\ FreedOnce'
  BY DEF Alloc, KInv, FreedOnce
<1>2. /\ argBufs \in Seq(Buffer) /\ request.args \in Seq(Texts)
      /\ n \in Nat /\ n <= Len(request.args) /\ n \in DOMAIN request.args
      /\ request \in Requests
  BY <1>1, RequestsAssumption DEF KInv, KernelTypeOK, Progress
<1>3. Arg = request.args[n] /\ Arg \in Texts /\ Size(Arg) \in Nat
  BY <1>2, TextsAssumption, WordAssumption DEF Arg
<1>4. PICK buf \in Buffer :
         /\ argBufs' = Append(argBufs, buf)
         /\ buf.len = Size(Arg)
         /\ ~Held(buf) => live' = live
         /\ Held(buf) => /\ buf.ptr \in Addresses \ DOMAIN live
                         /\ live' = Allocated(buf.ptr, buf.len, Zeroed)
  <2>1. CASE Size(Arg) = 0
    <3>1. [ptr |-> Dangling, len |-> 0] \in Buffer
      BY DEF Buffer, Dangling
    <3>2. QED
      BY <2>1, <3>1 DEF Alloc, Held
  <2>2. CASE Size(Arg) # 0
    <3>1. PICK ptr \in Addresses \ DOMAIN live :
             /\ argBufs' = Append(argBufs, [ptr |-> ptr, len |-> Size(Arg)])
             /\ live' = Allocated(ptr, Size(Arg), Zeroed)
      BY <2>2 DEF Alloc, Unused
    <3>2. [ptr |-> ptr, len |-> Size(Arg)] \in Buffer
      BY <1>3, WordAssumption DEF Buffer
    <3>3. QED
      BY <2>2, <3>1, <3>2 DEF Held
  <2>3. QED
    BY <2>1, <2>2
<1>5. /\ argBufs' \in Seq(Buffer) /\ Len(argBufs') = n /\ argBufs'[n] = buf
      /\ DOMAIN argBufs' = DOMAIN argBufs \cup {n} /\ DOMAIN argBufs = 1 .. (n - 1)
      /\ \A i \in DOMAIN argBufs : argBufs'[i] = argBufs[i] /\ i # n /\ i < n
  BY <1>2, <1>4
<1> HIDE DEF n
<1>6. /\ DOMAIN live \subseteq DOMAIN live'
      /\ \A p \in DOMAIN live : live'[p] = live[p]
      /\ DOMAIN live' = DOMAIN live \cup (IF Held(buf) THEN {buf.ptr} ELSE {})
      /\ Held(buf) => live'[buf.ptr] = [len |-> buf.len, bytes |-> Zeroed]
  BY <1>4 DEF Allocated
<1>7. KernelTypeOK'
  <2>1. DOMAIN live' \subseteq Addresses
    BY <1>4, <1>6 DEF KInv, KernelTypeOK
  <2>2. \A p \in DOMAIN live' : live'[p] \in [len : Nat, bytes : Texts \cup {Zeroed}]
    BY <1>3, <1>4, <1>6 DEF KInv, KernelTypeOK
  <2>3. QED
    BY <1>1, <1>5, <2>1, <2>2 DEF KernelTypeOK, PC
<1>8. Progress'
  BY <1>1, <1>2, <1>5 DEF Progress
<1>9. AllPlaced'
  <2> SUFFICES ASSUME NEW i \in DOMAIN argBufs' PROVE Placed(i)'
    BY DEF AllPlaced
  <2>1. CASE i \in DOMAIN argBufs
    <3>1. argBufs'[i] = argBufs[i] /\ Placed(i)
      BY <1>5, <2>1 DEF KInv, AllPlaced
    <3>2. QED
      BY <1>1, <1>6, <3>1 DEF Placed
  <2>2. CASE i = n
    BY <1>1, <1>2, <1>3, <1>4, <1>5, <1>6, <2>2 DEF Placed
  <2>3. QED
    BY <1>5, <2>1, <2>2
<1>10. Apart' /\ ArgPtrs' = ArgPtrs \cup (IF Held(buf) THEN {buf.ptr} ELSE {})
  <2>1. \A i \in DOMAIN argBufs : Held(argBufs[i]) => argBufs[i].ptr \in DOMAIN live
    BY DEF KInv, AllPlaced, Placed
  <2>2. \A i \in DOMAIN argBufs : Held(argBufs[i]) /\ Held(buf) => argBufs[i].ptr # buf.ptr
    BY <1>4, <2>1
  <2>3. Apart'
    BY <1>5, <2>2 DEF KInv, Apart
  <2>4. QED
    BY <1>5, <2>3 DEF ArgPtrs
<1>11. NothingLeaks' /\ EnvelopeKept'
  BY <1>1, <1>6, <1>10 DEF KInv, NothingLeaks, ArgPtrs, PtrsOf, EnvelopeKept
<1>12. QED
  BY <1>1, <1>7, <1>8, <1>9, <1>10, <1>11 DEF KInv

\* The write fills the newest buffer and disturbs no other.
LEMMA WritePreserves == KInv /\ Write => KInv'
<1> SUFFICES ASSUME KInv, Write PROVE KInv'
  OBVIOUS
<1> DEFINE n == Len(argBufs)
<1>1. /\ pc = "write" /\ pc' \in {"alloc", "export"}
      /\ pc' = "export" <=> n = Len(request.args)
      /\ request' = request /\ argBufs' = argBufs /\ FreedOnce'
  BY DEF Write, KInv, FreedOnce
<1>2. /\ argBufs \in Seq(Buffer) /\ request.args \in Seq(Texts) /\ request \in Requests
      /\ n \in Nat /\ n > 0 /\ n <= Len(request.args) /\ Len(request.args) \in Nat
      /\ n \in DOMAIN argBufs /\ n \in DOMAIN request.args
      /\ DOMAIN argBufs = 1 .. n
  BY <1>1, RequestsAssumption DEF KInv, KernelTypeOK, Progress
<1>3. NewBuf = argBufs[n] /\ request.args[n] \in Texts
  BY <1>2 DEF NewBuf
<1> HIDE DEF n
<1>4. ASSUME NEW p \in DOMAIN live
      PROVE  /\ live'[p].len = live[p].len
             /\ live'[p] \in [len : Nat, bytes : Texts \cup {Zeroed}]
             /\ Held(NewBuf) /\ p = NewBuf.ptr => live'[p].bytes = request.args[n]
             /\ ~(Held(NewBuf) /\ p = NewBuf.ptr) => live'[p].bytes = live[p].bytes
  <2>1. live[p] \in [len : Nat, bytes : Texts \cup {Zeroed}]
    BY DEF KInv, KernelTypeOK
  <2>2. live' = IF Held(NewBuf)
                THEN [live EXCEPT ![NewBuf.ptr].bytes = request.args[n]] ELSE live
    BY DEF Write, n
  <2>3. QED
    BY <1>3, <2>1, <2>2
<1>5. DOMAIN live' = DOMAIN live
  BY DEF Write
<1>6. KernelTypeOK'
  BY <1>1, <1>4, <1>5 DEF KInv, KernelTypeOK, PC
<1>7. Progress'
  BY <1>1, <1>2 DEF Progress, n
<1>8. AllPlaced'
  <2> SUFFICES ASSUME NEW i \in DOMAIN argBufs PROVE Placed(i)'
    BY <1>1 DEF AllPlaced
  <2>1. Placed(i) /\ Placed(n)
    BY <1>2 DEF KInv, AllPlaced
  <2>2. CASE ~Held(argBufs[i])
    BY <1>1, <2>1, <2>2 DEF Placed
  <2>3. CASE Held(argBufs[i]) /\ i = n
    BY <1>1, <1>3, <1>4, <1>5, <2>1, <2>3 DEF Placed
  <2>4. CASE Held(argBufs[i]) /\ i # n
    <3>1. i < n /\ live[argBufs[i].ptr].bytes = request.args[i]
      BY <1>2, <2>1, <2>4 DEF Placed, n
    <3>2. Held(NewBuf) => argBufs[i].ptr # NewBuf.ptr
      BY <1>2, <1>3, <2>4 DEF KInv, Apart
    <3>3. live'[argBufs[i].ptr].bytes = request.args[i]
      BY <1>4, <2>1, <2>4, <3>1, <3>2 DEF Placed
    <3>4. QED
      BY <1>1, <1>4, <1>5, <2>1, <2>4, <3>3 DEF Placed
  <2>5. QED
    BY <2>2, <2>3, <2>4
<1>9. Apart' /\ NothingLeaks' /\ EnvelopeKept'
  BY <1>1, <1>5 DEF KInv, Apart, NothingLeaks, EnvelopeKept
<1>10. QED
  BY <1>1, <1>6, <1>7, <1>8, <1>9 DEF KInv

\* The export reads its own arguments and leaves the envelope behind.
LEMMA ExportPreserves == KInv /\ Export => KInv'
<1> SUFFICES ASSUME KInv, Export PROVE KInv'
  OBVIOUS
<1> DEFINE len == Size(Envelope(OwnAnswer))
<1>1. /\ pc = "export" /\ pc' = "read" /\ request' = request /\ argBufs' = argBufs /\ FreedOnce'
      /\ OwnAnswer' = OwnAnswer
  BY DEF Export, KInv, FreedOnce, OwnAnswer
<1>2. Answer = OwnAnswer /\ OwnAnswer # Trapped
  BY <1>1, ArgumentsArrive DEF Export
<1>3. request \in Requests /\ Len(argBufs) = Len(request.args)
  BY <1>1 DEF KInv, Progress
<1>4. Envelope(OwnAnswer) \in Texts
  BY <1>2, <1>3, RequestsAssumption DEF OwnAnswer
<1>5. len \in 0 .. (WordSize - 1) /\ len \in Nat
  BY <1>4, TextsAssumption, WordAssumption
<1>6. PICK ptr \in Addresses \ DOMAIN live :
         live' = Allocated(ptr, len, Envelope(OwnAnswer)) /\ out' = Pack(ptr, len)
  BY <1>2 DEF Export, Unused
<1>7. ptr \in Nat
  BY WordAssumption
<1>8. Unpack(out') = [ptr |-> ptr, len |-> len]
  BY <1>5, <1>6, <1>7, UnpackOfPack
<1> HIDE DEF len
<1>9. /\ DOMAIN live' = DOMAIN live \cup {ptr}
      /\ \A p \in DOMAIN live : live'[p] = live[p]
      /\ live'[ptr] = [len |-> len, bytes |-> Envelope(OwnAnswer)]
  BY <1>6 DEF Allocated
<1>10. KernelTypeOK' /\ Progress'
  <2>1. \A p \in DOMAIN live' : live'[p] \in [len : Nat, bytes : Texts \cup {Zeroed}]
    BY <1>4, <1>5, <1>9 DEF KInv, KernelTypeOK
  <2>2. DOMAIN live' \subseteq Addresses
    BY <1>6, <1>9 DEF KInv, KernelTypeOK
  <2>3. QED
    BY <1>1, <1>3, <2>1, <2>2 DEF KInv, KernelTypeOK, Progress, PC
<1>11. AllPlaced' /\ Apart'
  <2>1. \A i \in DOMAIN argBufs : Placed(i) => Placed(i)'
    BY <1>1, <1>9 DEF Placed
  <2>2. QED
    BY <1>1, <2>1 DEF KInv, AllPlaced, Apart
<1>12. ArgPtrs' = ArgPtrs /\ ArgPtrs = DOMAIN live
  BY <1>1 DEF KInv, NothingLeaks, ArgPtrs, PtrsOf
<1>13. Unpack(out)' = [ptr |-> ptr, len |-> len]
  BY <1>8 DEF Unpack
<1>14. NothingLeaks'
  BY <1>1, <1>9, <1>12, <1>13 DEF NothingLeaks, ArgPtrs, PtrsOf
<1>15. EnvelopeKept'
  BY <1>1, <1>2, <1>6, <1>9, <1>12, <1>13 DEF EnvelopeKept, len
<1>16. QED
  BY <1>1, <1>10, <1>11, <1>14, <1>15 DEF KInv

\* The envelope is copied and freed, the arguments stay.
LEMMA ReadPreserves == KInv /\ Read => KInv'
<1> SUFFICES ASSUME KInv, Read PROVE KInv'
  OBVIOUS
<1> DEFINE e == Unpack(out)
<1>1. /\ pc = "read" /\ pc' = "reply" /\ request' = request /\ argBufs' = argBufs
      /\ raw' = BytesAt(e) /\ Dealloc(<<e>>, 0) /\ OwnAnswer' = OwnAnswer
  BY DEF Read, OwnAnswer
<1>2. /\ OwnAnswer # Trapped /\ e.ptr \in DOMAIN live \ ArgPtrs
      /\ e.len = Size(Envelope(OwnAnswer)) /\ live[e.ptr].len = e.len
      /\ live[e.ptr].bytes = Envelope(OwnAnswer)
  BY <1>1 DEF KInv, EnvelopeKept
<1>3. e \in Buffer /\ Held(e)
  <2>1. e.ptr \in Addresses
    BY <1>2 DEF KInv, KernelTypeOK
  <2>2. \A ptr \in Addresses : ptr \in Nat
    BY WordAssumption
  <2>3. \A len \in 1 .. (WordSize - 1) : len \in Nat /\ len # 0
    BY WordAssumption
  <2>4. e.ptr \in Nat /\ e.len \in Nat /\ e.len # 0
    BY <1>1, <1>2, <2>1, <2>2, <2>3, EnvelopeFacts
  <2>5. QED
    BY <2>4 DEF Unpack, Buffer, Held
<1>4. raw' = Envelope(OwnAnswer)
  BY <1>1, <1>2, <1>3 DEF BytesAt
<1> HIDE DEF e
<1>5. <<e>> \in Seq(Buffer) /\ DOMAIN <<e>> = {1} /\ <<e>>[1] = e
  BY <1>3
<1>6. OwnsAll(<<e>>) /\ PtrsOf(<<e>>) = {e.ptr}
  BY <1>2, <1>3, <1>5 DEF OwnsAll, PtrsOf
<1>7. FreedOnce' /\ live' = [p \in DOMAIN live \ {e.ptr} |-> live[p]]
  BY <1>1, <1>5, <1>6, CleanFree DEF KInv
<1>8. KernelTypeOK' /\ Progress'
  BY <1>1, <1>7 DEF KInv, KernelTypeOK, Progress, PC
<1>9. AllPlaced' /\ Apart'
  <2>1. \A i \in DOMAIN argBufs : Held(argBufs[i]) => argBufs[i].ptr \in ArgPtrs
    BY DEF ArgPtrs
  <2>2. \A i \in DOMAIN argBufs : Placed(i) => Placed(i)'
    BY <1>1, <1>2, <1>7, <2>1 DEF Placed
  <2>3. QED
    BY <1>1, <2>2 DEF KInv, AllPlaced, Apart
<1>10. DOMAIN live = ArgPtrs \cup {e.ptr} /\ ArgPtrs' = ArgPtrs
  BY <1>1 DEF KInv, NothingLeaks, ArgPtrs, PtrsOf, e
<1>11. DOMAIN live' = ArgPtrs
  BY <1>2, <1>7, <1>10
<1>12. NothingLeaks' /\ EnvelopeKept'
  BY <1>1, <1>2, <1>4, <1>10, <1>11 DEF NothingLeaks, ArgPtrs, PtrsOf, EnvelopeKept
<1>13. QED
  BY <1>7, <1>8, <1>9, <1>12 DEF KInv

\* The host starts without buffers.
LEMMA KernelInit == Init => KInv
<1> SUFFICES ASSUME Init PROVE KInv
  OBVIOUS
<1>1. argBufs = <<>> /\ DOMAIN argBufs = {} /\ argBufs \in Seq(Buffer)
  BY DEF Init
<1>2. DOMAIN live = {} /\ pc = "idle" /\ ~misfreed
  BY DEF Init
<1>3. QED
  BY <1>1, <1>2 DEF KInv, KernelTypeOK, Progress, AllPlaced, Apart, EnvelopeKept,
                    NothingLeaks, PtrsOf, FreedOnce, PC

\* Every step of the guest, of the host and of a failure keeps the invariant.
LEMMA KernelStepPreserves == KInv /\ [Next]_kvars => KInv'
<1> SUFFICES ASSUME KInv, [Next]_kvars PROVE KInv'
  OBVIOUS
<1>1. CASE \E r \in Requests : Call(r)
  BY <1>1, CallPreserves
<1>2. CASE Alloc
  BY <1>2, AllocPreserves
<1>3. CASE Write
  BY <1>3, WritePreserves
<1>4. CASE Export
  BY <1>4, ExportPreserves
<1>5. CASE Read
  BY <1>5, ReadPreserves
<1>6. CASE Return
  <2>1. pc # "read" /\ Finish(Unwrap(raw), <<>>, 0)
    BY <1>6 DEF Return
  <2>2. QED
    BY <2>1, FinishEndsCall
<1>7. CASE CallFails
  <2>1. pc # "read" /\ \E fails : Finish(HostError, <<>>, fails)
    BY <1>7 DEF CallFails
  <2>2. QED
    BY <2>1, FinishEndsCall
<1>8. CASE ReadFails
  BY <1>8, ReadFailsEndsCall
<1>9. CASE UNCHANGED kvars
  BY <1>9 DEF kvars, KInv, KernelTypeOK, Progress, AllPlaced, Placed, Apart, EnvelopeKept,
              OwnAnswer, ArgPtrs, NothingLeaks, FreedOnce
<1>10. QED
  BY <1>1, <1>2, <1>3, <1>4, <1>5, <1>6, <1>7, <1>8, <1>9 DEF Next, KernelStep

\* The inductive invariant holds throughout.
LEMMA KernelInvariant == Spec => []KInv
  BY KernelInit, KernelStepPreserves, PTL DEF Spec

-----------------------------------------------------------------------------
(* The theorems.                                                           *)

\* NothingLeaks (KernelCall): a call gives df_dealloc every guest buffer it caused to exist,
\* wherever it traps or fails.
THEOREM KernelNeverLeaks == Spec => []NothingLeaks
<1>1. KInv => NothingLeaks
  BY DEF KInv
<1>2. QED
  BY <1>1, KernelInvariant, PTL

\* FreedOnce (KernelCall): df_dealloc is only ever given a buffer that is there,
\* with its own length.
THEOREM KernelFreesOnce == Spec => []FreedOnce
<1>1. KInv => FreedOnce
  BY DEF KInv
<1>2. QED
  BY <1>1, KernelInvariant, PTL

\* A call that ends without an error of the host returns the answer to its own
\* request.
LEMMA ReplyIsOwn ==
    ASSUME KInv, Next, pc # "idle", pc' = "idle", reply' # HostError
    PROVE  reply' = OwnAnswer
<1>1. Return
  BY DEF Next, KernelStep, Call, Alloc, Write, Export, Read, CallFails, ReadFails, Finish
<1>2. pc = "reply" /\ reply' = Unwrap(raw)
  BY <1>1 DEF Return, Finish
<1>3. raw = Envelope(OwnAnswer) /\ Unwrap(Envelope(OwnAnswer)) = OwnAnswer
  BY <1>2, EnvelopeFacts DEF KInv, EnvelopeKept
<1>4. QED
  BY <1>2, <1>3

\* AnswerIsOwn (KernelCall): whatever traps came before, an answer is that of the
\* export to the arguments of this call.
THEOREM KernelAnswersItsCaller == Spec => AnswerIsOwn
<1> DEFINE Own == pc # "idle" /\ pc' = "idle" /\ reply' # HostError
                     => reply' = Compute(request.name, request.args)
<1>1. KInv /\ [Next]_kvars => [Own]_kvars
  BY ReplyIsOwn DEF OwnAnswer
<1>2. QED
  BY <1>1, KernelInvariant, PTL DEF Spec, AnswerIsOwn

-----------------------------------------------------------------------------
(* Changes on the wire.                                                    *)

\* A change that the checks of the wire let through panics no policy: every key
\* that the policy takes for granted is there.
LEMMA CheckedChangeNeverPanics ==
    ASSUME NEW w, Consistent(w), NEW policy
    PROVE  ~MergePanics(policy, w)
<1>1. ExpectedKeys(policy, w) \subseteq DOMAIN w
  BY DEF ExpectedKeys, Consistent
<1>2. QED
  BY <1>1 DEF MergePanics

\* A host may hand back every change it was given: it passes the checks, it panics
\* no policy, and it is read as the very change that was sent, a side that cleared
\* its field told from one that did not touch it.
THEOREM WireKeepsChanges ==
    ASSUME NEW c, Movement(c)
    PROVE  /\ Consistent(WireFieldChange(c))
           /\ \A policy : /\ FieldChangeFrom(policy, WireFieldChange(c)) = c
                          /\ ~HasMisfit(policy, WireFieldChange(c))
                          /\ ~MergePanics(policy, WireFieldChange(c))
<1> DEFINE w == WireFieldChange(c)
<1>1. /\ "new_from_a" \in DOMAIN w <=> c.new_from_a # None
      /\ "new_from_b" \in DOMAIN w <=> c.new_from_b # None
      /\ w.source = SourceOf(c) /\ w.path = c.path /\ w.old_value = c.old_value
      /\ c.new_from_a # None => w["new_from_a"] = c.new_from_a
      /\ c.new_from_b # None => w["new_from_b"] = c.new_from_b
  BY DEF WireFieldChange, Movement, SideKeys
<1> HIDE DEF w
<1>2. SourceKeys(w) = SideKeys \cap DOMAIN w
  BY <1>1 DEF SourceKeys, SideKeys, SourceOf, BothMoved, Movement
<1>3. Consistent(w)
  BY <1>2 DEF Consistent
<1>4. ASSUME NEW policy PROVE FieldChangeFrom(policy, w) = c
  BY <1>1, <1>2 DEF FieldChangeFrom, Movement, SideKeys
<1>5. ASSUME NEW policy PROVE ~HasMisfit(policy, w)
  BY <1>2 DEF HasMisfit
<1>6. QED
  BY <1>3, <1>4, <1>5, CheckedChangeNeverPanics DEF w

\* No export panics: what merge_field would panic of, it refuses.
LEMMA ExportsNeverPanic ==
    ASSUME NEW name \in Exports, NEW args
    PROVE  WireExport(name, args) # Trap
<1>1. Err # Trap /\ \A text : Ok(text) # Trap
  BY DEF Err, Ok, Trap
<1>2. MergeFieldImpl(args[1], args[2], args[3]) # Trap
  <2> DEFINE w      == Parse("change", args[1])
             policy == BuildPolicy(Parse("policy", args[2]), Parse("context", args[3]))
  <2>1. Consistent(w) => ~MergePanics(policy, w)
    BY CheckedChangeNeverPanics
  <2>2. QED
    BY <1>1, <2>1 DEF MergeFieldImpl
<1>3. QED
  BY <1>1, <1>2 DEF WireExport, Exports, ThreeWayDiffImpl, CanonicalJsonImpl, CompareJsonImpl,
                    TransformToCifImpl, IdempotencyKeyHexImpl

\* NeverPanics (KernelCall): no call dies of its arguments, whatever they are.
THEOREM KernelNeverPanics == Spec => []NeverPanics
<1>1. KInv => NeverPanics
  <2> SUFFICES ASSUME KInv, pc = "export", Answer = Trapped PROVE FALSE
    BY DEF NeverPanics, Panics
  <2>1. request \in Requests
    BY DEF KInv, Progress
  <2>2. Compute(request.name, request.args) = Trapped
    BY ArgumentsArrive DEF OwnAnswer
  <2>3. QED
    BY <2>1, <2>2, ExportsNeverPanic, KernelAssumption
<1>2. QED
  BY <1>1, KernelInvariant, PTL

-----------------------------------------------------------------------------
(* The host.                                                               *)

\* The call in progress is the one it was asked for.
AskedOwn ==
    pc # "idle" =>
        \/ asked[1] = "nothing"
        \/ /\ asked[1] = "view" /\ asked[2] \in Sides
           /\ request = ViewRequest(job, asked[2])
        \/ /\ asked[1] = "changelog" /\ views[SideA] # None /\ views[SideB] # None
           /\ request = ChangelogRequest(job, views[SideA], views[SideB])
        \/ /\ asked[1] = "merge" /\ changelog # None
           /\ \E w \in changelog : asked[2] = w.path /\ request = MergeRequest(w)

\* The views are those that an engine gets in process.
ViewsOwn ==
    \A s \in Sides : views[s] # None => views[s] = ViewOf(job, s) /\ ViewOf(job, s) # NoCif

\* The changes are the engine's, as they are on the wire.
ChangelogOwn ==
    changelog # None => /\ Comparable(job)
                        /\ changelog = {WireFieldChange(c) : c \in ChangesOf(job)}

\* Each outcome is what the declared policy makes of one of them.
DecidedOwn ==
    \A path \in DOMAIN decided :
        \E c \in ChangesOf(job) :
            /\ c.path = path
            /\ decided[path] = Outcome(Resolve(BuildPolicy(DeclarationFor(path), Context), c))

HInv ==
    /\ KInv
    /\ job \in Jobs
    /\ AskedOwn
    /\ ViewsOwn
    /\ ChangelogOwn
    /\ DecidedOwn

\* A call of the host is one that the kernel serves.
LEMMA HostCallsKernel ==
    ASSUME HInv, HostNext
    PROVE  Next
<1>1. job \in Jobs /\ JobRequests(job) \subseteq Requests /\ Probes \subseteq Requests
  BY KernelAssumption DEF HInv
<1>2. CASE \E s \in Sides : AskView(s)
  <2>1. PICK s \in Sides : Call(ViewRequest(job, s))
    BY <1>2 DEF AskView, Ask
  <2>2. ViewRequest(job, s) \in Requests
    BY <1>1 DEF JobRequests
  <2>3. QED
    BY <2>1, <2>2 DEF Next
<1>3. CASE AskChangelog
  <2>1. /\ Call(ChangelogRequest(job, views[SideA], views[SideB]))
        /\ views[SideA] # None /\ views[SideB] # None
    BY <1>3 DEF AskChangelog, Ask, Sides
  <2>2. /\ Comparable(job)
        /\ views[SideA] = ViewOf(job, SideA) /\ views[SideB] = ViewOf(job, SideB)
    BY <2>1 DEF HInv, ViewsOwn, Comparable, Sides
  <2>3. ChangelogRequest(job, views[SideA], views[SideB]) \in Requests
    BY <1>1, <2>2 DEF JobRequests
  <2>4. QED
    BY <2>1, <2>3 DEF Next
<1>4. CASE AskMerge
  <2>1. PICK w \in changelog : changelog # None /\ Call(MergeRequest(w))
    BY <1>4 DEF AskMerge, Ask
  <2>2. PICK c \in ChangesOf(job) : Comparable(job) /\ w = WireFieldChange(c)
    BY <2>1 DEF HInv, ChangelogOwn
  <2>3. MergeRequest(w) \in Requests
    BY <1>1, <2>2 DEF JobRequests
  <2>4. QED
    BY <2>1, <2>3 DEF Next
<1>5. CASE Probe
  BY <1>1, <1>5 DEF Probe, Ask, Next
<1>6. CASE Proceed
  BY <1>6 DEF Proceed, Next
<1>7. QED
  BY <1>2, <1>3, <1>4, <1>5, <1>6 DEF HostNext

\* What the exports answer to the host, if they do not refuse.
LEMMA ViewAnswer ==
    ASSUME NEW j, NEW s, NEW answer,
           answer = WireExport(ViewRequest(j, s).name, ViewRequest(j, s).args), answer[1] = "ok"
    PROVE  answer[2][2] = ViewOf(j, s) /\ ViewOf(j, s) # NoCif
<1> DEFINE args == ViewRequest(j, s).args
<1>1. /\ ViewRequest(j, s).name = "df_transform_to_cif"
      /\ DOMAIN args = 1..3
      /\ args[1] = <<"value", j.native[s]>> /\ args[2] = <<"schema", CifSchema>>
      /\ args[3] = <<"plain", Formats[s]>>
  BY DEF ViewRequest, JsonText, PlainText
<1> HIDE DEF args
<1>2. ~\E i \in DOMAIN args : args[i][1] = "binary"
  BY <1>1
<1>3. answer = TransformToCifImpl(args[1], args[2], args[3])
  BY <1>1, <1>2 DEF WireExport, args
<1>4. Parse("value", args[1]) = j.native[s] /\ Parse("schema", args[2]) = CifSchema
  BY <1>1 DEF Parse
<1>5. args[3][2] = Formats[s]
  BY <1>1
<1>6. Err[1] # "ok" /\ \A v : Ok(JsonText(v))[2][2] = v
  BY DEF Err, Ok, JsonText
<1>7. QED
  BY <1>3, <1>4, <1>5, <1>6 DEF TransformToCifImpl, ViewOf

LEMMA ChangelogAnswer ==
    ASSUME NEW j, NEW a, NEW b, NEW answer,
           answer = WireExport(ChangelogRequest(j, a, b).name, ChangelogRequest(j, a, b).args),
           answer[1] = "ok"
    PROVE  answer[2][2] = {WireFieldChange(c) : c \in Diff(j.ancestor, a, b)}
<1> DEFINE args == ChangelogRequest(j, a, b).args
<1>1. /\ ChangelogRequest(j, a, b).name = "df_three_way_diff"
      /\ DOMAIN args = 1..3
      /\ args[1] = <<"value", j.ancestor>> /\ args[2] = <<"value", a>> /\ args[3] = <<"value", b>>
  BY DEF ChangelogRequest, JsonText
<1> HIDE DEF args
<1>2. ~\E i \in DOMAIN args : args[i][1] = "binary"
  BY <1>1
<1>3. answer = ThreeWayDiffImpl(args[1], args[2], args[3])
  BY <1>1, <1>2 DEF WireExport, args
<1>4. /\ Parse("value", args[1]) = j.ancestor
      /\ Parse("value", args[2]) = a /\ Parse("value", args[3]) = b
  BY <1>1 DEF Parse
<1>5. Err[1] # "ok" /\ \A v : Ok(<<"changes", v>>)[2][2] = v
  BY DEF Err, Ok
<1>6. QED
  BY <1>3, <1>4, <1>5 DEF ThreeWayDiffImpl

LEMMA MergeAnswer ==
    ASSUME NEW c, Movement(c), NEW answer,
           answer = WireExport(MergeRequest(WireFieldChange(c)).name,
                               MergeRequest(WireFieldChange(c)).args),
           answer[1] = "ok"
    PROVE  answer[2][2] = Outcome(Resolve(BuildPolicy(DeclarationFor(c.path), Context), c))
<1> DEFINE w == WireFieldChange(c)
           args == MergeRequest(w).args
<1>1. /\ MergeRequest(w).name = "df_merge_field"
      /\ DOMAIN args = 1..3
      /\ args[1] = <<"change", w>> /\ args[2] = <<"policy", DeclarationFor(w.path)>>
      /\ args[3] = <<"context", Context>>
  BY DEF MergeRequest
<1>2. w.path = c.path /\ \A policy : MergeWire(policy, w) = Resolve(policy, c)
  <2>1. w.path = c.path
    BY DEF WireFieldChange
  <2>2. QED
    BY <2>1, WireKeepsChanges DEF MergeWire
<1> HIDE DEF args, w
<1>3. ~\E i \in DOMAIN args : args[i][1] = "binary"
  BY <1>1
<1>4. answer = MergeFieldImpl(args[1], args[2], args[3])
  BY <1>1, <1>3 DEF WireExport, args, w
<1>5. /\ Parse("change", args[1]) = w /\ Parse("policy", args[2]) = DeclarationFor(w.path)
      /\ Parse("context", args[3]) = Context
  BY <1>1 DEF Parse
<1>6. Err[1] # "ok" /\ Trap[1] # "ok" /\ \A v : Ok(<<"outcome", v>>)[2][2] = v
  BY DEF Err, Trap, Ok
<1>7. QED
  BY <1>2, <1>4, <1>5, <1>6 DEF MergeFieldImpl

\* While it asks, a host keeps what it has.
LEMMA AskPreserves ==
    ASSUME HInv, KInv', NEW what, NEW r, Ask(what, r),
           \/ what[1] = "nothing"
           \/ what[1] = "view" /\ what[2] \in Sides /\ r = ViewRequest(job, what[2])
           \/ /\ what[1] = "changelog" /\ views[SideA] # None /\ views[SideB] # None
              /\ r = ChangelogRequest(job, views[SideA], views[SideB])
           \/ /\ what[1] = "merge" /\ changelog # None
              /\ \E w \in changelog : what[2] = w.path /\ r = MergeRequest(w)
    PROVE  HInv'
<1>1. /\ asked' = what /\ request' = r
      /\ job' = job /\ views' = views /\ changelog' = changelog /\ decided' = decided
  BY DEF Ask, Call
<1>2. AskedOwn'
  BY <1>1 DEF AskedOwn, ViewRequest, ChangelogRequest
<1>3. ViewsOwn' /\ ChangelogOwn' /\ DecidedOwn'
  BY <1>1 DEF HInv, ViewsOwn, ChangelogOwn, DecidedOwn, Comparable, ChangesOf, ViewOf
<1>4. QED
  BY <1>1, <1>2, <1>3 DEF HInv

\* What the host is answered without an error is the export's answer to what it
\* asked.
LEMMA HostIsAnswered ==
    ASSUME HInv, KernelStep, pc' = "idle", reply'[1] = "ok"
    PROVE  reply' = WireExport(request.name, request.args)
<1>1. pc # "idle"
  BY DEF KernelStep, Alloc, Write, Export, Read, Return, CallFails, ReadFails
<1>2. request \in Requests
  BY <1>1 DEF HInv, KInv, Progress
<1>3. reply' # HostError
  BY KernelAssumption
<1>4. reply' = OwnAnswer
  BY <1>1, <1>3, ReplyIsOwn DEF HInv, Next
<1>5. QED
  BY <1>2, <1>4, KernelAssumption DEF OwnAnswer

\* The host takes an answer for what it asked, and it is the engine's.
LEMMA ProceedPreserves ==
    ASSUME HInv, KInv', Proceed
    PROVE  HInv'
<1>1. KernelStep /\ job' = job /\ job \in Jobs
  BY DEF Proceed, HInv
<1>2. pc # "idle" /\ request' = request
  BY <1>1 DEF KernelStep, Alloc, Write, Export, Read, Return, CallFails, ReadFails, Finish
<1>3. ASSUME NEW kind, Answered(kind)
      PROVE  asked[1] = kind /\ reply'[1] = "ok" /\ reply' = WireExport(request.name, request.args)
  BY <1>1, <1>3, HostIsAnswered DEF Answered
<1>4. AskedOwn'
  <2> SUFFICES ASSUME pc' # "idle" PROVE AskedOwn'
    BY DEF AskedOwn
  <2>1. \A kind : ~Answered(kind)
    BY DEF Answered
  <2>2. asked' = asked /\ changelog' = changelog /\ \A s \in Sides : views'[s] = views[s]
    BY <2>1 DEF Proceed
  <2>3. views'[SideA] = views[SideA] /\ views'[SideB] = views[SideB]
    BY <2>2 DEF Sides
  <2>4. QED
    BY <1>1, <1>2, <2>2, <2>3 DEF HInv, AskedOwn, ViewRequest, ChangelogRequest
<1>5. ViewsOwn'
  <2> SUFFICES ASSUME NEW s \in Sides, views'[s] # None
               PROVE  views'[s] = ViewOf(job, s) /\ ViewOf(job, s) # NoCif
    BY <1>1 DEF ViewsOwn, ViewOf
  <2>1. views'[s] = IF Answered("view") /\ asked[2] = s THEN reply'[2][2] ELSE views[s]
    BY DEF Proceed
  <2>2. CASE Answered("view") /\ asked[2] = s
    <3>1. request = ViewRequest(job, s)
      BY <1>2, <1>3, <2>2 DEF HInv, AskedOwn
    <3>2. QED
      BY <1>3, <2>1, <2>2, <3>1, ViewAnswer
  <2>3. CASE ~(Answered("view") /\ asked[2] = s)
    BY <2>1, <2>3 DEF HInv, ViewsOwn
  <2>4. QED
    BY <2>2, <2>3
<1>6. ChangelogOwn'
  <2>1. changelog' = IF Answered("changelog") THEN reply'[2][2] ELSE changelog
    BY DEF Proceed
  <2>2. CASE Answered("changelog")
    <3>1. /\ views[SideA] # None /\ views[SideB] # None
          /\ request = ChangelogRequest(job, views[SideA], views[SideB])
      BY <1>2, <1>3, <2>2 DEF HInv, AskedOwn
    <3>2. /\ Comparable(job)
          /\ views[SideA] = ViewOf(job, SideA) /\ views[SideB] = ViewOf(job, SideB)
      BY <3>1 DEF HInv, ViewsOwn, Comparable, Sides
    <3>3. changelog' = {WireFieldChange(c) : c \in ChangesOf(job)}
      BY <1>3, <2>1, <2>2, <3>1, <3>2, ChangelogAnswer DEF ChangesOf
    <3>4. QED
      BY <1>1, <3>2, <3>3 DEF ChangelogOwn, Comparable, ChangesOf, ViewOf
  <2>3. CASE ~Answered("changelog")
    BY <1>1, <2>1, <2>3 DEF HInv, ChangelogOwn, Comparable, ChangesOf, ViewOf
  <2>4. QED
    BY <2>2, <2>3
<1>7. DecidedOwn'
  <2>1. decided' = IF Answered("merge") THEN WithOutcome(asked[2], reply'[2][2]) ELSE decided
    BY DEF Proceed
  <2>2. CASE Answered("merge")
    <3>1. PICK w \in changelog : /\ changelog # None /\ asked[2] = w.path
                                 /\ request = MergeRequest(w)
      BY <1>2, <1>3, <2>2 DEF HInv, AskedOwn
    <3>2. PICK c \in ChangesOf(job) : Comparable(job) /\ w = WireFieldChange(c)
      BY <3>1 DEF HInv, ChangelogOwn
    <3>3. Movement(c)
      BY <1>1, <3>2, CoreAssumption
    <3>4. w.path = c.path
      BY <3>2 DEF WireFieldChange
    <3>5. reply'[2][2] = Outcome(Resolve(BuildPolicy(DeclarationFor(c.path), Context), c))
      BY <1>3, <2>2, <3>1, <3>2, <3>3, MergeAnswer
    <3>6. /\ DOMAIN decided' = DOMAIN decided \cup {c.path}
          /\ decided'[c.path] = reply'[2][2]
          /\ \A p \in DOMAIN decided \ {c.path} : decided'[p] = decided[p]
      BY <2>1, <2>2, <3>1, <3>4 DEF WithOutcome
    <3>7. QED
      BY <1>1, <3>5, <3>6 DEF HInv, DecidedOwn, ChangesOf, ViewOf
  <2>3. CASE ~Answered("merge")
    BY <1>1, <2>1, <2>3 DEF HInv, DecidedOwn, ChangesOf, ViewOf
  <2>4. QED
    BY <2>2, <2>3
<1>8. QED
  BY <1>1, <1>4, <1>5, <1>6, <1>7 DEF HInv

\* A host has nothing yet.
LEMMA HostInitEstablishes == HostInit => HInv
  BY KernelInit DEF HostInit, Init, HInv, AskedOwn, ViewsOwn, ChangelogOwn, DecidedOwn, Sides

\* Every step of the host keeps its invariant.
LEMMA HostStepPreserves == HInv /\ [HostNext]_<<kvars, hvars>> => HInv'
<1> SUFFICES ASSUME HInv, [HostNext]_<<kvars, hvars>> PROVE HInv'
  OBVIOUS
<1>1. KInv'
  BY HostCallsKernel, KernelStepPreserves DEF HInv
<1>2. CASE \E s \in Sides : AskView(s)
  <2>1. PICK s \in Sides : Ask(<<"view", s>>, ViewRequest(job, s))
    BY <1>2 DEF AskView
  <2>2. QED
    BY <1>1, <2>1, AskPreserves
<1>3. CASE AskChangelog
  <2>1. /\ Ask(<<"changelog", 0>>, ChangelogRequest(job, views[SideA], views[SideB]))
        /\ views[SideA] # None /\ views[SideB] # None
    BY <1>3 DEF AskChangelog, Sides
  <2>2. QED
    BY <1>1, <2>1, AskPreserves
<1>4. CASE AskMerge
  <2>1. PICK w \in changelog : changelog # None /\ Ask(<<"merge", w.path>>, MergeRequest(w))
    BY <1>4 DEF AskMerge
  <2>2. QED
    BY <1>1, <2>1, AskPreserves
<1>5. CASE Probe
  <2>1. PICK r \in Probes : Ask(<<"nothing", 0>>, r)
    BY <1>5 DEF Probe
  <2>2. QED
    BY <1>1, <2>1, AskPreserves
<1>6. CASE Proceed
  BY <1>1, <1>6, ProceedPreserves
<1>7. CASE UNCHANGED <<kvars, hvars>>
  BY <1>1, <1>7 DEF kvars, hvars, HInv, AskedOwn, ViewsOwn, ChangelogOwn, DecidedOwn,
                    Comparable, ChangesOf, ViewOf
<1>8. QED
  BY <1>2, <1>3, <1>4, <1>5, <1>6, <1>7 DEF HostNext

\* The inductive invariant of the host holds throughout.
LEMMA HostInvariant == HostSpec => []HInv
  BY HostInitEstablishes, HostStepPreserves, PTL DEF HostSpec

\* A host makes only calls that the kernel serves, one at a time, and what it keeps
\* of the answers does not disturb them: whatever holds of a kernel call holds in
\* this host.
THEOREM HostUsesKernel == HostSpec => Spec
<1>1. HostInit => Init
  BY DEF HostInit
<1>2. HInv /\ [HostNext]_<<kvars, hvars>> => [Next]_kvars
  BY HostCallsKernel DEF kvars
<1>3. QED
  BY <1>1, <1>2, HostInvariant, PTL DEF HostSpec, Spec

\* HostDecidesAsEngine (KernelHost): a host behind the wire sees the changes an
\* engine sees and decides each of them alike, whatever its documents and policies,
\* whatever traps and in whatever order it asks; if its policy document builds the
\* map that the engine was given.
THEOREM HostDecides ==
    ASSUME LoadedMap(Document, Context) = EngineMap
    PROVE  HostSpec => []HostDecidesAsEngine
<1>1. \A path : Lookup(EngineMap, path) = BuildPolicy(DeclarationFor(path), Context)
  BY CoreAssumption DEF Lookup, DeclarationFor
<1>2. HInv => HostDecidesAsEngine
  <2> SUFFICES ASSUME HInv PROVE HostDecidesAsEngine
    OBVIOUS
  <2>1. \A c : WireFieldChange(c).path = c.path
    BY DEF WireFieldChange
  <2>2. changelog # None => {w.path : w \in changelog} = {c.path : c \in ChangesOf(job)}
    BY <2>1 DEF HInv, ChangelogOwn
  <2>3. ASSUME NEW path \in DOMAIN decided
        PROVE  \E c \in ChangesOf(job) :
                   c.path = path /\ decided[path] = Outcome(Resolve(Lookup(EngineMap, path), c))
    BY <1>1, <2>3 DEF HInv, DecidedOwn
  <2>4. QED
    BY <2>2, <2>3 DEF HostDecidesAsEngine
<1>3. QED
  BY <1>2, HostInvariant, PTL
=============================================================================
