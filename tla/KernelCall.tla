----------------------------- MODULE KernelCall -----------------------------
(***************************************************************************)
(* A call of the WASM kernel by a Go host: call of                         *)
(* sdk/golang/kernel/kernel.go against df_alloc, df_dealloc and an export  *)
(* of core/src/drivers/wasip1.rs.  The arguments and the answer cross in   *)
(* buffers of the guest's memory that the host has to free.  A Kernel      *)
(* serves one goroutine, so calls do not overlap; but the guest may trap   *)
(* at any of its steps, df_dealloc included, and stays in use afterwards.  *)
(***************************************************************************)
EXTENDS Integers, Sequences

CONSTANTS
    Requests,           \* the calls of the host: [name, args]
    Texts,              \* what the arguments and the envelopes may be
    Compute(_, _),      \* the answer of an export to its arguments, or Trapped
    Size(_),            \* the length of a text in bytes
    Envelope(_),        \* the text the guest makes of an answer
    Unwrap(_),          \* what the host makes of the envelope it read
    EmptyText,          \* the only text of no bytes
    Zeroed,             \* the bytes of a new buffer
    HostError,          \* an error of the host, not an answer of the guest
    Trapped,            \* the export panics
    Addresses,          \* where df_alloc may put a buffer
    WordSize,           \* 2^32
    MaxTraps            \* bound on failures

ASSUME WordAssumption ==
    /\ WordSize \in Nat
    /\ Addresses \subseteq 1 .. (WordSize - 1)

ASSUME TextsAssumption ==
    /\ EmptyText \in Texts
    /\ \A t \in Texts : /\ Size(t) \in 0 .. (WordSize - 1)
                        /\ Size(t) = 0 <=> t = EmptyText

ASSUME RequestsAssumption ==
    \A r \in Requests :
        /\ r.args \in Seq(Texts)
        /\ r.args # <<>>
        /\ Compute(r.name, r.args) # Trapped =>
              LET e == Envelope(Compute(r.name, r.args))
              IN  e \in Texts /\ e # EmptyText /\ Unwrap(e) = Compute(r.name, r.args)

VARIABLES
    live,       \* the guest's buffers, but for the stranded: address -> [len, bytes]
    pc,         \* the next step of call
    request,    \* the call in progress, or the last one; or none
    argBufs,    \* argBufs of call: [ptr, len]
    out,        \* res[0], the packed pointer and length of the envelope
    raw,        \* the host's copy of the envelope
    reply,      \* what the last call returned, or none
    traps,      \* failures so far
    misfreed,   \* history: df_dealloc was given what is not a buffer, or no longer
    stranded    \* the addresses of the buffers on which df_dealloc trapped

kvars == <<live, pc, request, argBufs, out, raw, reply, traps, misfreed, stranded>>

NoRequest == [name |-> "none", args |-> <<>>]

-----------------------------------------------------------------------------
(* The guest's memory.                                                     *)

Dangling == 1   \* what df_alloc(0) returns: aligned, and no buffer

Held(buf) == buf.len # 0

\* A buffer that is not there yields whatever is in its place.
BytesAt(buf) ==
    CASE ~Held(buf) -> EmptyText
      [] Held(buf) /\ buf.ptr \in DOMAIN live -> live[buf.ptr].bytes
      [] OTHER -> Zeroed

Unused == Addresses \ (DOMAIN live \cup stranded)

Allocated(ptr, len, bytes) ==
    [p \in DOMAIN live \cup {ptr} |->
        IF p = ptr THEN [len |-> len, bytes |-> bytes] ELSE live[p]]

Misfree(bufs) ==
    \E i \in DOMAIN bufs :
        /\ Held(bufs[i])
        /\ \/ bufs[i].ptr \notin DOMAIN live
           \/ live[bufs[i].ptr].len # bufs[i].len
           \/ \E j \in 1 .. (i - 1) : Held(bufs[j]) /\ bufs[j].ptr = bufs[i].ptr

PtrsOf(bufs) == {bufs[i].ptr : i \in {j \in DOMAIN bufs : Held(bufs[j])}}

\* df_dealloc of each; of no bytes it does nothing.  Its errors are dropped: the
\* buffers on which it traps stay where they are, and nobody frees them any more.  The
\* traps of one step, with the fails of its other calls, count as one.
Dealloc(bufs, fails) ==
    \E kept \in SUBSET PtrsOf(bufs) :
        /\ kept # {} => traps < MaxTraps
        /\ traps'    = IF kept = {} THEN traps + fails ELSE traps + 1
        /\ live'     = [p \in DOMAIN live \ PtrsOf(bufs) |-> live[p]]
        /\ stranded' = stranded \cup kept
        /\ misfreed' = (misfreed \/ Misfree(bufs))

\* ptr << 32 | len
Pack(ptr, len) == ptr * WordSize + len

Unpack(word) == [ptr |-> word \div WordSize, len |-> word % WordSize]

-----------------------------------------------------------------------------
Init ==
    /\ live     = <<>>
    /\ pc       = "idle"
    /\ request  = NoRequest
    /\ argBufs  = <<>>
    /\ out      = 0
    /\ raw      = Zeroed
    /\ reply    = HostError
    /\ traps    = 0
    /\ misfreed = FALSE
    /\ stranded = {}

Call(r) ==
    /\ pc = "idle"
    /\ pc'      = "alloc"
    /\ request' = r
    /\ reply'   = HostError
    /\ UNCHANGED <<live, argBufs, out, raw, traps, misfreed, stranded>>

Arg == request.args[Len(argBufs) + 1]

\* df_alloc for the next argument.
Alloc ==
    /\ pc = "alloc"
    /\ IF Size(Arg) = 0
       THEN /\ argBufs' = Append(argBufs, [ptr |-> Dangling, len |-> 0])
            /\ UNCHANGED live
       ELSE \E ptr \in Unused :
            /\ argBufs' = Append(argBufs, [ptr |-> ptr, len |-> Size(Arg)])
            /\ live'    = Allocated(ptr, Size(Arg), Zeroed)
    /\ pc' = "write"
    /\ UNCHANGED <<request, out, raw, reply, traps, misfreed, stranded>>

NewBuf == argBufs[Len(argBufs)]

\* Mutant: the argument goes to the first buffer.
WriteToFirst ==
    /\ pc = "write"
    /\ live' = IF Held(argBufs[1])
               THEN [live EXCEPT ![argBufs[1].ptr].bytes = request.args[Len(argBufs)]]
               ELSE live
    /\ pc'   = IF Len(argBufs) = Len(request.args) THEN "export" ELSE "alloc"
    /\ UNCHANGED <<request, argBufs, out, raw, reply, traps, misfreed, stranded>>

\* Memory().Write of the argument.
Write ==
    /\ pc = "write"
    /\ live' = IF Held(NewBuf)
               THEN [live EXCEPT ![NewBuf.ptr].bytes = request.args[Len(argBufs)]]
               ELSE live
    /\ pc'   = IF Len(argBufs) = Len(request.args) THEN "export" ELSE "alloc"
    /\ UNCHANGED <<request, argBufs, out, raw, reply, traps, misfreed, stranded>>

Answer == Compute(request.name, [i \in DOMAIN argBufs |-> BytesAt(argBufs[i])])

\* The export reads its arguments where they are and returns a new envelope.
Export ==
    LET answer == Answer
        len    == Size(Envelope(answer))
    IN  /\ pc = "export"
        /\ answer # Trapped
        /\ \E ptr \in Unused :
            /\ live' = Allocated(ptr, len, Envelope(answer))
            /\ out'  = Pack(ptr, len)
        /\ pc' = "read"
        /\ UNCHANGED <<request, argBufs, raw, reply, traps, misfreed, stranded>>

\* Mutant: the arguments are freed before the deferred function frees them.
ReadAndFreeAll ==
    /\ pc = "read"
    /\ raw' = BytesAt(Unpack(out))
    /\ Dealloc(<<Unpack(out)>> \o argBufs, 0)
    /\ pc' = "reply"
    /\ UNCHANGED <<request, argBufs, out, reply>>

\* Memory().Read, the copy, and the free of the envelope.
Read ==
    /\ pc = "read"
    /\ raw' = BytesAt(Unpack(out))
    /\ Dealloc(<<Unpack(out)>>, 0)
    /\ pc' = "reply"
    /\ UNCHANGED <<request, argBufs, out, reply>>

\* Mutant: the arguments are freed only on success.
FinishUnlessFailed(answer, others, fails) ==
    /\ pc'      = "idle"
    /\ reply'   = answer
    /\ Dealloc(IF answer = HostError THEN others ELSE others \o argBufs, fails)
    /\ argBufs' = <<>>
    /\ out'     = 0
    /\ raw'     = Zeroed
    /\ UNCHANGED request

\* call returns: the deferred function frees the arguments, after any others.
Finish(answer, others, fails) ==
    /\ pc'      = "idle"
    /\ reply'   = answer
    /\ Dealloc(others \o argBufs, fails)
    /\ argBufs' = <<>>
    /\ out'     = 0
    /\ raw'     = Zeroed
    /\ UNCHANGED request

Return ==
    /\ pc = "reply"
    /\ Finish(Unwrap(raw), <<>>, 0)

-----------------------------------------------------------------------------
(* Failures: the guest is out of memory or of stack, or what it returns is *)
(* out of the range of its memory.                                         *)

\* The export panics on these arguments.
Panics == pc = "export" /\ Answer = Trapped

\* No address is left for the buffer of the next step.
OutOfMemory == pc \in {"alloc", "export"} /\ Unused = {}

\* df_alloc or the export traps, or Write is out of range.
CallFails ==
    /\ pc \in {"alloc", "write", "export"}
    /\ Panics \/ OutOfMemory \/ traps < MaxTraps
    /\ Finish(HostError, <<>>, IF Panics \/ OutOfMemory THEN 0 ELSE 1)

\* Read is out of range; the envelope is freed all the same.
ReadFails ==
    /\ pc = "read"
    /\ traps < MaxTraps
    /\ Finish(HostError, <<Unpack(out)>>, 1)

KernelStep ==
    \/ Alloc \/ Write \/ Export \/ Read \/ Return
    \/ CallFails \/ ReadFails

Next == KernelStep \/ \E r \in Requests : Call(r)

Spec == Init /\ [][Next]_kvars

-----------------------------------------------------------------------------
(* Properties.                                                             *)

\* The buffers of the call in progress are the only ones, but for those on which
\* df_dealloc itself trapped: no other survives a call, however it ended
\* (kernel.go, call: "frees every guest buffer it caused to exist").
NothingLeaks ==
    DOMAIN live = PtrsOf(argBufs) \cup IF pc = "read" THEN {Unpack(out).ptr} ELSE {}

\* No buffer is freed twice, after its owner freed it, or with another length.
FreedOnce == ~misfreed

\* No call dies of its arguments: an export answers or returns an error (wire.rs
\* refuses the changes on which a policy would panic).
NeverPanics == ~Panics

\* What call returns without an error of its own is the answer of its export to
\* its arguments, whatever became of the calls before it.
AnswerIsOwn ==
    [][pc # "idle" /\ pc' = "idle" /\ reply' # HostError
          => reply' = Compute(request.name, request.args)]_kvars
=============================================================================
