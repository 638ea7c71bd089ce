------------------------- MODULE FilesystemAncestor -------------------------
(***************************************************************************)
(* FilesystemAncestorStore (core/src/adapters/filesystem_ancestor.rs): a   *)
(* put writes <path>.json.tmp, syncs it and renames it over <path>.json.   *)
(* The temporary name depends on the path alone, so two puts of one path   *)
(* share the temporary file: File::create truncates the file the other is  *)
(* writing, and a descriptor that is open goes on writing to the same file *)
(* under its new name after the rename.                                    *)
(*                                                                         *)
(* Files are inodes under names.  write_all may take several writes: the   *)
(* bytes of an entry are Chunks pieces, and a file parses when it holds    *)
(* all the pieces of one payload and nothing else.                         *)
(***************************************************************************)
EXTENDS Integers, Sequences, FiniteSets

CONSTANTS
    Keys,           \* AncestorKey: [type, id], the type a sequence of characters
    Entries,        \* AncestorEntry
    Allowed,        \* the characters sanitize leaves alone, "_" among them
    Writers,        \* threads that put
    Readers,        \* threads that get
    Chunks,         \* how many writes it takes to write an entry
    Inodes,         \* as many files as may exist at once
    Exclusive,      \* the paths of which the infrastructure runs one put at a time
    MaxPuts,        \* bound on the puts
    MaxFaults,      \* bound on failures
    None

ASSUME ChunksAssumption == Chunks \in Nat \ {0}
ASSUME NoneAssumption == None \notin Inodes \cup [key : Keys, entry : Entries]

VARIABLES
    content,    \* per inode, its bytes: a sequence of chunks
    synced,     \* the inodes whose bytes are on the disk
    file,       \* per path, the inode under <path>.json, or None
    tmp,        \* per path, the inode under <path>.json.tmp, or None
    old,        \* per path, the inode a loss of power may bring back
    put,        \* per writer, the put in progress
    alone,      \* history: the writers whose put no other put of its path has
                \* overlapped so far
    get,        \* per reader, the get in progress
    got,        \* per reader, what its last get returned
    puts,       \* puts so far
    faults      \* failures so far

vars == <<content, synced, file, tmp, old, put, alone, get, got, puts, faults>>

-----------------------------------------------------------------------------
\* Mutant: the entity type is not part of the path.
PathOfId(k) == <<k.id>>

\* Whatever is not allowed becomes "_": types that differ there come out the same.
Sanitize(raw) ==
    IF raw = <<>> THEN <<"_">>
    ELSE [i \in DOMAIN raw |-> IF raw[i] \in Allowed THEN raw[i] ELSE "_"]

\* The id is hashed, which does not collide; the type is sanitized, which may.
PathFor(k) == <<Sanitize(k.type), k.id>>

Paths == {PathFor(k) : k \in Keys}

\* The on-disk form carries the key beside the entry.
Payload == [key : Keys, entry : Entries]

Bytes(p) == [i \in 1..Chunks |-> <<p, i>>]

\* A file truncated by one writer and continued by another has a gap of zeros.
Gap == <<None, 0>>

Parses(bytes) == \E p \in Payload : bytes = Bytes(p)

Parsed(bytes) == CHOOSE p \in Payload : bytes = Bytes(p)

Idle == [step |-> "idle", key |-> None, entry |-> None, fd |-> None, written |-> 0]
NotReading == [step |-> "idle", key |-> None, fd |-> None]

\* Inodes that a name or a descriptor still holds.
InUse == ({file[p] : p \in Paths} \cup {tmp[p] : p \in Paths} \cup {old[p] : p \in Paths}
          \cup {put[w].fd : w \in Writers} \cup {get[r].fd : r \in Readers}) \ {None}

FreeInode == CHOOSE i \in Inodes \ InUse : TRUE

Putting == {w \in Writers : put[w].step # "idle"}

WriterPath(w) == PathFor(put[w].key)

Init ==
    /\ content = [i \in Inodes |-> <<>>]
    /\ synced  = {}
    /\ file    = [p \in Paths |-> None]
    /\ tmp     = [p \in Paths |-> None]
    /\ old     = [p \in Paths |-> None]
    /\ put     = [w \in Writers |-> Idle]
    /\ alone   = {}
    /\ get     = [r \in Readers |-> NotReading]
    /\ got     = [r \in Readers |-> None]
    /\ puts    = 0
    /\ faults  = 0

-----------------------------------------------------------------------------
(* put.                                                                    *)

StartPut(w) ==
    \E k \in Keys, e \in Entries :
        LET rivals == {v \in Putting : WriterPath(v) = PathFor(k)}
        IN  /\ put[w].step = "idle"
            /\ puts < MaxPuts
            /\ PathFor(k) \in Exclusive => rivals = {}
            /\ put' = [put EXCEPT ![w] = [step |-> "create", key |-> k, entry |-> e,
                                         fd |-> None, written |-> 0]]
            /\ alone' = IF rivals = {} THEN alone \cup {w} ELSE alone \ rivals
            /\ puts' = puts + 1
            /\ UNCHANGED <<content, synced, file, tmp, old, get, got, faults>>

\* Mutant: the entry is written in place.
CreateInPlace(w) ==
    LET path  == WriterPath(w)
        inode == IF file[path] = None THEN FreeInode ELSE file[path]
    IN  /\ put[w].step = "create"
        /\ file[path] # None \/ Inodes \ InUse # {}
        /\ content' = [content EXCEPT ![inode] = <<>>]
        /\ synced'  = synced \ {inode}
        /\ tmp'     = [tmp EXCEPT ![path] = inode]
        /\ put'     = [put EXCEPT ![w] = [@ EXCEPT !.step = "write", !.fd = inode]]
        /\ UNCHANGED <<file, old, alone, get, got, puts, faults>>

\* Mutant: the old file is removed first.
CreateAfterRemove(w) ==
    LET path  == WriterPath(w)
        inode == IF tmp[path] = None THEN FreeInode ELSE tmp[path]
    IN  /\ put[w].step = "create"
        /\ tmp[path] # None \/ Inodes \ InUse # {}
        /\ content' = [content EXCEPT ![inode] = <<>>]
        /\ synced'  = synced \ {inode}
        /\ tmp'     = [tmp EXCEPT ![path] = inode]
        /\ file'    = [file EXCEPT ![path] = None]
        /\ put'     = [put EXCEPT ![w] = [@ EXCEPT !.step = "write", !.fd = inode]]
        /\ UNCHANGED <<old, alone, get, got, puts, faults>>

\* Mutant: a temporary file that is there is continued, not truncated.
CreateOrContinue(w) ==
    LET path  == WriterPath(w)
        inode == IF tmp[path] = None THEN FreeInode ELSE tmp[path]
        done  == IF tmp[path] = None THEN 0 ELSE Len(content[inode])
    IN  /\ put[w].step = "create"
        /\ tmp[path] # None \/ Inodes \ InUse # {}
        /\ content' = [content EXCEPT ![inode] = IF tmp[path] = None THEN <<>> ELSE @]
        /\ synced'  = synced \ {inode}
        /\ tmp'     = [tmp EXCEPT ![path] = inode]
        /\ put'     = [put EXCEPT ![w].step = IF done < Chunks THEN "write" ELSE "sync",
                                  ![w].written = done, ![w].fd = inode]
        /\ UNCHANGED <<file, old, alone, get, got, puts, faults>>

\* File::create: truncates the temporary file if there is one.
CreateTmp(w) ==
    LET path  == WriterPath(w)
        inode == IF tmp[path] = None THEN FreeInode ELSE tmp[path]
    IN  /\ put[w].step = "create"
        /\ tmp[path] # None \/ Inodes \ InUse # {}
        /\ content' = [content EXCEPT ![inode] = <<>>]
        /\ synced'  = synced \ {inode}
        /\ tmp'     = [tmp EXCEPT ![path] = inode]
        /\ put'     = [put EXCEPT ![w] = [@ EXCEPT !.step = "write", !.fd = inode]]
        /\ UNCHANGED <<file, old, alone, get, got, puts, faults>>

\* One write of write_all, at the descriptor's own offset.
WriteChunk(w) ==
    LET at    == put[w].written + 1
        bytes == content[put[w].fd]
        piece == <<[key |-> put[w].key, entry |-> put[w].entry], at>>
        size  == IF Len(bytes) < at THEN at ELSE Len(bytes)
    IN  /\ put[w].step = "write"
        /\ content' = [content EXCEPT ![put[w].fd] =
                         [i \in 1..size |-> CASE i = at           -> piece
                                              [] i \in DOMAIN bytes /\ i # at -> bytes[i]
                                              [] OTHER            -> Gap]]
        /\ synced' = synced \ {put[w].fd}
        /\ put' = [put EXCEPT ![w] = [@ EXCEPT !.written = at,
                                             !.step = IF at = Chunks THEN "sync" ELSE "write"]]
        /\ UNCHANGED <<file, tmp, old, alone, get, got, puts, faults>>

\* Mutant: sync_all is not called.
CloseUnsynced(w) ==
    /\ put[w].step = "sync"
    /\ put' = [put EXCEPT ![w] = [@ EXCEPT !.step = "rename", !.fd = None]]
    /\ UNCHANGED <<content, synced, file, tmp, old, alone, get, got, puts, faults>>

SyncAll(w) ==
    /\ put[w].step = "sync"
    /\ synced' = synced \cup {put[w].fd}
    /\ put' = [put EXCEPT ![w] = [@ EXCEPT !.step = "rename", !.fd = None]]
    /\ UNCHANGED <<content, file, tmp, old, alone, get, got, puts, faults>>

\* rename moves whatever is under the temporary name now.
Rename(w) ==
    LET path == WriterPath(w)
    IN  /\ put[w].step = "rename"
        /\ tmp[path] # None
        /\ file' = [file EXCEPT ![path] = tmp[path]]
        /\ tmp'  = [tmp EXCEPT ![path] = None]
        /\ put'  = [put EXCEPT ![w] = Idle]
        /\ alone' = alone \ {w}
        /\ UNCHANGED <<content, synced, old, get, got, puts, faults>>

\* The other writer has renamed it away: put returns an error.
RenameNotFound(w) ==
    /\ put[w].step = "rename"
    /\ tmp[WriterPath(w)] = None
    /\ put' = [put EXCEPT ![w] = Idle]
    /\ alone' = alone \ {w}
    /\ UNCHANGED <<content, synced, file, tmp, old, get, got, puts, faults>>

\* create, write, sync or rename fails, or the thread dies: the temporary
\* file stays as it is.
FailPut(w) ==
    /\ faults < MaxFaults
    /\ put[w].step # "idle"
    /\ put' = [put EXCEPT ![w] = Idle]
    /\ alone' = alone \ {w}
    /\ faults' = faults + 1
    /\ UNCHANGED <<content, synced, file, tmp, old, get, got, puts>>

-----------------------------------------------------------------------------
(* get: fs::read opens the file and reads it, then the bytes are parsed.   *)

OpenForRead(r) ==
    \E k \in Keys :
        /\ get[r].step = "idle"
        /\ file[PathFor(k)] # None
        /\ get' = [get EXCEPT ![r] = [step |-> "read", key |-> k, fd |-> file[PathFor(k)]]]
        /\ got' = [got EXCEPT ![r] = None]
        /\ UNCHANGED <<content, synced, file, tmp, old, put, alone, puts, faults>>

\* The stored key is not compared with the key that was asked for.
ReadAndParse(r) ==
    LET bytes == content[get[r].fd]
    IN  /\ get[r].step = "read"
        /\ got' = [got EXCEPT ![r] =
                     [asked |-> get[r].key,
                      found |-> IF Parses(bytes) THEN Parsed(bytes) ELSE None]]
        /\ get' = [get EXCEPT ![r] = NotReading]
        /\ UNCHANGED <<content, synced, file, tmp, old, put, alone, puts, faults>>

-----------------------------------------------------------------------------
(* The machine.                                                            *)

\* The operating system writes the directory back.
SettleDirectory(p) ==
    /\ old[p] # file[p]
    /\ old' = [old EXCEPT ![p] = file[p]]
    /\ UNCHANGED <<content, synced, file, tmp, put, alone, get, got, puts, faults>>

Unsynced == {i \in InUse \ synced : content[i] # <<>>}

Prefix(bytes, n) == [i \in {j \in DOMAIN bytes : j <= n} |-> bytes[i]]

\* Nothing syncs the directory: a rename may be lost, and so may the tail of
\* any file that was not synced.
PowerLoss ==
    /\ faults < MaxFaults
    /\ file' \in [Paths -> Inodes \cup {None}]
    /\ \A p \in Paths : file'[p] \in {file[p], old[p]}
    /\ old' = file'
    /\ tmp' = [p \in Paths |-> IF tmp[p] = file'[p] THEN None ELSE tmp[p]]
    /\ \E kept \in [Unsynced -> 0..Chunks] :
          content' = [i \in Inodes |->
                        IF i \in Unsynced THEN Prefix(content[i], kept[i]) ELSE content[i]]
    /\ put' = [w \in Writers |-> Idle]
    /\ alone' = {}
    /\ get' = [r \in Readers |-> NotReading]
    /\ got' = [r \in Readers |-> None]
    /\ faults' = faults + 1
    /\ UNCHANGED <<synced, puts>>

Next ==
    \/ \E w \in Writers :
          StartPut(w) \/ CreateTmp(w) \/ WriteChunk(w) \/ SyncAll(w)
          \/ Rename(w) \/ RenameNotFound(w) \/ FailPut(w)
    \/ \E r \in Readers : OpenForRead(r) \/ ReadAndParse(r)
    \/ \E p \in Paths : SettleDirectory(p)
    \/ PowerLoss

Spec == Init /\ [][Next]_vars

-----------------------------------------------------------------------------
(* Properties.                                                             *)

Whole(p) == file[p] # None => Parses(content[file[p]])

\* "The store must never observe partial state" (the module's header): a file
\* under its final name always parses, after any failure and loss of power.
NeverPartial == \A p \in Paths : Whole(p)

\* So it is for a path whose puts the infrastructure runs one at a time,
\* whatever overlapping puts do to the other paths.
NeverPartialIfExclusive == \A p \in Paths \cap Exclusive : Whole(p)

\* A put that no other put of the same path overlaps leaves its own entry under
\* the final name, whatever overlapping or failed puts have left behind.
StoresItsEntry(w) ==
    put[w].step = "rename" /\ put'[w] = Idle /\ w \in alone /\ faults' = faults
       => /\ file'[WriterPath(w)] # None
          /\ content[file'[WriterPath(w)]] = Bytes([key |-> put[w].key, entry |-> put[w].entry])

LonePutRepairs == [][\A w \in Writers : StoresItsEntry(w)]_vars

\* A get that found the file of an exclusive path returns a whole entry,
\* however the file is replaced between its open and its read.
GetReturnsWhole ==
    \A r \in Readers :
        got[r] # None /\ PathFor(got[r].asked) \in Exclusive => got[r].found # None

\* Keys that sanitize does not tell apart.
Collides(k) == \E l \in Keys \ {k} : l.id = k.id /\ Sanitize(l.type) = Sanitize(k.type)

\* "entity_type keeps different canonical shapes in the same store from
\* colliding" (ports/ancestor.rs): a get returns an entry put under its key.
TypesKeptApart ==
    \A r \in Readers :
        got[r] # None /\ got[r].found # None => got[r].found.key = got[r].asked

\* The store keeps that of the types sanitize tells apart: however puts of other
\* keys overlap, fail and lose their files to a rename or a loss of power, what a
\* get of such a key finds was put under it.
GetReturnsOwnEntry ==
    \A r \in Readers :
        got[r] # None /\ got[r].found # None /\ ~Collides(got[r].asked)
           => got[r].found.key = got[r].asked

\* The abstract store: what the files under the final names say.
Stored(inode) == IF inode = None THEN None ELSE Parsed(content[inode]).entry

ExclusiveKeys == {k \in Keys : PathFor(k) \in Exclusive}

Abstract == INSTANCE AncestorStore WITH
    Keys    <- ExclusiveKeys,
    entry   <- [k \in ExclusiveKeys |-> Stored(file[PathFor(k)])],
    settled <- [k \in ExclusiveKeys |-> Stored(old[PathFor(k)])]

\* The files of the exclusive paths implement the port's atomic register: a put
\* takes effect as a whole, at the rename.
ImplementsAncestorStore == Abstract!ASpec
=============================================================================
