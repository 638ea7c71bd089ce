---------------------- MODULE FilesystemAncestorProofs ----------------------
(***************************************************************************)
(* The filesystem store for every set of keys, writers and readers, any    *)
(* number of chunks, puts, failures and losses of power: where puts of a   *)
(* path do not overlap its files implement the port, and a put that ran    *)
(* alone stores its entry, whatever overlapping puts do elsewhere.         *)
(***************************************************************************)
EXTENDS FilesystemAncestor, TLAPS

Piece == (Payload \X (1..Chunks)) \cup {Gap}

Steps == {"idle", "create", "write", "sync", "rename"}

PutState == [step : Steps, key : Keys \cup {None}, entry : Entries \cup {None},
             fd : Inodes \cup {None}, written : 0..Chunks]

GetState == [step : {"idle", "read"}, key : Keys \cup {None}, fd : Inodes \cup {None}]

\* What the record of a put holds at each of its steps.
WellPut(s) ==
    /\ s \in PutState
    /\ s.step # "idle" => s.key \in Keys /\ s.entry \in Entries
    /\ s.step \in {"write", "sync"} => s.fd \in Inodes
    /\ s.step \in {"idle", "create", "rename"} => s.fd = None
    /\ s.step = "create" => s.written = 0
    /\ s.step = "write" => s.written < Chunks
    /\ s.step = "sync" => s.written = Chunks

PutTypeOK ==
    /\ put \in [Writers -> PutState]
    /\ \A w \in Writers : WellPut(put[w])

GetTypeOK ==
    /\ get \in [Readers -> GetState]
    /\ \A r \in Readers :
          IF get[r].step = "read" THEN get[r].key \in Keys /\ get[r].fd \in Inodes
                                  ELSE get[r].fd = None

FilesTypeOK ==
    /\ synced \subseteq Inodes
    /\ file \in [Paths -> Inodes \cup {None}]
    /\ tmp \in [Paths -> Inodes \cup {None}]
    /\ old \in [Paths -> Inodes \cup {None}]

FilesystemTypeOK ==
    /\ content \in [Inodes -> Seq(Piece)]
    /\ FilesTypeOK
    /\ PutTypeOK
    /\ GetTypeOK
    /\ faults \in Nat

-----------------------------------------------------------------------------
(* Lemmas on the operators.                                                *)

\* A key has a path, and the path of a writer that puts is one.
LEMMA PathIsPath ==
    ASSUME NEW k \in Keys
    PROVE  PathFor(k) \in Paths
BY DEF Paths

\* The bytes of a payload are those of no other, and they parse as that payload.
LEMMA BytesParse ==
    ASSUME NEW p \in Payload
    PROVE  Parses(Bytes(p)) /\ Parsed(Bytes(p)) = p
<1>1. ASSUME NEW q \in Payload, Bytes(p) = Bytes(q)
      PROVE  q = p
  <2>1. 1 \in 1..Chunks
    BY ChunksAssumption
  <2>2. Bytes(p)[1] = <<p, 1>> /\ Bytes(q)[1] = <<q, 1>>
    BY <2>1 DEF Bytes
  <2>3. QED
    BY <1>1, <2>2
<1>2. QED
  BY <1>1 DEF Parses, Parsed

\* What parses is an entry under some key.
LEMMA ParsedType ==
    ASSUME NEW bytes, Parses(bytes)
    PROVE  Parsed(bytes) \in Payload /\ bytes = Bytes(Parsed(bytes))
BY DEF Parses, Parsed

\* A free inode is held by no name and no descriptor.
LEMMA FreeInodeIsFree ==
    ASSUME Inodes \ InUse # {}
    PROVE  FreeInode \in Inodes \ InUse
BY DEF FreeInode

\* Writing a piece at an offset of a file makes a file.
LEMMA WrittenType ==
    ASSUME NEW bytes \in Seq(Piece), NEW at \in 1..Chunks, NEW piece \in Piece,
           NEW size \in Nat, size >= Len(bytes), size >= at
    PROVE  [i \in 1..size |-> CASE i = at -> piece
                                [] i \in DOMAIN bytes /\ i # at -> bytes[i]
                                [] OTHER -> Gap] \in Seq(Piece)
<1> DEFINE f == [i \in 1..size |-> CASE i = at -> piece
                                     [] i \in DOMAIN bytes /\ i # at -> bytes[i]
                                     [] OTHER -> Gap]
<1>1. \A i \in DOMAIN bytes : bytes[i] \in Piece
  OBVIOUS
<1>2. Gap \in Piece
  BY DEF Piece
<1>3. \A i \in 1..size : f[i] \in Piece
  BY <1>1, <1>2
<1>4. f \in [1..size -> Piece]
  BY <1>3
<1>5. QED
  BY <1>4

\* A prefix of a file is a file.
LEMMA PrefixType ==
    ASSUME NEW bytes \in Seq(Piece), NEW n \in Nat
    PROVE  Prefix(bytes, n) \in Seq(Piece)
<1>1. PICK len \in Nat : DOMAIN bytes = 1..len
  OBVIOUS
<1> DEFINE m == IF n < len THEN n ELSE len
<1>2. m \in Nat /\ {j \in DOMAIN bytes : j <= n} = 1..m
  BY <1>1
<1>3. Prefix(bytes, n) = [i \in 1..m |-> bytes[i]]
  BY <1>2 DEF Prefix
<1>4. \A i \in 1..m : bytes[i] \in Piece
  BY <1>1
<1>5. [i \in 1..m |-> bytes[i]] \in [1..m -> Piece]
  BY <1>4
<1>6. QED
  BY <1>2, <1>3, <1>5

-----------------------------------------------------------------------------
(* Types.                                                                  *)

\* The parts of a put that its steps need.
LEMMA PutFacts ==
    ASSUME FilesystemTypeOK, NEW w \in Writers, put[w].step # "idle"
    PROVE  /\ WriterPath(w) \in Paths
           /\ [key |-> put[w].key, entry |-> put[w].entry] \in Payload
BY PathIsPath DEF FilesystemTypeOK, PutTypeOK, WellPut, WriterPath, Payload

\* At first everything is empty.
LEMMA TypeInit ==
    ASSUME Init
    PROVE  FilesystemTypeOK
BY ChunksAssumption
   DEF Init, FilesystemTypeOK, FilesTypeOK, PutTypeOK, WellPut, GetTypeOK, PutState, GetState, Steps,
       Idle, NotReading

\* A writer without a put.
LEMMA IdleIsWell == WellPut(Idle)
BY ChunksAssumption DEF WellPut, PutState, Steps, Idle

\* A step that changes the record of writer w alone, into s.
OnlyPut(w) == \A v \in Writers \ {w} : put'[v] = put[v]

\* The records stay well typed when the one that changes does.
LEMMA PutKept ==
    ASSUME FilesystemTypeOK, NEW w \in Writers, OnlyPut(w),
           put' \in [Writers -> PutState], WellPut(put'[w])
    PROVE  PutTypeOK'
<1>1. ASSUME NEW v \in Writers
      PROVE  WellPut(put'[v])
  BY DEF OnlyPut, FilesystemTypeOK, PutTypeOK
<1>2. QED
  BY <1>1 DEF PutTypeOK, WellPut

\* What the steps of a put do to the record of the writer.
LEMMA IdleEffect ==
    ASSUME FilesystemTypeOK, NEW w \in Writers, put' = [put EXCEPT ![w] = Idle]
    PROVE  /\ OnlyPut(w)
           /\ put'[w].step = "idle" /\ put'[w].fd = None
           /\ PutTypeOK'
<1>1. put \in [Writers -> PutState] /\ Idle \in PutState
  BY IdleIsWell DEF FilesystemTypeOK, PutTypeOK, WellPut
<1>2. OnlyPut(w) /\ put'[w] = Idle /\ put' \in [Writers -> PutState]
  BY <1>1 DEF OnlyPut
<1>3. QED
  BY <1>2, IdleIsWell, PutKept DEF Idle

\* A put that starts has its key and its entry, and no file yet.
LEMMA StartEffect ==
    ASSUME FilesystemTypeOK, NEW w \in Writers, NEW k \in Keys, NEW e \in Entries,
           put' = [put EXCEPT ![w] = [step |-> "create", key |-> k, entry |-> e,
                                      fd |-> None, written |-> 0]]
    PROVE  /\ OnlyPut(w)
           /\ put'[w].step = "create" /\ put'[w].fd = None /\ put'[w].key = k
           /\ PutTypeOK'
<1> DEFINE new == [step |-> "create", key |-> k, entry |-> e, fd |-> None, written |-> 0]
<1>1. put \in [Writers -> PutState] /\ new \in PutState /\ WellPut(new)
  BY ChunksAssumption DEF FilesystemTypeOK, PutTypeOK, WellPut, PutState, Steps
<1>2. new.step = "create" /\ new.fd = None /\ new.key = k
  OBVIOUS
<1>3. put' = [put EXCEPT ![w] = new]
  OBVIOUS
<1> HIDE DEF new
<1>4. OnlyPut(w) /\ put'[w] = new /\ put' \in [Writers -> PutState]
  BY <1>1, <1>3 DEF OnlyPut
<1>5. QED
  BY <1>1, <1>2, <1>4, PutKept

\* A put that has created its temporary file goes on to write.
LEMMA CreateEffect ==
    ASSUME FilesystemTypeOK, NEW w \in Writers, CreateTmp(w)
    PROVE  \E inode \in Inodes :
             /\ put[w].step = "create" /\ WriterPath(w) \in Paths
             /\ inode \notin InUse \/ inode = tmp[WriterPath(w)]
             /\ content' = [content EXCEPT ![inode] = <<>>]
             /\ synced'  = synced \ {inode}
             /\ tmp'     = [tmp EXCEPT ![WriterPath(w)] = inode]
             /\ put'[w].step = "write" /\ put'[w].fd = inode /\ put'[w].written = 0
             /\ put'[w].key = put[w].key /\ put'[w].entry = put[w].entry
             /\ OnlyPut(w) /\ PutTypeOK'
<1> DEFINE inode == IF tmp[WriterPath(w)] = None THEN FreeInode ELSE tmp[WriterPath(w)]
<1>1. put[w].step = "create" /\ WriterPath(w) \in Paths
  BY PutFacts DEF CreateTmp
<1>2. inode \in Inodes /\ (inode \notin InUse \/ inode = tmp[WriterPath(w)])
  BY <1>1, FreeInodeIsFree DEF CreateTmp, FilesystemTypeOK, FilesTypeOK
<1>3. /\ content' = [content EXCEPT ![inode] = <<>>]
      /\ synced'  = synced \ {inode}
      /\ tmp'     = [tmp EXCEPT ![WriterPath(w)] = inode]
      /\ put'     = [put EXCEPT ![w] = [@ EXCEPT !.step = "write", !.fd = inode]]
  BY DEF CreateTmp
<1> HIDE DEF inode
<1>4. put \in [Writers -> PutState] /\ WellPut(put[w]) /\ put[w].written = 0
  BY <1>1 DEF FilesystemTypeOK, PutTypeOK, WellPut
<1>5. /\ put'[w].step = "write" /\ put'[w].fd = inode /\ put'[w].written = 0
      /\ put'[w].key = put[w].key /\ put'[w].entry = put[w].entry
  BY <1>3, <1>4 DEF PutState
<1>6. put' \in [Writers -> PutState] /\ OnlyPut(w)
  BY <1>2, <1>3, <1>4 DEF PutState, Steps, OnlyPut
<1>7. WellPut(put'[w])
  BY <1>1, <1>2, <1>4, <1>5, <1>6, ChunksAssumption DEF WellPut
<1>8. QED
  BY <1>1, <1>2, <1>3, <1>5, <1>6, <1>7, PutKept

\* A write puts the writer's next piece into its file.
LEMMA WriteEffect ==
    ASSUME FilesystemTypeOK, NEW w \in Writers, WriteChunk(w)
    PROVE  LET at    == put[w].written + 1
               bytes == content[put[w].fd]
               piece == <<[key |-> put[w].key, entry |-> put[w].entry], at>>
           IN  /\ put[w].step = "write" /\ put[w].fd \in Inodes
               /\ at \in 1..Chunks /\ piece \in Piece /\ bytes \in Seq(Piece)
               /\ put'[w].step = IF at = Chunks THEN "sync" ELSE "write"
               /\ put'[w].fd = put[w].fd /\ put'[w].written = at
               /\ put'[w].key = put[w].key /\ put'[w].entry = put[w].entry
               /\ OnlyPut(w) /\ PutTypeOK'
               /\ content' \in [Inodes -> Seq(Piece)]
               /\ \A i \in Inodes \ {put[w].fd} : content'[i] = content[i]
               /\ \E size \in Nat :
                     /\ size = IF Len(bytes) < at THEN at ELSE Len(bytes)
                     /\ content'[put[w].fd] = [i \in 1..size |->
                                                  CASE i = at -> piece
                                                    [] i \in DOMAIN bytes /\ i # at -> bytes[i]
                                                    [] OTHER -> Gap]
<1> DEFINE fd    == put[w].fd
           at    == put[w].written + 1
           step  == IF at = Chunks THEN "sync" ELSE "write"
           bytes == content[fd]
           piece == <<[key |-> put[w].key, entry |-> put[w].entry], at>>
           size  == IF Len(bytes) < at THEN at ELSE Len(bytes)
           new   == [i \in 1..size |-> CASE i = at -> piece
                                         [] i \in DOMAIN bytes /\ i # at -> bytes[i]
                                         [] OTHER -> Gap]
<1>1. put[w].step = "write" /\ WellPut(put[w]) /\ put \in [Writers -> PutState]
  BY DEF FilesystemTypeOK, PutTypeOK, WriteChunk
<1>2. fd \in Inodes /\ at \in 1..Chunks /\ bytes \in Seq(Piece)
  BY <1>1, ChunksAssumption DEF FilesystemTypeOK, WellPut, PutState
<1>3. piece \in Piece
  BY <1>1, <1>2, PutFacts DEF Piece
<1>4. size \in Nat /\ size >= at /\ size >= Len(bytes)
  BY <1>2
<1>5. /\ content' = [content EXCEPT ![fd] = new]
      /\ put' = [put EXCEPT ![w] = [@ EXCEPT !.written = at, !.step = step]]
  BY DEF WriteChunk
<1>6. step \in Steps /\ at \in 0..Chunks /\ (step = "write" => at < Chunks)
      /\ (step = "sync" => at = Chunks) /\ step \in {"write", "sync"}
  BY <1>2, ChunksAssumption DEF Steps
<1>7. /\ put'[w].step = step /\ put'[w].fd = fd /\ put'[w].written = at
      /\ put'[w].key = put[w].key /\ put'[w].entry = put[w].entry
      /\ put' \in [Writers -> PutState] /\ OnlyPut(w)
  <2> HIDE DEF at, step
  <2>1. QED
    BY <1>1, <1>5, <1>6 DEF PutState, OnlyPut
<1>8. WellPut(put'[w])
  <2> HIDE DEF at, step
  <2>1. QED
    BY <1>1, <1>2, <1>6, <1>7 DEF WellPut
<1>9. new \in Seq(Piece)
  BY <1>2, <1>3, <1>4, WrittenType
<1>10. /\ content' \in [Inodes -> Seq(Piece)] /\ content'[fd] = new
       /\ \A i \in Inodes \ {fd} : content'[i] = content[i]
  <2> HIDE DEF new
  <2>1. QED
    BY <1>2, <1>5, <1>9 DEF FilesystemTypeOK
<1>11. QED
  BY <1>1, <1>2, <1>3, <1>4, <1>7, <1>8, <1>10, PutKept

\* Syncing marks the file and closes it.
LEMMA SyncEffect ==
    ASSUME FilesystemTypeOK, NEW w \in Writers, SyncAll(w)
    PROVE  /\ put[w].step = "sync" /\ put[w].fd \in Inodes
           /\ put'[w].step = "rename" /\ put'[w].fd = None /\ put'[w].written = put[w].written
           /\ put'[w].key = put[w].key /\ put'[w].entry = put[w].entry
           /\ OnlyPut(w) /\ PutTypeOK'
<1>1. put[w].step = "sync" /\ WellPut(put[w]) /\ put \in [Writers -> PutState]
  BY DEF FilesystemTypeOK, PutTypeOK, SyncAll
<1>2. put' = [put EXCEPT ![w] = [@ EXCEPT !.step = "rename", !.fd = None]]
  BY DEF SyncAll
<1>3. /\ put'[w].step = "rename" /\ put'[w].fd = None /\ put'[w].written = put[w].written
      /\ put'[w].key = put[w].key /\ put'[w].entry = put[w].entry
      /\ put' \in [Writers -> PutState] /\ OnlyPut(w)
  BY <1>1, <1>2 DEF PutState, Steps, OnlyPut
<1>4. put[w].fd \in Inodes /\ WellPut(put'[w])
  BY <1>1, <1>3 DEF WellPut
<1>5. QED
  BY <1>1, <1>3, <1>4, PutKept

\* Every step leaves the state well typed.
LEMMA TypeStep ==
    ASSUME FilesystemTypeOK, [Next]_vars
    PROVE  FilesystemTypeOK'
<1>1. ASSUME NEW w \in Writers, StartPut(w)
      PROVE  FilesystemTypeOK'
  <2>1. PutTypeOK'
    BY <1>1, StartEffect DEF StartPut
  <2>2. QED
    BY <1>1, <2>1 DEF StartPut, FilesystemTypeOK, FilesTypeOK, GetTypeOK
<1>2. ASSUME NEW w \in Writers, CreateTmp(w)
      PROVE  FilesystemTypeOK'
  <2>1. PICK inode \in Inodes :
           /\ content' = [content EXCEPT ![inode] = <<>>]
           /\ synced'  = synced \ {inode}
           /\ tmp'     = [tmp EXCEPT ![WriterPath(w)] = inode]
           /\ PutTypeOK'
    BY <1>2, CreateEffect
  <2>2. content' \in [Inodes -> Seq(Piece)]
    BY <2>1 DEF FilesystemTypeOK
  <2>3. FilesTypeOK'
    <3>1. file' = file /\ old' = old
      BY <1>2 DEF CreateTmp
    <3>2. QED
      BY <2>1, <3>1 DEF FilesystemTypeOK, FilesTypeOK
  <2>4. GetTypeOK' /\ faults' \in Nat
    BY <1>2 DEF CreateTmp, FilesystemTypeOK, GetTypeOK
  <2>5. QED
    BY <2>1, <2>2, <2>3, <2>4 DEF FilesystemTypeOK
<1>3. ASSUME NEW w \in Writers, WriteChunk(w)
      PROVE  FilesystemTypeOK'
  <2>1. PutTypeOK' /\ put[w].fd \in Inodes
    BY <1>3, WriteEffect
  <2>2. content' \in [Inodes -> Seq(Piece)]
    BY <1>3, WriteEffect
  <2>3. QED
    BY <1>3, <2>1, <2>2 DEF WriteChunk, FilesystemTypeOK, FilesTypeOK, GetTypeOK
<1>4. ASSUME NEW w \in Writers, SyncAll(w)
      PROVE  FilesystemTypeOK'
  BY <1>4, SyncEffect DEF SyncAll, FilesystemTypeOK, FilesTypeOK, GetTypeOK
<1>5. ASSUME NEW w \in Writers, Rename(w)
      PROVE  FilesystemTypeOK'
  <2>1. WriterPath(w) \in Paths
    BY <1>5, PutFacts DEF Rename
  <2>2. FilesTypeOK'
    BY <1>5, <2>1 DEF Rename, FilesystemTypeOK, FilesTypeOK
  <2>3. QED
    BY <1>5, <2>2, IdleEffect DEF Rename, FilesystemTypeOK, GetTypeOK
<1>6. ASSUME NEW w \in Writers, RenameNotFound(w) \/ FailPut(w)
      PROVE  FilesystemTypeOK'
  BY <1>6, IdleEffect DEF RenameNotFound, FailPut, FilesystemTypeOK, FilesTypeOK, GetTypeOK
<1>7. ASSUME NEW r \in Readers, OpenForRead(r) \/ ReadAndParse(r)
      PROVE  FilesystemTypeOK'
  <2>1. GetTypeOK'
    <3>1. CASE OpenForRead(r)
      BY <3>1, PathIsPath DEF OpenForRead, FilesystemTypeOK, GetTypeOK, GetState, FilesTypeOK
    <3>2. CASE ReadAndParse(r)
      BY <3>2 DEF ReadAndParse, FilesystemTypeOK, GetTypeOK, GetState, NotReading
    <3>3. QED
      BY <1>7, <3>1, <3>2
  <2>2. QED
    BY <1>7, <2>1 DEF OpenForRead, ReadAndParse, FilesystemTypeOK, FilesTypeOK, PutTypeOK
<1>8. ASSUME NEW p \in Paths, SettleDirectory(p)
      PROVE  FilesystemTypeOK'
  BY <1>8 DEF SettleDirectory, FilesystemTypeOK, FilesTypeOK, PutTypeOK, GetTypeOK
<1>9. CASE PowerLoss
  <2>1. PICK kept \in [Unsynced -> 0..Chunks] :
           content' = [i \in Inodes |->
                         IF i \in Unsynced THEN Prefix(content[i], kept[i]) ELSE content[i]]
    BY <1>9 DEF PowerLoss
  <2>2. ASSUME NEW i \in Inodes
        PROVE  content'[i] \in Seq(Piece)
    <3>1. CASE i \in Unsynced
      <4>1. kept[i] \in Nat
        BY <3>1, ChunksAssumption
      <4>2. QED
        BY <2>1, <3>1, <4>1, PrefixType DEF FilesystemTypeOK
    <3>2. CASE i \notin Unsynced
      BY <2>1, <3>2 DEF FilesystemTypeOK
    <3>3. QED
      BY <3>1, <3>2
  <2>3. content' \in [Inodes -> Seq(Piece)]
    BY <2>1, <2>2
  <2>4. PutTypeOK'
    BY <1>9, IdleIsWell DEF PowerLoss, PutTypeOK, WellPut
  <2>5. GetTypeOK'
    BY <1>9 DEF PowerLoss, GetTypeOK, GetState, NotReading
  <2>6. FilesTypeOK'
    BY <1>9 DEF PowerLoss, FilesystemTypeOK, FilesTypeOK
  <2>7. QED
    BY <1>9, <2>3, <2>4, <2>5, <2>6 DEF PowerLoss, FilesystemTypeOK
<1>10. CASE UNCHANGED vars
  BY <1>10 DEF vars, FilesystemTypeOK, FilesTypeOK, PutTypeOK, GetTypeOK
<1>11. QED
  BY <1>1, <1>2, <1>3, <1>4, <1>5, <1>6, <1>7, <1>8, <1>9, <1>10 DEF Next

-----------------------------------------------------------------------------
(* The inductive invariant.                                                *)

\* Path p can come to inode i by a name or an open descriptor.
Held(p, i) ==
    \/ i \in {file[p], tmp[p], old[p]}
    \/ \E w \in Writers : put[w].fd = i /\ WriterPath(w) = p
    \/ \E r \in Readers : get[r].fd = i /\ PathFor(get[r].key) = p

\* A get of path p may return what inode i holds, now or after a loss of power.
Readable(p, i) ==
    \/ i \in {file[p], old[p]}
    \/ \E r \in Readers : get[r].fd = i /\ PathFor(get[r].key) = p

PayloadOf(w) == [key |-> put[w].key, entry |-> put[w].entry]

\* No inode is held by two paths.
Apart == \A p, q \in Paths, i \in Inodes : Held(p, i) /\ Held(q, i) => p = q

\* What is under a temporary name is nowhere else.
Fresh == \A p \in Paths, i \in Inodes : tmp[p] = i => ~Readable(p, i)

\* The pieces in a file come from puts of its path.
OwnPieces ==
    \A p \in Paths, i \in Inodes :
        Held(p, i) =>
            \A j \in DOMAIN content[i] :
                content[i][j] = Gap \/ PathFor(content[i][j][1].key) = p

\* The history variable says what it should, and holds all the exclusive puts.
AloneIsAlone ==
    /\ alone \subseteq Putting
    /\ \A w \in alone, v \in Putting : v # w => WriterPath(v) # WriterPath(w)
    /\ \A w \in Putting : WriterPath(w) \in Exclusive => w \in alone

\* What a put that runs alone has done: its pieces are all there is in the
\* temporary file, and after the sync they are the entry, on the disk.
Work(w) ==
    LET path == WriterPath(w)
    IN  /\ put[w].step \in {"write", "sync"} =>
              /\ tmp[path] = put[w].fd
              /\ DOMAIN content[put[w].fd] = 1..put[w].written
              /\ \A j \in 1..put[w].written : content[put[w].fd][j] = <<PayloadOf(w), j>>
        /\ put[w].step = "rename" =>
              /\ tmp[path] \in synced
              /\ content[tmp[path]] = Bytes(PayloadOf(w))

Progress == \A w \in alone : Work(w)

\* What a get of an exclusive path may return is whole and on the disk.
Published ==
    \A p \in Paths \cap Exclusive, i \in Inodes :
        Readable(p, i) => i \in synced /\ Parses(content[i])

StoreInvariant ==
    FilesystemTypeOK /\ Apart /\ Fresh /\ OwnPieces /\ AloneIsAlone /\ Progress /\ Published

\* An inode that a path comes to hold it held before, unless it is the free one
\* that a put has just created.
LEMMA HeldInherited ==
    ASSUME FilesystemTypeOK, [Next]_vars, NEW p \in Paths, NEW i \in Inodes, Held(p, i)'
    PROVE  \/ Held(p, i)
           \/ \E w \in Writers : CreateTmp(w) /\ p = WriterPath(w) /\ i \notin InUse /\ content'[i] = <<>>
<1> USE DEF Held, WriterPath
<1>n. None # i
  BY NoneAssumption
<1>1. ASSUME NEW w \in Writers, StartPut(w)
      PROVE  Held(p, i)
  BY <1>1, <1>n, StartEffect DEF StartPut, OnlyPut
<1>2. ASSUME NEW w \in Writers, CreateTmp(w)
      PROVE  Held(p, i) \/ (p = WriterPath(w) /\ i \notin InUse /\ content'[i] = <<>>)
  <2>1. PICK inode \in Inodes :
           /\ WriterPath(w) \in Paths
           /\ inode \notin InUse \/ inode = tmp[WriterPath(w)]
           /\ content' = [content EXCEPT ![inode] = <<>>]
           /\ tmp' = [tmp EXCEPT ![WriterPath(w)] = inode]
           /\ put'[w].fd = inode /\ put'[w].key = put[w].key
           /\ OnlyPut(w)
    BY <1>2, CreateEffect
  <2>2. file' = file /\ old' = old /\ get' = get
    BY <1>2 DEF CreateTmp
  <2>3. CASE i = inode /\ p = WriterPath(w)
    BY <2>1, <2>3 DEF FilesystemTypeOK
  <2>4. CASE i # inode \/ p # WriterPath(w)
    <3>1. tmp'[p] = i => tmp[p] = i
      BY <2>1, <2>4 DEF FilesystemTypeOK, FilesTypeOK
    <3>2. ASSUME NEW v \in Writers, put'[v].fd = i, PathFor(put'[v].key) = p
          PROVE  put[v].fd = i /\ PathFor(put[v].key) = p
      BY <2>1, <2>4, <3>2 DEF OnlyPut
    <3>3. QED
      BY <2>2, <3>1, <3>2
  <2>5. QED
    BY <2>3, <2>4
<1>3. ASSUME NEW w \in Writers, WriteChunk(w)
      PROVE  Held(p, i)
  <2>1. put'[w].fd = put[w].fd /\ put'[w].key = put[w].key /\ OnlyPut(w)
    BY <1>3, WriteEffect
  <2>2. UNCHANGED <<file, tmp, old, get>>
    BY <1>3 DEF WriteChunk
  <2>3. QED
    BY <2>1, <2>2 DEF OnlyPut
<1>4. ASSUME NEW w \in Writers, SyncAll(w)
      PROVE  Held(p, i)
  <2>1. put'[w].fd = None /\ OnlyPut(w)
    BY <1>4, SyncEffect
  <2>2. UNCHANGED <<file, tmp, old, get>>
    BY <1>4 DEF SyncAll
  <2>3. QED
    BY <1>n, <2>1, <2>2 DEF OnlyPut
<1>5. ASSUME NEW w \in Writers, Rename(w)
      PROVE  Held(p, i)
  <2>1. WriterPath(w) \in Paths
    BY <1>5, PutFacts DEF Rename
  <2>2. i \in {file'[p], tmp'[p], old'[p]} => i \in {file[p], tmp[p], old[p]}
    BY <1>5, <1>n, <2>1 DEF Rename, FilesystemTypeOK, FilesTypeOK
  <2>3. OnlyPut(w) /\ put'[w].fd = None /\ get' = get
    BY <1>5, IdleEffect DEF Rename
  <2>4. QED
    BY <1>n, <2>2, <2>3 DEF OnlyPut
<1>6. ASSUME NEW w \in Writers, RenameNotFound(w) \/ FailPut(w)
      PROVE  Held(p, i)
  BY <1>6, <1>n, IdleEffect DEF RenameNotFound, FailPut, OnlyPut
<1>7. ASSUME NEW r \in Readers, OpenForRead(r)
      PROVE  Held(p, i)
  <2>1. PICK k \in Keys : get' = [get EXCEPT ![r] = [step |-> "read", key |-> k,
                                                     fd |-> file[PathFor(k)]]]
    BY <1>7 DEF OpenForRead
  <2>2. \A s \in Readers \ {r} : get'[s] = get[s]
    BY <2>1 DEF FilesystemTypeOK, GetTypeOK
  <2>3. get'[r].key = k /\ get'[r].fd = file[PathFor(k)]
    BY <2>1 DEF FilesystemTypeOK, GetTypeOK
  <2>4. UNCHANGED <<file, tmp, old, put>>
    BY <1>7 DEF OpenForRead
  <2>5. QED
    BY <2>2, <2>3, <2>4
<1>8. ASSUME NEW r \in Readers, ReadAndParse(r)
      PROVE  Held(p, i)
  <2>1. (\A s \in Readers \ {r} : get'[s] = get[s]) /\ get'[r].fd = None
    BY <1>8 DEF ReadAndParse, FilesystemTypeOK, GetTypeOK, NotReading
  <2>2. UNCHANGED <<file, tmp, old, put>>
    BY <1>8 DEF ReadAndParse
  <2>3. QED
    BY <1>n, <2>1, <2>2
<1>9. ASSUME NEW q \in Paths, SettleDirectory(q)
      PROVE  Held(p, i)
  BY <1>9 DEF SettleDirectory, FilesystemTypeOK, FilesTypeOK
<1>10. CASE PowerLoss
  BY <1>10, <1>n DEF PowerLoss, Idle, NotReading
<1>11. CASE UNCHANGED vars
  BY <1>11 DEF vars
<1>12. QED
  BY <1>1, <1>2, <1>3, <1>4, <1>5, <1>6, <1>7, <1>8, <1>9, <1>10, <1>11 DEF Next

\* An inode that becomes readable was renamed from the temporary name.
LEMMA ReadableInherited ==
    ASSUME FilesystemTypeOK, [Next]_vars, NEW p \in Paths, NEW i \in Inodes, Readable(p, i)'
    PROVE  \/ Readable(p, i)
           \/ \E w \in Writers : Rename(w) /\ p = WriterPath(w) /\ i = tmp[p]
<1> USE DEF Readable
<1>n. None # i
  BY NoneAssumption
<1>1. CASE UNCHANGED <<file, old, get>>
  BY <1>1
<1>2. ASSUME NEW w \in Writers, Rename(w)
      PROVE  Readable(p, i) \/ (p = WriterPath(w) /\ i = tmp[p])
  <2>1. WriterPath(w) \in Paths
    BY <1>2, PutFacts DEF Rename
  <2>2. QED
    BY <1>2, <2>1 DEF Rename, FilesystemTypeOK, FilesTypeOK
<1>3. ASSUME NEW r \in Readers, OpenForRead(r)
      PROVE  Readable(p, i)
  <2>1. PICK k \in Keys : get' = [get EXCEPT ![r] = [step |-> "read", key |-> k,
                                                     fd |-> file[PathFor(k)]]]
    BY <1>3 DEF OpenForRead
  <2>2. \A s \in Readers \ {r} : get'[s] = get[s]
    BY <2>1 DEF FilesystemTypeOK, GetTypeOK
  <2>3. get'[r].key = k /\ get'[r].fd = file[PathFor(k)]
    BY <2>1 DEF FilesystemTypeOK, GetTypeOK
  <2>4. UNCHANGED <<file, old>>
    BY <1>3 DEF OpenForRead
  <2>5. QED
    BY <2>2, <2>3, <2>4
<1>4. ASSUME NEW r \in Readers, ReadAndParse(r)
      PROVE  Readable(p, i)
  <2>1. (\A s \in Readers \ {r} : get'[s] = get[s]) /\ get'[r].fd = None
    BY <1>4 DEF ReadAndParse, FilesystemTypeOK, GetTypeOK, NotReading
  <2>2. UNCHANGED <<file, old>>
    BY <1>4 DEF ReadAndParse
  <2>3. QED
    BY <1>n, <2>1, <2>2
<1>5. ASSUME NEW q \in Paths, SettleDirectory(q)
      PROVE  Readable(p, i)
  BY <1>5 DEF SettleDirectory, FilesystemTypeOK, FilesTypeOK
<1>6. CASE PowerLoss
  BY <1>6, <1>n DEF PowerLoss, NotReading
<1>7. ASSUME NEW w \in Writers,
             StartPut(w) \/ CreateTmp(w) \/ WriteChunk(w) \/ SyncAll(w) \/ RenameNotFound(w)
             \/ FailPut(w)
      PROVE  UNCHANGED <<file, old, get>>
  BY <1>7 DEF StartPut, CreateTmp, WriteChunk, SyncAll, RenameNotFound, FailPut
<1>8. CASE UNCHANGED vars
  BY <1>1, <1>8 DEF vars
<1>9. QED
  BY <1>1, <1>2, <1>3, <1>4, <1>5, <1>6, <1>7, <1>8 DEF Next

\* An inode comes under a temporary name when a put creates it there.
LEMMA TmpInherited ==
    ASSUME FilesystemTypeOK, [Next]_vars, NEW p \in Paths, NEW i \in Inodes, tmp'[p] = i
    PROVE  \/ tmp[p] = i
           \/ \E w \in Writers : CreateTmp(w) /\ p = WriterPath(w) /\ i \notin InUse
<1>1. CASE UNCHANGED tmp
  BY <1>1
<1>2. ASSUME NEW w \in Writers, CreateTmp(w)
      PROVE  tmp[p] = i \/ (p = WriterPath(w) /\ i \notin InUse)
  BY <1>2, CreateEffect DEF FilesystemTypeOK, FilesTypeOK
<1>3. ASSUME NEW w \in Writers, Rename(w)
      PROVE  tmp[p] = i
  BY <1>3, PutFacts, NoneAssumption DEF Rename, FilesystemTypeOK, FilesTypeOK
<1>4. CASE PowerLoss
  BY <1>4, NoneAssumption DEF PowerLoss
<1>5. ASSUME NEW w \in Writers,
             StartPut(w) \/ WriteChunk(w) \/ SyncAll(w) \/ RenameNotFound(w) \/ FailPut(w)
      PROVE  UNCHANGED tmp
  BY <1>5 DEF StartPut, WriteChunk, SyncAll, RenameNotFound, FailPut
<1>6. ASSUME NEW r \in Readers, OpenForRead(r) \/ ReadAndParse(r)
      PROVE  UNCHANGED tmp
  BY <1>6 DEF OpenForRead, ReadAndParse
<1>7. ASSUME NEW q \in Paths, SettleDirectory(q)
      PROVE  UNCHANGED tmp
  BY <1>7 DEF SettleDirectory
<1>8. CASE UNCHANGED vars
  BY <1>1, <1>8 DEF vars
<1>9. QED
  BY <1>1, <1>2, <1>3, <1>4, <1>5, <1>6, <1>7, <1>8 DEF Next

\* The bytes of a file change by its creation, by a write, or by a loss of power
\* when they were not on the disk.
LEMMA BytesInherited ==
    ASSUME FilesystemTypeOK, [Next]_vars, NEW i \in Inodes
    PROVE  \/ content'[i] = content[i] /\ (i \in synced => i \in synced')
           \/ \E w \in Writers :
                 /\ CreateTmp(w) /\ WriterPath(w) \in Paths
                 /\ tmp'[WriterPath(w)] = i /\ content'[i] = <<>>
           \/ \E w \in Writers : WriteChunk(w) /\ put[w].fd = i
           \/ \E n \in Nat : PowerLoss /\ i \notin synced /\ content'[i] = Prefix(content[i], n)
<1>1. CASE UNCHANGED <<content, synced>>
  BY <1>1
<1>2. ASSUME NEW w \in Writers, CreateTmp(w)
      PROVE  \/ content'[i] = content[i] /\ (i \in synced => i \in synced')
             \/ WriterPath(w) \in Paths /\ tmp'[WriterPath(w)] = i /\ content'[i] = <<>>
  BY <1>2, CreateEffect DEF FilesystemTypeOK, FilesTypeOK
<1>3. ASSUME NEW w \in Writers, WriteChunk(w), put[w].fd # i
      PROVE  content'[i] = content[i] /\ (i \in synced => i \in synced')
  BY <1>3, WriteEffect DEF WriteChunk
<1>4. CASE PowerLoss
  <2>1. PICK kept \in [Unsynced -> 0..Chunks] :
           content' = [j \in Inodes |->
                         IF j \in Unsynced THEN Prefix(content[j], kept[j]) ELSE content[j]]
    BY <1>4 DEF PowerLoss
  <2>2. CASE i \in Unsynced
    <3>1. kept[i] \in Nat /\ i \notin synced
      BY <2>2, ChunksAssumption DEF Unsynced
    <3>2. QED
      BY <1>4, <2>1, <2>2, <3>1
  <2>3. CASE i \notin Unsynced
    BY <1>4, <2>1, <2>3 DEF PowerLoss
  <2>4. QED
    BY <2>2, <2>3
<1>5. ASSUME NEW w \in Writers, StartPut(w) \/ Rename(w) \/ RenameNotFound(w) \/ FailPut(w)
      PROVE  UNCHANGED <<content, synced>>
  BY <1>5 DEF StartPut, Rename, RenameNotFound, FailPut
<1>6. ASSUME NEW w \in Writers, SyncAll(w)
      PROVE  content'[i] = content[i] /\ (i \in synced => i \in synced')
  BY <1>6 DEF SyncAll
<1>7. ASSUME NEW r \in Readers, OpenForRead(r) \/ ReadAndParse(r)
      PROVE  UNCHANGED <<content, synced>>
  BY <1>7 DEF OpenForRead, ReadAndParse
<1>8. ASSUME NEW q \in Paths, SettleDirectory(q)
      PROVE  UNCHANGED <<content, synced>>
  BY <1>8 DEF SettleDirectory
<1>9. CASE UNCHANGED vars
  BY <1>1, <1>9 DEF vars
<1>10. QED
  BY <1>1, <1>2, <1>3, <1>4, <1>5, <1>6, <1>7, <1>8, <1>9 DEF Next

\* A path holds only inodes in use, and what can be read is held.
LEMMA HeldIsInUse ==
    ASSUME NEW p \in Paths, NEW i \in Inodes
    PROVE  /\ Held(p, i) => i \in InUse
           /\ Readable(p, i) => Held(p, i)
BY NoneAssumption DEF Held, Readable, InUse

-----------------------------------------------------------------------------
(* Every step preserves the invariant.                                     *)

\* A file stays with its path: an inode is never shared by two paths.
LEMMA ApartStep ==
    ASSUME FilesystemTypeOK, Apart, [Next]_vars
    PROVE  Apart'
<1> SUFFICES ASSUME NEW p \in Paths, NEW q \in Paths, NEW i \in Inodes, Held(p, i)', Held(q, i)'
             PROVE  p = q
  BY DEF Apart, Paths
<1>1. \/ Held(p, i)
      \/ \E w \in Writers : CreateTmp(w) /\ p = WriterPath(w) /\ i \notin InUse
  BY HeldInherited
<1>2. \/ Held(q, i)
      \/ \E w \in Writers : CreateTmp(w) /\ q = WriterPath(w) /\ i \notin InUse
  BY HeldInherited
<1>3. CASE i \in InUse
  BY <1>1, <1>2, <1>3 DEF Apart
<1>4. CASE i \notin InUse
  <2>1. ~Held(p, i) /\ ~Held(q, i)
    BY <1>4, HeldIsInUse
  <2>2. PICK w \in Writers : CreateTmp(w) /\ p = WriterPath(w)
    BY <1>1, <2>1
  <2>3. PICK v \in Writers : CreateTmp(v) /\ q = WriterPath(v)
    BY <1>2, <2>1
  <2>4. w = v
    <3>1. put[w].step = "create" /\ put'[w].step = "write" /\ OnlyPut(v)
      BY <2>2, <2>3, CreateEffect
    <3>2. QED
      BY <3>1 DEF OnlyPut
  <2>5. QED
    BY <2>2, <2>3, <2>4
<1>5. QED
  BY <1>3, <1>4

\* A put never writes under a name that a get or a loss of power reads.
LEMMA FreshStep ==
    ASSUME FilesystemTypeOK, Fresh, [Next]_vars
    PROVE  Fresh'
<1> SUFFICES ASSUME NEW p \in Paths, NEW i \in Inodes, tmp'[p] = i, Readable(p, i)'
             PROVE  FALSE
  BY DEF Fresh, Paths
<1>1. CASE \E w \in Writers : Rename(w) /\ p = WriterPath(w)
  BY <1>1, NoneAssumption DEF Rename, FilesystemTypeOK, FilesTypeOK
<1>2. CASE Readable(p, i)
  <2>1. i \in InUse
    BY <1>2, HeldIsInUse
  <2>2. tmp[p] = i
    BY <2>1, TmpInherited
  <2>3. QED
    BY <1>2, <2>2 DEF Fresh
<1>3. QED
  BY <1>1, <1>2, ReadableInherited

\* A put writes pieces of its own key only, into a file of its own path.
LEMMA OwnPiecesStep ==
    ASSUME FilesystemTypeOK, Apart, OwnPieces, [Next]_vars
    PROVE  OwnPieces'
<1> SUFFICES ASSUME NEW p \in Paths, NEW i \in Inodes, Held(p, i)', NEW j \in DOMAIN content'[i],
                    content'[i][j] # Gap
             PROVE  PathFor(content'[i][j][1].key) = p
  BY DEF OwnPieces, Paths, Gap
<1>1. content'[i] # <<>>
  OBVIOUS
<1>2. Held(p, i)
  BY <1>1, HeldInherited
<1>3. CASE content'[i] = content[i]
  BY <1>2, <1>3 DEF OwnPieces
<1>4. ASSUME NEW w \in Writers, WriteChunk(w), put[w].fd = i
      PROVE  PathFor(content'[i][j][1].key) = p
  <2> DEFINE at    == put[w].written + 1
             bytes == content[i]
             piece == <<PayloadOf(w), at>>
  <2>1. PICK size \in Nat :
           content'[i] = [h \in 1..size |-> CASE h = at -> piece
                                              [] h \in DOMAIN bytes /\ h # at -> bytes[h]
                                              [] OTHER -> Gap]
    BY <1>4, WriteEffect DEF PayloadOf
  <2>2. Held(WriterPath(w), i) /\ WriterPath(w) \in Paths
    BY <1>4, PutFacts DEF Held, WriteChunk
  <2>3. WriterPath(w) = p
    BY <1>2, <2>2 DEF Apart
  <2>4. CASE j = at
    <3>1. content'[i][j] = piece
      BY <2>1, <2>4
    <3>2. piece[1].key = put[w].key
      BY DEF PayloadOf
    <3>3. QED
      BY <2>3, <3>1, <3>2 DEF WriterPath
  <2>5. CASE j # at
    <3> HIDE DEF at
    <3>1. j \in DOMAIN bytes /\ content'[i][j] = bytes[j]
      BY <2>1, <2>5
    <3>2. QED
      BY <1>2, <3>1 DEF OwnPieces
  <2>6. QED
    BY <2>4, <2>5
<1>5. ASSUME NEW n \in Nat, content'[i] = Prefix(content[i], n)
      PROVE  PathFor(content'[i][j][1].key) = p
  <2>1. j \in DOMAIN content[i] /\ content'[i][j] = content[i][j]
    BY <1>5 DEF Prefix
  <2>2. QED
    BY <1>2, <2>1 DEF OwnPieces
<1>6. QED
  BY <1>1, <1>3, <1>4, <1>5, BytesInherited

\* Steps that start or end no put leave the history variable true.
LEMMA AloneKept ==
    ASSUME AloneIsAlone, alone' = alone,
           \A v \in Writers : (put'[v].step = "idle") = (put[v].step = "idle")
                              /\ put'[v].key = put[v].key
    PROVE  AloneIsAlone'
<1>1. Putting' = Putting
  BY DEF Putting
<1>2. \A v \in Writers : WriterPath(v)' = WriterPath(v)
  BY DEF WriterPath
<1>3. QED
  BY <1>1, <1>2 DEF AloneIsAlone, Putting

\* A put that ends takes its writer out of the history variable.
LEMMA AloneEnds ==
    ASSUME AloneIsAlone, NEW w \in Writers, OnlyPut(w), put'[w].step = "idle",
           alone' = alone \ {w}
    PROVE  AloneIsAlone'
<1>1. Putting' = Putting \ {w}
  BY DEF Putting, OnlyPut
<1>2. \A v \in Putting' : WriterPath(v)' = WriterPath(v)
  BY <1>1 DEF WriterPath, OnlyPut, Putting
<1>3. QED
  BY <1>1, <1>2 DEF AloneIsAlone

\* The history variable stays true: two puts of an exclusive path never overlap.
LEMMA AloneStep ==
    ASSUME FilesystemTypeOK, AloneIsAlone, [Next]_vars
    PROVE  AloneIsAlone'
<1>1. ASSUME NEW w \in Writers, StartPut(w)
      PROVE  AloneIsAlone'
  <2>1. PICK k \in Keys, e \in Entries :
           LET rivals == {v \in Putting : WriterPath(v) = PathFor(k)}
           IN  /\ PathFor(k) \in Exclusive => rivals = {}
               /\ put[w].step = "idle"
               /\ put' = [put EXCEPT ![w] = [step |-> "create", key |-> k, entry |-> e,
                                            fd |-> None, written |-> 0]]
               /\ alone' = IF rivals = {} THEN alone \cup {w} ELSE alone \ rivals
    BY <1>1 DEF StartPut
  <2>2. OnlyPut(w) /\ put'[w].step = "create" /\ put'[w].key = k
    BY <2>1, StartEffect
  <2>3. w \notin Putting /\ Putting' = Putting \cup {w}
    BY <2>1, <2>2 DEF Putting, OnlyPut
  <2>4. WriterPath(w)' = PathFor(k) /\ \A v \in Putting : WriterPath(v)' = WriterPath(v)
    BY <2>2, <2>3 DEF WriterPath, OnlyPut, Putting
  <2>5. QED
    BY <2>1, <2>3, <2>4 DEF AloneIsAlone
<1>2. ASSUME NEW w \in Writers, CreateTmp(w)
      PROVE  AloneIsAlone'
  BY <1>2, CreateEffect, AloneKept DEF CreateTmp, OnlyPut
<1>3. ASSUME NEW w \in Writers, WriteChunk(w)
      PROVE  AloneIsAlone'
  <2>1. /\ put[w].step = "write" /\ put'[w].step \in {"write", "sync"}
        /\ put'[w].key = put[w].key /\ OnlyPut(w)
    BY <1>3, WriteEffect
  <2>2. alone' = alone
    BY <1>3 DEF WriteChunk
  <2>3. QED
    BY <2>1, <2>2, AloneKept DEF OnlyPut
<1>4. ASSUME NEW w \in Writers, SyncAll(w)
      PROVE  AloneIsAlone'
  <2>1. /\ put[w].step = "sync" /\ put'[w].step = "rename"
        /\ put'[w].key = put[w].key /\ OnlyPut(w)
    BY <1>4, SyncEffect
  <2>2. alone' = alone
    BY <1>4 DEF SyncAll
  <2>3. QED
    BY <2>1, <2>2, AloneKept DEF OnlyPut
<1>5. ASSUME NEW w \in Writers, Rename(w) \/ RenameNotFound(w) \/ FailPut(w)
      PROVE  AloneIsAlone'
  <2>1. put' = [put EXCEPT ![w] = Idle] /\ alone' = alone \ {w}
    BY <1>5 DEF Rename, RenameNotFound, FailPut
  <2>2. QED
    BY <2>1, IdleEffect, AloneEnds
<1>6. CASE UNCHANGED <<put, alone>>
  BY <1>6, AloneKept
<1>7. CASE PowerLoss
  <2>1. Putting' = {} /\ alone' = {}
    BY <1>7 DEF PowerLoss, Putting, Idle
  <2>2. QED
    BY <2>1 DEF AloneIsAlone
<1>8. ASSUME NEW r \in Readers, OpenForRead(r) \/ ReadAndParse(r)
      PROVE  UNCHANGED <<put, alone>>
  BY <1>8 DEF OpenForRead, ReadAndParse
<1>9. ASSUME NEW q \in Paths, SettleDirectory(q)
      PROVE  UNCHANGED <<put, alone>>
  BY <1>9 DEF SettleDirectory
<1>10. CASE UNCHANGED vars
  BY <1>6, <1>10 DEF vars
<1>11. QED
  BY <1>1, <1>2, <1>3, <1>4, <1>5, <1>6, <1>7, <1>8, <1>9, <1>10 DEF Next

\* A put that runs alone is not disturbed: while its own record stays, so do its
\* temporary name, and the bytes of the files its path holds.
LEMMA Undisturbed ==
    ASSUME FilesystemTypeOK, Apart, AloneIsAlone, [Next]_vars,
           NEW x \in alone, x \in alone', put'[x] = put[x]
    PROVE  /\ tmp'[WriterPath(x)] = tmp[WriterPath(x)]
           /\ \A i \in Inodes : Held(WriterPath(x), i) =>
                 content'[i] = content[i] /\ (i \in synced => i \in synced')
<1>1. x \in Writers /\ x \in Putting /\ put[x].step # "idle" /\ WriterPath(x) \in Paths
  BY PutFacts DEF AloneIsAlone, Putting
<1>2. ~PowerLoss
  BY DEF PowerLoss
<1>3. ASSUME NEW w \in Writers, CreateTmp(w) \/ WriteChunk(w) \/ Rename(w)
      PROVE  WriterPath(w) # WriterPath(x) /\ WriterPath(w) \in Paths
  <2>1. w # x
    <3>1. CASE CreateTmp(w)
      BY <3>1, CreateEffect
    <3>2. CASE WriteChunk(w)
      <4>1. put'[w].written = put[w].written + 1 /\ put'[w].written \in 0..Chunks
            /\ put[w].written \in 0..Chunks
        BY <3>2, WriteEffect DEF FilesystemTypeOK, PutTypeOK, PutState
      <4>2. QED
        BY <4>1, ChunksAssumption
    <3>3. CASE Rename(w)
      BY <3>3 DEF Rename
    <3>4. QED
      BY <1>3, <3>1, <3>2, <3>3
  <2>2. put[w].step # "idle"
    BY <1>3 DEF CreateTmp, WriteChunk, Rename
  <2>3. QED
    BY <1>1, <2>1, <2>2, PutFacts DEF AloneIsAlone, Putting
<1>4. tmp'[WriterPath(x)] = tmp[WriterPath(x)]
  <2>1. ASSUME NEW w \in Writers, CreateTmp(w)
        PROVE  tmp'[WriterPath(x)] = tmp[WriterPath(x)]
    <3>1. WriterPath(w) # WriterPath(x) /\ WriterPath(w) \in Paths
      BY <1>3, <2>1
    <3>2. \E i \in Inodes : tmp' = [tmp EXCEPT ![WriterPath(w)] = i]
      BY <2>1, CreateEffect
    <3>3. QED
      BY <1>1, <3>1, <3>2 DEF FilesystemTypeOK, FilesTypeOK
  <2>2. ASSUME NEW w \in Writers, Rename(w)
        PROVE  tmp'[WriterPath(x)] = tmp[WriterPath(x)]
    <3>1. WriterPath(w) # WriterPath(x) /\ WriterPath(w) \in Paths
      BY <1>3, <2>2
    <3>2. tmp' = [tmp EXCEPT ![WriterPath(w)] = None]
      BY <2>2 DEF Rename
    <3>3. QED
      BY <1>1, <3>1, <3>2 DEF FilesystemTypeOK, FilesTypeOK
  <2>3. ASSUME NEW w \in Writers,
               StartPut(w) \/ WriteChunk(w) \/ SyncAll(w) \/ RenameNotFound(w) \/ FailPut(w)
        PROVE  UNCHANGED tmp
    BY <2>3 DEF StartPut, WriteChunk, SyncAll, RenameNotFound, FailPut
  <2>4. ASSUME NEW r \in Readers, OpenForRead(r) \/ ReadAndParse(r)
        PROVE  UNCHANGED tmp
    BY <2>4 DEF OpenForRead, ReadAndParse
  <2>5. ASSUME NEW q \in Paths, SettleDirectory(q)
        PROVE  UNCHANGED tmp
    BY <2>5 DEF SettleDirectory
  <2>6. CASE UNCHANGED vars
    BY <2>6 DEF vars
  <2>7. QED
    BY <1>2, <2>1, <2>2, <2>3, <2>4, <2>5, <2>6 DEF Next
<1>5. ASSUME NEW i \in Inodes, Held(WriterPath(x), i)
      PROVE  content'[i] = content[i] /\ (i \in synced => i \in synced')
  <2>1. ASSUME NEW w \in Writers, CreateTmp(w), tmp'[WriterPath(w)] = i
        PROVE  FALSE
    <3>1. WriterPath(w) # WriterPath(x) /\ WriterPath(w) \in Paths
      BY <1>3, <2>1
    <3>2. tmp[WriterPath(w)] = i
      BY <1>1, <1>5, <2>1, <3>1, TmpInherited, HeldIsInUse
    <3>3. Held(WriterPath(w), i)
      BY <3>2 DEF Held
    <3>4. QED
      BY <1>1, <1>5, <3>1, <3>3 DEF Apart
  <2>2. ASSUME NEW w \in Writers, WriteChunk(w), put[w].fd = i
        PROVE  FALSE
    <3>1. WriterPath(w) # WriterPath(x) /\ WriterPath(w) \in Paths
      BY <1>3, <2>2
    <3>2. Held(WriterPath(w), i)
      BY <2>2 DEF Held
    <3>3. QED
      BY <1>1, <1>5, <3>1, <3>2 DEF Apart
  <2>3. QED
    BY <1>2, <2>1, <2>2, BytesInherited
<1>6. QED
  BY <1>4, <1>5

\* A put that runs alone gets its entry into the temporary file.
LEMMA ProgressStep ==
    ASSUME FilesystemTypeOK, Apart, AloneIsAlone, Progress, [Next]_vars
    PROVE  Progress'
<1> SUFFICES ASSUME NEW x \in alone'
             PROVE  Work(x)'
  BY DEF Progress
<1>1. x \in Writers /\ WriterPath(x)' = PathFor(put'[x].key)
  BY AloneStep DEF AloneIsAlone, Putting, WriterPath
<1>2. CASE StartPut(x)
  <2>1. put'[x].step = "create"
    <3>1. x \in DOMAIN put
      BY <1>1 DEF FilesystemTypeOK, PutTypeOK
    <3>2. PICK k \in Keys, e \in Entries :
             put' = [put EXCEPT ![x] = [step |-> "create", key |-> k, entry |-> e,
                                        fd |-> None, written |-> 0]]
      BY <1>2 DEF StartPut
    <3>3. QED
      BY <3>1, <3>2
  <2>2. QED
    BY <2>1 DEF Work
<1>3. CASE x \in alone /\ put'[x] = put[x]
  <2> DEFINE path == WriterPath(x)
  <2>1. /\ tmp'[path] = tmp[path] /\ Work(x)
        /\ \A i \in Inodes : Held(path, i) =>
              content'[i] = content[i] /\ (i \in synced => i \in synced')
    BY <1>3, Undisturbed DEF Progress
  <2>2. WriterPath(x)' = path /\ PayloadOf(x)' = PayloadOf(x) /\ put[x].step # "idle"
        /\ path \in Paths
    BY <1>1, <1>3, PutFacts DEF WriterPath, PayloadOf, AloneIsAlone, Putting
  <2>3. CASE put[x].step \in {"write", "sync"}
    <3>1. put[x].fd \in Inodes /\ Held(path, put[x].fd)
      BY <1>1, <2>3 DEF Held, FilesystemTypeOK, PutTypeOK, WellPut
    <3>2. QED
      BY <1>3, <2>1, <2>2, <2>3, <3>1 DEF Work
  <2>4. CASE put[x].step = "rename"
    <3>1. tmp[path] \in Inodes /\ Held(path, tmp[path])
      BY <2>1, <2>4 DEF Work, Held, FilesystemTypeOK, FilesTypeOK
    <3>2. QED
      BY <1>3, <2>1, <2>2, <2>4, <3>1 DEF Work
  <2>5. QED
    BY <1>3, <2>3, <2>4 DEF Work
<1>4. CASE CreateTmp(x)
  <2>1. PICK inode \in Inodes :
           /\ WriterPath(x) \in Paths
           /\ content' = [content EXCEPT ![inode] = <<>>]
           /\ tmp' = [tmp EXCEPT ![WriterPath(x)] = inode]
           /\ put'[x].step = "write" /\ put'[x].fd = inode /\ put'[x].written = 0
           /\ put'[x].key = put[x].key
    BY <1>1, <1>4, CreateEffect
  <2>2. WriterPath(x)' = WriterPath(x) /\ tmp'[WriterPath(x)] = inode /\ content'[inode] = <<>>
    BY <1>1, <2>1 DEF WriterPath, FilesystemTypeOK, FilesTypeOK
  <2>3. QED
    BY <2>1, <2>2 DEF Work
<1>5. CASE WriteChunk(x) /\ x \in alone
  <2> DEFINE at == put[x].written + 1
             fd == put[x].fd
             bytes == content[fd]
  <2>1. /\ put[x].step = "write" /\ fd \in Inodes /\ at \in 1..Chunks /\ bytes \in Seq(Piece)
        /\ put'[x].step \in {"write", "sync"} /\ put'[x].fd = fd /\ put'[x].written = at
        /\ put'[x].key = put[x].key /\ put'[x].entry = put[x].entry
    BY <1>1, <1>5, WriteEffect
  <2>2. PICK size \in Nat :
           /\ size = IF Len(bytes) < at THEN at ELSE Len(bytes)
           /\ content'[fd] = [i \in 1..size |->
                                CASE i = at -> <<PayloadOf(x), at>>
                                  [] i \in DOMAIN bytes /\ i # at -> bytes[i]
                                  [] OTHER -> Gap]
    BY <1>1, <1>5, WriteEffect DEF PayloadOf
  <2>3. /\ tmp[WriterPath(x)] = fd /\ DOMAIN bytes = 1..put[x].written
        /\ \A j \in 1..put[x].written : bytes[j] = <<PayloadOf(x), j>>
    BY <1>5, <2>1 DEF Progress, Work
  <2>4. put[x].written \in Nat
    BY <1>1, ChunksAssumption DEF FilesystemTypeOK, PutTypeOK, PutState
  <2>5. size = at
    BY <2>1, <2>2, <2>3, <2>4
  <2>6. DOMAIN content'[fd] = 1..at /\ \A j \in 1..at : content'[fd][j] = <<PayloadOf(x), j>>
    BY <2>2, <2>3, <2>4, <2>5
  <2>7. tmp' = tmp /\ WriterPath(x)' = WriterPath(x) /\ PayloadOf(x)' = PayloadOf(x)
    BY <1>1, <1>5, <2>1 DEF WriteChunk, WriterPath, PayloadOf
  <2>8. QED
    BY <2>1, <2>3, <2>6, <2>7 DEF Work
<1>6. CASE SyncAll(x) /\ x \in alone
  <2> DEFINE fd == put[x].fd
  <2>1. /\ put[x].step = "sync" /\ fd \in Inodes /\ put'[x].step = "rename"
        /\ put'[x].key = put[x].key /\ put'[x].entry = put[x].entry
    BY <1>1, <1>6, SyncEffect
  <2>2. put[x].written = Chunks /\ content[fd] \in Seq(Piece)
    BY <1>1, <2>1 DEF FilesystemTypeOK, PutTypeOK, WellPut
  <2>3. /\ tmp[WriterPath(x)] = fd /\ DOMAIN content[fd] = 1..Chunks
        /\ \A j \in 1..Chunks : content[fd][j] = <<PayloadOf(x), j>>
    BY <1>6, <2>1, <2>2 DEF Progress, Work
  <2>4. content[fd] = Bytes(PayloadOf(x))
    <3>1. PICK n \in Nat : content[fd] \in [1..n -> Piece]
      BY <2>2
    <3>2. 1..n = 1..Chunks
      BY <2>3, <3>1
    <3>3. content[fd] = [j \in 1..Chunks |-> content[fd][j]]
      BY <3>1, <3>2
    <3>4. QED
      BY <2>3, <3>3 DEF Bytes
  <2>5. /\ tmp' = tmp /\ content' = content /\ synced' = synced \cup {fd}
        /\ WriterPath(x)' = WriterPath(x) /\ PayloadOf(x)' = PayloadOf(x)
    BY <1>1, <1>6, <2>1 DEF SyncAll, WriterPath, PayloadOf
  <2>6. QED
    BY <2>1, <2>3, <2>4, <2>5 DEF Work
<1>7. \/ x \in alone /\ put'[x] = put[x]
      \/ StartPut(x) \/ CreateTmp(x) \/ (WriteChunk(x) /\ x \in alone) \/ (SyncAll(x) /\ x \in alone)
  <2>1. ASSUME NEW w \in Writers, w # x,
               StartPut(w) \/ CreateTmp(w) \/ WriteChunk(w) \/ SyncAll(w) \/ Rename(w)
               \/ RenameNotFound(w) \/ FailPut(w)
        PROVE  x \in alone /\ put'[x] = put[x]
    <3>1. x \in alone
      BY <2>1 DEF StartPut, CreateTmp, WriteChunk, SyncAll, Rename, RenameNotFound, FailPut
    <3>2. put'[x] = put[x]
      BY <1>1, <2>1 DEF StartPut, CreateTmp, WriteChunk, SyncAll, Rename, RenameNotFound, FailPut,
                        FilesystemTypeOK, PutTypeOK
    <3>3. QED
      BY <3>1, <3>2
  <2>2. ~(Rename(x) \/ RenameNotFound(x) \/ FailPut(x))
    BY DEF Rename, RenameNotFound, FailPut
  <2>3. WriteChunk(x) \/ SyncAll(x) => x \in alone
    BY DEF WriteChunk, SyncAll
  <2>4. ASSUME NEW r \in Readers, OpenForRead(r) \/ ReadAndParse(r)
        PROVE  UNCHANGED <<put, alone>>
    BY <2>4 DEF OpenForRead, ReadAndParse
  <2>5. ASSUME NEW q \in Paths, SettleDirectory(q)
        PROVE  UNCHANGED <<put, alone>>
    BY <2>5 DEF SettleDirectory
  <2>6. ~PowerLoss
    BY DEF PowerLoss
  <2>7. CASE UNCHANGED vars
    BY <2>7 DEF vars
  <2>8. QED
    BY <1>1, <2>1, <2>2, <2>3, <2>4, <2>5, <2>6, <2>7 DEF Next
<1>8. QED
  BY <1>2, <1>3, <1>4, <1>5, <1>6, <1>7

\* Nothing writes into a file that can be read of an exclusive path.
LEMMA ReadableKept ==
    ASSUME StoreInvariant, [Next]_vars, NEW p \in Paths \cap Exclusive, NEW i \in Inodes,
           Readable(p, i)
    PROVE  /\ i \in synced /\ Parses(content[i])
           /\ i \in synced' /\ content'[i] = content[i]
<1> USE DEF StoreInvariant
<1>1. i \in synced /\ Parses(content[i]) /\ Held(p, i) /\ i \in InUse /\ tmp[p] # i
  BY HeldIsInUse DEF Published, Fresh
<1>2. ASSUME NEW w \in Writers, CreateTmp(w), WriterPath(w) \in Paths, tmp'[WriterPath(w)] = i
      PROVE  FALSE
  <2>1. tmp[WriterPath(w)] = i
    BY <1>1, <1>2, TmpInherited
  <2>2. QED
    BY <1>1, <1>2, <2>1 DEF Apart, Held
<1>3. ASSUME NEW w \in Writers, WriteChunk(w), put[w].fd = i
      PROVE  FALSE
  <2>1. put[w].step = "write" /\ WriterPath(w) \in Paths
    BY <1>3, PutFacts DEF WriteChunk
  <2>2. Held(WriterPath(w), i)
    BY <1>3 DEF Held
  <2>3. WriterPath(w) = p
    BY <1>1, <2>1, <2>2 DEF Apart
  <2>4. w \in alone
    BY <2>1, <2>3 DEF AloneIsAlone, Putting
  <2>5. tmp[p] = i
    BY <1>3, <2>1, <2>3, <2>4 DEF Progress, Work
  <2>6. QED
    BY <1>1, <2>5
<1>4. QED
  BY <1>1, <1>2, <1>3, BytesInherited

\* A rename publishes the entry of its put when the put ran alone.
LEMMA RenamePublishes ==
    ASSUME StoreInvariant, NEW w \in alone, Rename(w)
    PROVE  /\ WriterPath(w) \in Paths /\ PayloadOf(w) \in Payload
           /\ tmp[WriterPath(w)] \in synced /\ tmp[WriterPath(w)] \in Inodes
           /\ content[tmp[WriterPath(w)]] = Bytes(PayloadOf(w))
           /\ file' = [file EXCEPT ![WriterPath(w)] = tmp[WriterPath(w)]]
           /\ content' = content /\ synced' = synced
<1> USE DEF StoreInvariant
<1>1. w \in Writers /\ put[w].step = "rename"
  BY DEF AloneIsAlone, Putting, Rename
<1>2. WriterPath(w) \in Paths /\ PayloadOf(w) \in Payload
  BY <1>1, PutFacts DEF PayloadOf
<1>3. tmp[WriterPath(w)] \in synced /\ content[tmp[WriterPath(w)]] = Bytes(PayloadOf(w))
  BY <1>1 DEF Progress, Work
<1>4. QED
  BY <1>2, <1>3 DEF Rename, FilesystemTypeOK, FilesTypeOK

\* The puts of an exclusive path run alone.
LEMMA ExclusiveIsAlone ==
    ASSUME StoreInvariant, NEW w \in Writers, put[w].step # "idle", WriterPath(w) \in Exclusive
    PROVE  w \in alone
BY DEF StoreInvariant, AloneIsAlone, Putting

\* What can be read of an exclusive path stays whole and on the disk.
LEMMA PublishedStep ==
    ASSUME StoreInvariant, [Next]_vars
    PROVE  Published'
<1> SUFFICES ASSUME NEW p \in Paths \cap Exclusive, NEW i \in Inodes, Readable(p, i)'
             PROVE  i \in synced' /\ Parses(content'[i])
  BY DEF Published, Paths, Parses
<1>1. ASSUME NEW w \in Writers, Rename(w), p = WriterPath(w), i = tmp[p]
      PROVE  i \in synced' /\ Parses(content'[i])
  <2>1. w \in alone
    BY <1>1, ExclusiveIsAlone DEF Rename
  <2>2. QED
    BY <1>1, <2>1, RenamePublishes, BytesParse
<1>2. CASE Readable(p, i)
  BY <1>2, ReadableKept
<1>3. FilesystemTypeOK
  BY DEF StoreInvariant
<1>4. QED
  BY <1>1, <1>2, <1>3, ReadableInherited

\* At first no path holds an inode.
LEMMA StoreInit ==
    ASSUME Init
    PROVE  StoreInvariant
<1>1. FilesystemTypeOK
  BY TypeInit
<1>2. \A p \in Paths, i \in Inodes : ~Held(p, i) /\ ~Readable(p, i)
  BY NoneAssumption DEF Init, Held, Readable, Idle, NotReading
<1>3. alone = {} /\ Putting = {}
  BY DEF Init, Putting, Idle
<1>4. QED
  BY <1>1, <1>2, <1>3
     DEF StoreInvariant, Apart, Fresh, OwnPieces, AloneIsAlone, Progress, Published

\* Every step preserves the invariant.
LEMMA StoreStep ==
    ASSUME StoreInvariant, [Next]_vars
    PROVE  StoreInvariant'
BY TypeStep, ApartStep, FreshStep, OwnPiecesStep, AloneStep, ProgressStep, PublishedStep
   DEF StoreInvariant

\* The invariant holds throughout: the files of a path are its own, a file that
\* can be read is never written to where puts do not overlap, and a put that
\* runs alone is not disturbed (put and get, filesystem_ancestor.rs).
THEOREM StoreSafe == Spec => []StoreInvariant
<1>1. Init => StoreInvariant
  BY StoreInit
<1>2. StoreInvariant /\ [Next]_vars => StoreInvariant'
  BY StoreStep
<1>3. QED
  BY <1>1, <1>2, PTL DEF Spec

-----------------------------------------------------------------------------
(* What the store promises.                                                *)

\* A file under the final name of a path whose puts do not overlap always
\* parses, after any failure and loss of power ("must never observe partial
\* state", filesystem_ancestor.rs).
THEOREM ExclusiveNeverPartial == Spec => []NeverPartialIfExclusive
<1>1. StoreInvariant => NeverPartialIfExclusive
  <2> SUFFICES ASSUME StoreInvariant, NEW p \in Paths \cap Exclusive, file[p] # None
               PROVE  Parses(content[file[p]])
    BY DEF NeverPartialIfExclusive, Whole
  <2>1. file[p] \in Inodes /\ Readable(p, file[p])
    BY DEF StoreInvariant, FilesystemTypeOK, FilesTypeOK, Readable
  <2>2. QED
    BY <2>1 DEF StoreInvariant, Published
<1>2. QED
  BY <1>1, StoreSafe, PTL

\* A put that no other put of its path overlapped leaves its own entry under the
\* final name, whatever overlapping and failed puts left behind.
THEOREM LonePutStores == Spec => LonePutRepairs
<1>1. ASSUME StoreInvariant, [Next]_vars, NEW w \in Writers
      PROVE  StoresItsEntry(w)
  <2> SUFFICES ASSUME put[w].step = "rename", put'[w] = Idle, w \in alone, faults' = faults
               PROVE  /\ file'[WriterPath(w)] # None
                      /\ content[file'[WriterPath(w)]] = Bytes(PayloadOf(w))
    BY DEF StoresItsEntry, PayloadOf
  <2>1. put'[w].step = "idle" /\ put'[w] # put[w] /\ faults \in Nat /\ FilesystemTypeOK
    <3>1. put'[w].step = "idle"
      BY DEF Idle
    <3>2. put'[w] # put[w]
      BY <3>1
    <3>3. QED
      BY <1>1, <3>1, <3>2 DEF StoreInvariant, FilesystemTypeOK
  <2>2. CASE Rename(w)
    <3>1. /\ WriterPath(w) \in Paths /\ tmp[WriterPath(w)] \in Inodes
          /\ content[tmp[WriterPath(w)]] = Bytes(PayloadOf(w))
          /\ file' = [file EXCEPT ![WriterPath(w)] = tmp[WriterPath(w)]]
      BY <1>1, <2>2, RenamePublishes
    <3>2. file'[WriterPath(w)] = tmp[WriterPath(w)]
      BY <2>1, <3>1 DEF FilesystemTypeOK, FilesTypeOK
    <3>3. QED
      BY <3>1, <3>2, NoneAssumption
  <2>3. ~RenameNotFound(w)
    <3>1. tmp[WriterPath(w)] \in Inodes
      BY <1>1 DEF StoreInvariant, Progress, Work, FilesystemTypeOK, FilesTypeOK
    <3>2. QED
      BY <3>1, NoneAssumption DEF RenameNotFound
  <2>4. ~PowerLoss /\ \A v \in Writers : ~FailPut(v)
    BY <2>1 DEF PowerLoss, FailPut
  <2>5. ~StartPut(w) /\ ~CreateTmp(w) /\ ~WriteChunk(w) /\ ~SyncAll(w)
    BY DEF StartPut, CreateTmp, WriteChunk, SyncAll
  <2>6. ASSUME NEW v \in Writers, v # w,
               StartPut(v) \/ CreateTmp(v) \/ WriteChunk(v) \/ SyncAll(v) \/ Rename(v)
               \/ RenameNotFound(v)
        PROVE  FALSE
    BY <2>1, <2>6 DEF StartPut, CreateTmp, WriteChunk, SyncAll, Rename, RenameNotFound,
                      FilesystemTypeOK, PutTypeOK
  <2>7. ASSUME NEW r \in Readers, OpenForRead(r) \/ ReadAndParse(r)
        PROVE  FALSE
    BY <2>1, <2>7 DEF OpenForRead, ReadAndParse
  <2>8. ASSUME NEW q \in Paths, SettleDirectory(q)
        PROVE  FALSE
    BY <2>1, <2>8 DEF SettleDirectory
  <2>9. ~UNCHANGED vars
    BY <2>1 DEF vars
  <2>10. QED
    BY <1>1, <2>2, <2>3, <2>4, <2>5, <2>6, <2>7, <2>8, <2>9 DEF Next
<1>2. StoreInvariant /\ [Next]_vars => \A w \in Writers : StoresItsEntry(w)
  BY <1>1
<1>3. QED
  BY <1>2, StoreSafe, PTL DEF LonePutRepairs, Spec

\* What a get has returned: nothing yet, or an entry that parsed, or an error.
GotTypeOK == got \in [Readers -> {None} \cup [asked : Keys, found : Payload \cup {None}]]

\* A get returns what the file it opened holds when it is read.
GotStep(r) ==
    LET bytes == content[get[r].fd]
    IN  /\ get[r].step = "read"
        /\ got'[r] = [asked |-> get[r].key,
                      found |-> IF Parses(bytes) THEN Parsed(bytes) ELSE None]

\* The result of a get changes by a read, or is cleared.
LEMMA GotInherited ==
    ASSUME GotTypeOK, FilesystemTypeOK, [Next]_vars
    PROVE  /\ GotTypeOK'
           /\ \A r \in Readers : got'[r] \in {None, got[r]} \/ GotStep(r)
<1>1. ASSUME NEW r \in Readers, ReadAndParse(r)
      PROVE  GotTypeOK' /\ GotStep(r) /\ \A s \in Readers \ {r} : got'[s] = got[s]
  <2> DEFINE bytes == content[get[r].fd]
             result == [asked |-> get[r].key,
                        found |-> IF Parses(bytes) THEN Parsed(bytes) ELSE None]
  <2>1. get[r].key \in Keys
    BY <1>1 DEF ReadAndParse, FilesystemTypeOK, GetTypeOK
  <2>2. result \in [asked : Keys, found : Payload \cup {None}]
    BY <2>1, ParsedType
  <2>3. got' = [got EXCEPT ![r] = result] /\ get[r].step = "read"
    BY <1>1 DEF ReadAndParse
  <2> HIDE DEF result
  <2>4. GotTypeOK' /\ got'[r] = result /\ \A s \in Readers \ {r} : got'[s] = got[s]
    BY <2>2, <2>3 DEF GotTypeOK
  <2>5. QED
    BY <2>3, <2>4 DEF GotStep, result
<1>2. ASSUME NEW r \in Readers, OpenForRead(r)
      PROVE  GotTypeOK' /\ \A s \in Readers : got'[s] \in {None, got[s]}
  <2>1. got' = [got EXCEPT ![r] = None]
    BY <1>2 DEF OpenForRead
  <2>2. QED
    BY <2>1 DEF GotTypeOK
<1>3. CASE PowerLoss
  <2>1. got' = [r \in Readers |-> None]
    BY <1>3 DEF PowerLoss
  <2>2. QED
    BY <2>1 DEF GotTypeOK
<1>4. CASE UNCHANGED got
  BY <1>4 DEF GotTypeOK
<1>5. ASSUME NEW w \in Writers,
             StartPut(w) \/ CreateTmp(w) \/ WriteChunk(w) \/ SyncAll(w) \/ Rename(w)
             \/ RenameNotFound(w) \/ FailPut(w)
      PROVE  UNCHANGED got
  BY <1>5 DEF StartPut, CreateTmp, WriteChunk, SyncAll, Rename, RenameNotFound, FailPut
<1>6. ASSUME NEW q \in Paths, SettleDirectory(q)
      PROVE  UNCHANGED got
  BY <1>6 DEF SettleDirectory
<1>7. CASE UNCHANGED vars
  BY <1>4, <1>7 DEF vars
<1>8. QED
  BY <1>1, <1>2, <1>3, <1>4, <1>5, <1>6, <1>7 DEF Next

\* The results of the gets are well typed throughout.
LEMMA GotTyped == Spec => []GotTypeOK
<1>1. Init => GotTypeOK
  BY DEF Init, GotTypeOK
<1>2. GotTypeOK /\ StoreInvariant /\ [Next]_vars => GotTypeOK'
  BY GotInherited DEF StoreInvariant
<1>3. QED
  BY <1>1, <1>2, StoreSafe, PTL DEF Spec

\* A get that found the file of an exclusive path returns a whole entry, however
\* the file is replaced between its open and its read.
THEOREM GetIsWhole == Spec => []GetReturnsWhole
<1>1. Init => GetReturnsWhole
  BY DEF Init, GetReturnsWhole
<1>2. ASSUME GetReturnsWhole, GotTypeOK, StoreInvariant, [Next]_vars
      PROVE  GetReturnsWhole'
  <2> SUFFICES ASSUME NEW r \in Readers, got'[r] # None, PathFor(got'[r].asked) \in Exclusive
               PROVE  got'[r].found # None
    BY DEF GetReturnsWhole
  <2>1. CASE got'[r] = got[r]
    BY <1>2, <2>1 DEF GetReturnsWhole
  <2>2. CASE GotStep(r)
    <3> DEFINE bytes == content[get[r].fd]
    <3>1. /\ get[r].step = "read"
          /\ got'[r].asked = get[r].key
          /\ got'[r].found = IF Parses(bytes) THEN Parsed(bytes) ELSE None
      BY <2>2 DEF GotStep
    <3>2. get[r].fd \in Inodes /\ get[r].key \in Keys
      BY <1>2, <3>1 DEF StoreInvariant, FilesystemTypeOK, GetTypeOK
    <3>3. Readable(PathFor(get[r].key), get[r].fd) /\ PathFor(get[r].key) \in Paths
      BY <3>2, PathIsPath DEF Readable
    <3>4. Parses(bytes)
      BY <1>2, <3>1, <3>2, <3>3 DEF StoreInvariant, Published
    <3>5. Parsed(bytes) \in Payload
      BY <3>4, ParsedType
    <3>6. QED
      BY <3>1, <3>4, <3>5, NoneAssumption DEF Payload
  <2>3. QED
    BY <1>2, <2>1, <2>2, GotInherited DEF StoreInvariant
<1>3. GetReturnsWhole /\ GotTypeOK /\ StoreInvariant /\ [Next]_vars => GetReturnsWhole'
  BY <1>2
<1>4. QED
  BY <1>1, <1>3, GotTyped, StoreSafe, PTL DEF Spec

\* A get of a key that sanitize tells from all the others returns an entry that was
\* put under it, however puts overlap, fail or share a path
\* (filesystem_ancestor.rs, get, path_for, sanitize).
THEOREM GetIsOwn == Spec => []GetReturnsOwnEntry
<1>1. Init => GetReturnsOwnEntry
  BY DEF Init, GetReturnsOwnEntry
<1>2. ASSUME GetReturnsOwnEntry, GotTypeOK, StoreInvariant, [Next]_vars
      PROVE  GetReturnsOwnEntry'
  <2> SUFFICES ASSUME NEW r \in Readers, got'[r] # None, got'[r].found # None,
                      ~Collides(got'[r].asked)
               PROVE  got'[r].found.key = got'[r].asked
    BY DEF GetReturnsOwnEntry, Collides
  <2>1. CASE got'[r] = got[r]
    BY <1>2, <2>1 DEF GetReturnsOwnEntry
  <2>2. CASE GotStep(r)
    <3> DEFINE bytes == content[get[r].fd]
    <3>1. /\ get[r].step = "read"
          /\ got'[r].asked = get[r].key
          /\ got'[r].found = IF Parses(bytes) THEN Parsed(bytes) ELSE None
      BY <2>2 DEF GotStep
    <3>2. get[r].fd \in Inodes /\ get[r].key \in Keys
      BY <1>2, <3>1 DEF StoreInvariant, FilesystemTypeOK, GetTypeOK
    <3>3. Held(PathFor(get[r].key), get[r].fd) /\ PathFor(get[r].key) \in Paths
      BY <3>2, PathIsPath DEF Held
    <3>4. PICK p \in Payload : bytes = Bytes(p) /\ got'[r].found = p
      BY <3>1, ParsedType
    <3>5. 1 \in DOMAIN bytes /\ bytes[1] = <<p, 1>>
      BY <3>4, ChunksAssumption DEF Bytes
    <3>6. PathFor(p.key) = PathFor(get[r].key)
      <4>1. <<p, 1>> # Gap /\ <<p, 1>>[1] = p
        BY DEF Gap
      <4>2. \A j \in DOMAIN bytes :
               bytes[j] = Gap \/ PathFor(bytes[j][1].key) = PathFor(get[r].key)
        BY <1>2, <3>2, <3>3 DEF StoreInvariant, OwnPieces
      <4>3. bytes[1] = Gap \/ PathFor(bytes[1][1].key) = PathFor(get[r].key)
        BY <3>5, <4>2
      <4> HIDE DEF bytes
      <4>4. QED
        BY <3>5, <4>1, <4>3
    <3>7. p.key \in Keys
      BY DEF Payload
    <3>8. QED
      BY <3>1, <3>2, <3>4, <3>6, <3>7 DEF Collides, PathFor
  <2>3. QED
    BY <1>2, <2>1, <2>2, GotInherited DEF StoreInvariant
<1>3. GetReturnsOwnEntry /\ GotTypeOK /\ StoreInvariant /\ [Next]_vars => GetReturnsOwnEntry'
  BY <1>2
<1>4. QED
  BY <1>1, <1>3, GotTyped, StoreSafe, PTL DEF Spec

-----------------------------------------------------------------------------
(* The store implements the port.                                          *)

\* sanitize tells the exclusive keys apart.
PathsDistinct == \A k, l \in ExclusiveKeys : PathFor(k) = PathFor(l) => k = l

entryBar   == [k \in ExclusiveKeys |-> Stored(file[PathFor(k)])]
settledBar == [k \in ExclusiveKeys |-> Stored(old[PathFor(k)])]

\* What is stored under an exclusive key is an entry, and no step changes what
\* the files that can be read say.
LEMMA StoredKept ==
    ASSUME StoreInvariant, [Next]_vars, NEW k \in ExclusiveKeys,
           NEW i, i \in {file[PathFor(k)], old[PathFor(k)]}
    PROVE  /\ Stored(i) \in Entries \cup {None}
           /\ Stored(i)' = Stored(i)
<1> DEFINE p == PathFor(k)
<1>1. k \in Keys /\ p \in Paths \cap Exclusive
  BY PathIsPath DEF ExclusiveKeys
<1>2. i \in Inodes \cup {None}
  BY <1>1 DEF StoreInvariant, FilesystemTypeOK, FilesTypeOK
<1>3. CASE i = None
  BY <1>3 DEF Stored
<1>4. CASE i \in Inodes
  <2>1. i # None /\ Readable(p, i)
    BY <1>4, NoneAssumption DEF Readable
  <2>2. Parses(content[i]) /\ content'[i] = content[i]
    BY <1>1, <1>4, <2>1, ReadableKept
  <2>3. Parsed(content[i]) \in Payload
    BY <2>2, ParsedType
  <2>4. Parsed(content[i]).entry \in Entries
    BY <2>3 DEF Payload
  <2>5. QED
    BY <2>1, <2>2, <2>4 DEF Stored
<1>5. QED
  BY <1>2, <1>3, <1>4

\* A step that changes neither the names nor what they may fall back to.
LEMMA StoreStutters ==
    ASSUME StoreInvariant, [Next]_vars,
           \A k \in ExclusiveKeys : file'[PathFor(k)] = file[PathFor(k)]
                                    /\ old'[PathFor(k)] = old[PathFor(k)]
    PROVE  entryBar' = entryBar /\ settledBar' = settledBar
<1>1. ASSUME NEW k \in ExclusiveKeys
      PROVE  /\ Stored(file[PathFor(k)])' = Stored(file[PathFor(k)])
             /\ Stored(old[PathFor(k)])' = Stored(old[PathFor(k)])
  <2>1. Stored(file[PathFor(k)])' = Stored(file[PathFor(k)])
    BY StoredKept DEF Stored
  <2>2. Stored(old[PathFor(k)])' = Stored(old[PathFor(k)])
    BY StoredKept DEF Stored
  <2>3. QED
    BY <2>1, <2>2
<1>2. ExclusiveKeys' = ExclusiveKeys
  BY DEF ExclusiveKeys
<1>3. QED
  BY <1>1 DEF entryBar, settledBar, ExclusiveKeys, PathFor

\* At first the files say what an empty store does.
LEMMA AbstractInit ==
    ASSUME Init
    PROVE  Abstract!AInit
<1>1. ASSUME NEW k \in ExclusiveKeys
      PROVE  Stored(file[PathFor(k)]) = None /\ Stored(old[PathFor(k)]) = None
  BY PathIsPath DEF Init, Stored, ExclusiveKeys
<1>2. QED
  BY <1>1 DEF Abstract!AInit

\* A rename puts, a settled directory settles, a loss of power loses; all the
\* other steps change nothing that a get or a loss of power could bring out.
LEMMA AbstractStep ==
    ASSUME PathsDistinct, StoreInvariant, [Next]_vars
    PROVE  [Abstract!ANext]_<<entryBar, settledBar>>
<1>t. FilesystemTypeOK
  BY DEF StoreInvariant
<1>k. \A k \in ExclusiveKeys : k \in Keys /\ PathFor(k) \in Paths \cap Exclusive
  BY PathIsPath DEF ExclusiveKeys
<1>1. ASSUME NEW w \in Writers, Rename(w)
      PROVE  [Abstract!ANext]_<<entryBar, settledBar>>
  <2>1. PICK k \in Keys, e \in Entries :
           /\ PayloadOf(w) = [key |-> k, entry |-> e] /\ WriterPath(w) = PathFor(k)
           /\ put[w].step = "rename"
    BY <1>1, <1>t DEF Rename, FilesystemTypeOK, PutTypeOK, WellPut, PayloadOf, WriterPath
  <2> DEFINE p == PathFor(k)
  <2>2. /\ p \in Paths /\ [key |-> k, entry |-> e] \in Payload
        /\ file' = [file EXCEPT ![p] = tmp[p]] /\ old' = old /\ content' = content
    BY <1>1, <2>1, PathIsPath DEF Rename, Payload
  <2>3. ASSUME NEW l \in ExclusiveKeys, PathFor(l) # p
        PROVE  file'[PathFor(l)] = file[PathFor(l)]
    BY <1>t, <1>k, <2>2, <2>3 DEF FilesystemTypeOK, FilesTypeOK
  <2>4. CASE p \notin Exclusive
    <3>1. \A l \in ExclusiveKeys : PathFor(l) # p
      BY <2>4, <1>k
    <3>2. QED
      BY <2>2, <2>3, <3>1, StoreStutters
  <2>5. CASE p \in Exclusive
    <3>1. w \in alone /\ k \in ExclusiveKeys
      BY <2>1, <2>5, ExclusiveIsAlone DEF ExclusiveKeys
    <3>2. tmp[p] \in Inodes /\ content[tmp[p]] = Bytes([key |-> k, entry |-> e])
      BY <1>1, <2>1, <3>1, RenamePublishes
    <3>3. file'[p] = tmp[p] /\ content'[tmp[p]] = Bytes([key |-> k, entry |-> e])
      BY <1>t, <2>2, <3>2 DEF FilesystemTypeOK, FilesTypeOK
    <3>4. Stored(file[p])' = e
      <4>1. Parsed(Bytes([key |-> k, entry |-> e])) = [key |-> k, entry |-> e]
        BY <2>2, BytesParse
      <4>2. Stored(file[p])' = Parsed(Bytes([key |-> k, entry |-> e])).entry
        BY <3>2, <3>3, NoneAssumption DEF Stored
      <4>3. QED
        BY <4>1, <4>2
    <3>5. ASSUME NEW l \in ExclusiveKeys, l # k
          PROVE  Stored(file[PathFor(l)])' = Stored(file[PathFor(l)])
      <4>1. PathFor(l) # p
        BY <3>1, <3>5 DEF PathsDistinct
      <4>2. file'[PathFor(l)] = file[PathFor(l)]
        BY <2>3, <4>1
      <4>3. QED
        BY <2>2, <4>2 DEF Stored
    <3>6. settledBar' = settledBar
      BY <2>2 DEF settledBar, Stored
    <3>7. entryBar' = [entryBar EXCEPT ![k] = e]
      BY <3>1, <3>4, <3>5 DEF entryBar
    <3>8. QED
      BY <3>1, <3>6, <3>7 DEF Abstract!ANext, Abstract!APut, entryBar, settledBar
  <2>6. QED
    BY <2>4, <2>5
<1>2. ASSUME NEW q \in Paths, SettleDirectory(q)
      PROVE  [Abstract!ANext]_<<entryBar, settledBar>>
  <2>1. PICK k \in Keys : q = PathFor(k)
    BY DEF Paths
  <2>2. old' = [old EXCEPT ![q] = file[q]] /\ file' = file /\ content' = content
    BY <1>2 DEF SettleDirectory
  <2>3. ASSUME NEW l \in ExclusiveKeys, PathFor(l) # q
        PROVE  old'[PathFor(l)] = old[PathFor(l)]
    BY <1>t, <1>k, <2>2, <2>3 DEF FilesystemTypeOK, FilesTypeOK
  <2>4. CASE q \notin Exclusive
    <3>1. \A l \in ExclusiveKeys : PathFor(l) # q
      BY <2>4, <1>k
    <3>2. QED
      BY <2>2, <2>3, <3>1, StoreStutters
  <2>5. CASE q \in Exclusive
    <3>1. k \in ExclusiveKeys
      BY <2>1, <2>5 DEF ExclusiveKeys
    <3>2. Stored(old[q])' = Stored(file[q])
      BY <1>t, <2>2 DEF Stored, FilesystemTypeOK, FilesTypeOK
    <3>3. ASSUME NEW l \in ExclusiveKeys, l # k
          PROVE  Stored(old[PathFor(l)])' = Stored(old[PathFor(l)])
      <4>1. PathFor(l) # q
        BY <2>1, <3>1, <3>3 DEF PathsDistinct
      <4>2. old'[PathFor(l)] = old[PathFor(l)]
        BY <2>3, <4>1
      <4>3. QED
        BY <2>2, <4>2 DEF Stored
    <3>4. entryBar' = entryBar
      BY <2>2 DEF entryBar, Stored
    <3>5. settledBar' = [settledBar EXCEPT ![k] = entryBar[k]]
      BY <2>1, <3>1, <3>2, <3>3 DEF settledBar, entryBar
    <3>6. QED
      BY <3>1, <3>4, <3>5 DEF Abstract!ANext, Abstract!ASettle, entryBar, settledBar
  <2>6. QED
    BY <2>4, <2>5
<1>3. CASE PowerLoss
  <2>1. old' = file' /\ \A p \in Paths : file'[p] \in {file[p], old[p]}
    BY <1>3 DEF PowerLoss
  <2>2. ASSUME NEW k \in ExclusiveKeys
        PROVE  /\ Stored(file[PathFor(k)])' \in {Stored(file[PathFor(k)]), Stored(old[PathFor(k)])}
               /\ Stored(file[PathFor(k)])' \in Entries \cup {None}
    <3>1. file'[PathFor(k)] \in {file[PathFor(k)], old[PathFor(k)]}
      BY <1>k, <2>1
    <3>2. CASE file'[PathFor(k)] = file[PathFor(k)]
      <4>1. Stored(file[PathFor(k)])' = Stored(file[PathFor(k)])
        BY <3>2, StoredKept DEF Stored
      <4>2. QED
        BY <4>1, StoredKept
    <3>3. CASE file'[PathFor(k)] = old[PathFor(k)]
      <4>1. Stored(file[PathFor(k)])' = Stored(old[PathFor(k)])
        BY <3>3, StoredKept DEF Stored
      <4>2. QED
        BY <4>1, StoredKept
    <3>4. QED
      BY <3>1, <3>2, <3>3
  <2>3. settledBar' = entryBar'
    BY <2>1 DEF settledBar, entryBar, Stored
  <2>4. entryBar' \in [ExclusiveKeys -> Entries \cup {None}]
    BY <2>2 DEF entryBar
  <2>5. \A k \in ExclusiveKeys : entryBar'[k] \in {entryBar[k], settledBar[k]}
    BY <2>2 DEF entryBar, settledBar
  <2>6. QED
    BY <2>3, <2>4, <2>5 DEF Abstract!ANext, Abstract!APowerLoss, entryBar, settledBar
<1>4. CASE UNCHANGED <<file, old>>
  BY <1>4, StoreStutters
<1>5. ASSUME NEW w \in Writers,
             StartPut(w) \/ CreateTmp(w) \/ WriteChunk(w) \/ SyncAll(w) \/ RenameNotFound(w)
             \/ FailPut(w)
      PROVE  UNCHANGED <<file, old>>
  BY <1>5 DEF StartPut, CreateTmp, WriteChunk, SyncAll, RenameNotFound, FailPut
<1>6. ASSUME NEW r \in Readers, OpenForRead(r) \/ ReadAndParse(r)
      PROVE  UNCHANGED <<file, old>>
  BY <1>6 DEF OpenForRead, ReadAndParse
<1>7. CASE UNCHANGED vars
  BY <1>4, <1>7 DEF vars
<1>8. QED
  BY <1>1, <1>2, <1>3, <1>4, <1>5, <1>6, <1>7 DEF Next

\* The files of the exclusive paths implement the port's atomic register: a put
\* takes effect as a whole, at the rename (filesystem_ancestor.rs, put).
THEOREM ImplementsPort ==
    ASSUME PathsDistinct
    PROVE  Spec => ImplementsAncestorStore
<1>1. Init => Abstract!AInit
  BY AbstractInit
<1>2. StoreInvariant /\ [Next]_vars => [Abstract!ANext]_(Abstract!avars)
  BY AbstractStep DEF Abstract!avars, entryBar, settledBar
<1>3. QED
  BY <1>1, <1>2, StoreSafe, PTL DEF Spec, ImplementsAncestorStore, Abstract!ASpec
=============================================================================
