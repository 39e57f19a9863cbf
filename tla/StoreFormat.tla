----------------------------- MODULE StoreFormat -----------------------------
(***************************************************************************)
(* The game store as data: how a tree is cut into chunks and small files   *)
(* are packed into shared frames, which indexes a reader accepts, and what *)
(* a read or a restore of an accepted index returns.  src/pack/create.rs   *)
(* and src/pack/format.rs, as operators.                                   *)
(*                                                                         *)
(* A byte is a small number, a hash is the hashed bytes themselves, and    *)
(* what zstd saves is the length of a run.  A path is a sequence of names, *)
(* a chunk id is a position from one, and mode, times and attributes of an *)
(* entry are one value, meta.                                              *)
(***************************************************************************)
EXTENDS Integers, Sequences, FiniteSets

LOCAL INSTANCE SequencesExt

CONSTANTS
  MinChunk,     \* MIN_CHUNK_BYTES and SMALL_FILE_LIMIT
  MaxChunk,     \* CHUNK_BYTES
  GainFloor,    \* GROUP_GAIN_FLOOR
  CutByte,      \* the content after which a chunk may end
  CacheSize     \* CACHE_CHUNKS

ASSUME StoreSizes == /\ MinChunk \in Nat \ {0} /\ MaxChunk \in Nat
                     /\ MinChunk < MaxChunk /\ GainFloor \in Nat
                     /\ CacheSize \in Nat \ {0}

Header == 1
NoPath == <<>>
Versions == 1..7
External(version) == version \in {3, 5, 7}
SumOf(s) == FoldLeft(LAMBDA a, b : a + b, 0, s)
Zeros(n) == [i \in 1..n |-> 0]

-----------------------------------------------------------------------------
(* Chunks. *)

\* Where the chunk that starts after `from` ends.
EndsChunk(data, from, n) ==
  \/ n = MaxChunk
  \/ from + n = Len(data)
  \/ n >= MinChunk /\ data[from + n] = CutByte

ReadContentChunk(data, from) ==
  LET n == CHOOSE k \in 1..(Len(data) - from) :
             EndsChunk(data, from, k) /\ \A j \in 1..(k - 1) : ~EndsChunk(data, from, j)
  IN  SubSeq(data, from + 1, from + n)

Cuts(data) ==
  LET cut[from \in 0..Len(data)] ==
        IF from = Len(data) THEN <<>>
        ELSE LET c == ReadContentChunk(data, from) IN <<c>> \o cut[from + Len(c)]
  IN  cut[0]

\* What the smallest of the attempted levels comes to.
Squeezed(bytes) == 1 + Cardinality({i \in 2..Len(bytes) : bytes[i] # bytes[i - 1]})

Encode(bytes) ==
  IF \A i \in DOMAIN bytes : bytes[i] = 0 THEN [codec |-> "Zero", stored |-> 0]
  ELSE IF Squeezed(bytes) < Len(bytes) THEN [codec |-> "Zstd", stored |-> Squeezed(bytes)]
  ELSE [codec |-> "Raw", stored |-> Len(bytes)]

PayloadEnd(chunks) == Header + SumOf([i \in DOMAIN chunks |-> chunks[i].stored])

ChunkOf(bytes, offset) ==
  [offset |-> offset, stored |-> Encode(bytes).stored, raw |-> Len(bytes),
   codec |-> Encode(bytes).codec, hash |-> bytes]

Known(chunks, bytes) == \E i \in DOMAIN chunks : chunks[i].hash = bytes

\* Appends the chunk only when no chunk holds the same bytes yet.
InternChunk(chunks, bytes, version) ==
  IF Known(chunks, bytes) THEN chunks
  ELSE Append(chunks, ChunkOf(bytes, IF External(version) THEN 0 ELSE PayloadEnd(chunks)))

IdOf(chunks, bytes) == CHOOSE i \in DOMAIN chunks : chunks[i].hash = bytes

InternBatch(chunks, batch, version) ==
  FoldLeft(LAMBDA seen, bytes : InternChunk(seen, bytes, version), chunks, batch)

-----------------------------------------------------------------------------
(* Small files in shared frames. *)

SmallFile(s) == s.kind = "file" /\ s.same = NoPath /\ Len(s.data) \in 1..(MinChunk - 1)

\* Small files whose content no other small file has, of one extension.
Candidates(tree, ext) ==
  SelectSeq(tree, LAMBDA s :
    /\ SmallFile(s)
    /\ s.ext = ext
    /\ \A i \in DOMAIN tree : SmallFile(tree[i]) /\ tree[i].data = s.data => tree[i] = s)

TotalSize(group) == SumOf([i \in DOMAIN group |-> Len(group[i].data)])

\* Cut in path order before a frame would exceed the chunk limit.
GroupsOf(files) ==
  FoldLeft(LAMBDA groups, s :
             IF groups = <<>> \/ TotalSize(Last(groups)) + Len(s.data) > MaxChunk
             THEN Append(groups, <<s>>)
             ELSE Front(groups) \o <<Append(Last(groups), s)>>,
           <<>>, files)

Extensions(tree) == SetToSortSeq({tree[i].ext : i \in DOMAIN tree}, <)

AllGroups(tree) ==
  FoldLeft(LAMBDA gs, ext : gs \o GroupsOf(Candidates(tree, ext)), <<>>, Extensions(tree))

FrameOf(group) == FoldLeft(LAMBDA bytes, s : bytes \o s.data, <<>>, group)

\* A chunk already in this store or in the pool costs nothing.
CostOf(bytes, chunks, pool) ==
  IF Known(chunks, bytes) \/ bytes \in pool THEN 0 ELSE Encode(bytes).stored

GainsEnough(group, chunks, pool) ==
  /\ Len(group) >= 2
  /\ CostOf(FrameOf(group), chunks, pool) + GainFloor
       <= SumOf([i \in DOMAIN group |-> CostOf(group[i].data, chunks, pool)])

\* The frames kept, the chunks they became and the slices of their files.
GroupSmallFiles(tree, pool, version) ==
  FoldLeft(LAMBDA got, group :
             IF ~GainsEnough(group, got.chunks, pool) THEN got
             ELSE LET chunks == InternChunk(got.chunks, FrameOf(group), version)
                  IN  [chunks |-> chunks,
                       slices |-> got.slices \o
                         [i \in DOMAIN group |->
                            [path |-> group[i].path, kind |-> "SlicedFile",
                             size |-> Len(group[i].data),
                             chunk |-> IdOf(chunks, FrameOf(group)),
                             offset |-> TotalSize(SubSeq(group, 1, i - 1))]]],
           [chunks |-> <<>>, slices |-> <<>>], AllGroups(tree))

-----------------------------------------------------------------------------
(* The index of a tree. *)

EntryAt(entries, path) == CHOOSE i \in DOMAIN entries : entries[i].path = path
HasEntry(entries, path) == \E i \in DOMAIN entries : entries[i].path = path

Sliced(slices, path) == SelectSeq(slices, LAMBDA k : k.path = path)

KindOf(s, slices, chunks, entries) ==
  CASE s.kind = "link" -> [kind |-> "Symlink", target |-> s.target]
    [] s.kind = "dir" -> [kind |-> "Directory"]
    [] s.kind = "file" /\ s.same # NoPath -> entries[EntryAt(entries, s.same)].kind
    [] OTHER ->
         IF Sliced(slices, s.path) # <<>>
         THEN LET k == Sliced(slices, s.path)[1]
              IN  [kind |-> "SlicedFile", size |-> k.size, chunk |-> k.chunk, offset |-> k.offset]
         ELSE [kind |-> "File", size |-> Len(s.data),
               chunks |-> [i \in DOMAIN Cuts(s.data) |-> IdOf(chunks, Cuts(s.data)[i])]]

\* create.rs refuses these trees: a setuid file, a link kept outside the folder.
Buildable(tree) == \A i \in DOMAIN tree : ~tree[i].setid \/ tree[i].kind # "file"

BuildIndex(tree, pool, version) ==
  LET grouped == GroupSmallFiles(tree, pool, version)
      Add(index, s) ==
        LET whole == s.kind = "file" /\ s.same = NoPath /\ Sliced(grouped.slices, s.path) = <<>>
            chunks == IF whole THEN InternBatch(index.chunks, Cuts(s.data), version)
                               ELSE index.chunks
        IN  [chunks |-> chunks,
             entries |-> Append(index.entries,
               [path |-> s.path, meta |-> s.meta, setid |-> s.setid, same |-> s.same,
                kind |-> KindOf(s, grouped.slices, chunks, index.entries)])]
  IN  FoldLeft(Add, [chunks |-> grouped.chunks, entries |-> <<>>], tree)

-----------------------------------------------------------------------------
(* Index::validate. *)

CodecFits(c) ==
  CASE c.codec = "Raw" -> c.stored = c.raw
    [] c.codec = "Zstd" -> c.stored > 0 /\ c.stored < c.raw
    [] c.codec = "Zero" -> c.stored = 0

ChunksFit(chunks, end, version) ==
  /\ \A i \in DOMAIN chunks :
       /\ chunks[i].raw \in 1..MaxChunk
       /\ CodecFits(chunks[i])
       /\ chunks[i].offset = IF External(version) THEN 0
                             ELSE PayloadEnd(SubSeq(chunks, 1, i - 1))
  /\ External(version) \/ PayloadEnd(chunks) = end

\* Entry n among the entries before it: its parent, its alias, its metadata.
EntryFits(entries, n, version) ==
  LET e == entries[n]
      before == SubSeq(entries, 1, n - 1)
      file == e.kind.kind \in {"File", "SlicedFile"}
  IN  /\ e.setid => ~file /\ version >= 4
      /\ e.same # NoPath => version >= 4 /\ file
      /\ n = 1 => e.path = NoPath /\ e.kind.kind = "Directory"
      /\ n # 1 =>
           /\ e.path # NoPath
           /\ HasEntry(before, Front(e.path))
           /\ before[EntryAt(before, Front(e.path))].kind.kind = "Directory"
      /\ ~HasEntry(before, e.path)
      /\ e.same # NoPath =>
           /\ HasEntry(before, e.same)
           /\ LET t == before[EntryAt(before, e.same)]
              IN  t.kind = e.kind /\ t.same = NoPath /\ t.meta = e.meta

CeilDiv(a, b) == (a + b - 1) \div b
RawOf(chunks, ids) == [i \in DOMAIN ids |-> chunks[ids[i]].raw]

\* The chunks of a file cover its size exactly, in the version's own cuts.
FileFits(chunks, k, version) ==
  /\ \A i \in DOMAIN k.chunks : k.chunks[i] \in DOMAIN chunks
  /\ version = 1 =>
       /\ Len(k.chunks) = CeilDiv(k.size, MaxChunk)
       /\ \A i \in DOMAIN k.chunks : i < Len(k.chunks) => chunks[k.chunks[i]].raw = MaxChunk
  /\ version > 1 =>
       /\ Len(k.chunks) <= CeilDiv(k.size, MinChunk)
       /\ \A i \in DOMAIN k.chunks : i < Len(k.chunks) => chunks[k.chunks[i]].raw >= MinChunk
  /\ SumOf(RawOf(chunks, k.chunks)) = k.size

SliceFits(chunks, k, version) ==
  /\ version >= 6
  /\ k.size \in 1..(MinChunk - 1)
  /\ k.chunk \in DOMAIN chunks
  /\ k.offset + k.size <= chunks[k.chunk].raw

\* The slices of a frame, equal ones merged, tile it from end to end.
FrameTiled(entries, id, raw) ==
  LET ranges == {<<e.kind.offset, e.kind.offset + e.kind.size>> :
                   e \in {entries[i] : i \in {j \in DOMAIN entries :
                            entries[j].kind.kind = "SlicedFile" /\ entries[j].kind.chunk = id}}}
  IN  \/ ranges = {}
      \/ /\ \A r \in ranges : r[1] = 0 \/ \E q \in ranges : q[2] = r[1]
         /\ \A r, q \in ranges : r # q => r[2] <= q[1] \/ q[2] <= r[1]
         /\ \E r \in ranges : r[2] = raw

UsedChunks(entries) ==
  UNION {CASE entries[i].kind.kind = "File" -> Range(entries[i].kind.chunks)
           [] entries[i].kind.kind = "SlicedFile" -> {entries[i].kind.chunk}
           [] OTHER -> {} : i \in DOMAIN entries}

\* check_link: the walk of a symlink's target through the index.  fuel is the
\* bound on expansions; "/" is a root component.
RECURSIVE LinkStays(_, _, _, _)
LinkStays(entries, resolved, pending, fuel) ==
  IF pending = <<>> THEN TRUE
  ELSE LET part == Head(pending)
           at == Append(resolved, part)
       IN  CASE part = "/" -> FALSE
             [] part = ".." -> resolved # <<>> /\ LinkStays(entries, Front(resolved), Tail(pending), fuel)
             [] part = "." -> LinkStays(entries, resolved, Tail(pending), fuel)
             [] OTHER ->
                  IF HasEntry(entries, at) /\ entries[EntryAt(entries, at)].kind.kind = "Symlink"
                  THEN /\ fuel > 0
                       /\ LinkStays(entries, resolved,
                            entries[EntryAt(entries, at)].kind.target \o Tail(pending), fuel - 1)
                  ELSE LinkStays(entries, at, Tail(pending), fuel)

CheckLink(entries, e) ==
  e.kind.target # <<>> /\ LinkStays(entries, <<>>, Front(e.path) \o e.kind.target, 3)

Validate(index, end, version) ==
  /\ index.entries # <<>>
  /\ ChunksFit(index.chunks, end, version)
  /\ \A n \in DOMAIN index.entries :
       LET e == index.entries[n]
       IN  /\ EntryFits(index.entries, n, version)
           /\ e.kind.kind = "File" => FileFits(index.chunks, e.kind, version)
           /\ e.kind.kind = "SlicedFile" => SliceFits(index.chunks, e.kind, version)
           /\ e.kind.kind = "Symlink" => CheckLink(index.entries, e)
  /\ \A id \in DOMAIN index.chunks : FrameTiled(index.entries, id, index.chunks[id].raw)
  /\ UsedChunks(index.entries) = DOMAIN index.chunks

-----------------------------------------------------------------------------
(* Reading an accepted index. *)

\* The decoded bytes of a chunk: what was hashed.
Decode(index, id) == index.chunks[id].hash

\* finish: the offset at which each chunk of a file begins.
Starts(index, k) ==
  [i \in DOMAIN k.chunks |-> SumOf(RawOf(index.chunks, SubSeq(k.chunks, 1, i - 1)))]

\* partition_point: the last chunk that begins at or before the position.
Ordinal(index, k, position) ==
  Cardinality({i \in DOMAIN k.chunks : Starts(index, k)[i] <= position})

ReadAt(index, k, offset, length) ==
  LET count == IF offset > k.size THEN 0
               ELSE IF k.size - offset < length THEN k.size - offset ELSE length
      step[position \in offset..(offset + count)] ==
        IF position = offset + count THEN <<>>
        ELSE LET o == Ordinal(index, k, position)
                 bytes == Decode(index, k.chunks[o])
                 from == position - Starts(index, k)[o]
                 take == IF offset + count - position < Len(bytes) - from
                         THEN offset + count - position ELSE Len(bytes) - from
             IN  IF take <= 0 THEN <<>>    \* "Invalid chunk range"
                 ELSE SubSeq(bytes, from + 1, from + take) \o step[position + take]
  IN  IF k.kind = "SlicedFile"
      THEN SubSeq(Decode(index, k.chunk), k.offset + offset + 1, k.offset + offset + count)
      ELSE step[offset]

\* The bytes of a file after set_len, or after a write that starts at size.
SetLengthShort(bytes, size) == bytes
SetLength(bytes, size) == SubSeq(bytes \o Zeros(size), 1, size)

\* restore writes each chunk where the last ended, only moves past a zero chunk
\* and sets the length last.
RestoredFile(index, k) ==
  IF k.kind = "SlicedFile" THEN ReadAt(index, k, 0, k.size)
  ELSE LET Write(file, id) ==
             [at |-> file.at + index.chunks[id].raw,
              bytes |-> IF index.chunks[id].codec = "Zero" THEN file.bytes
                        ELSE SetLength(file.bytes, file.at) \o Decode(index, id)]
       IN  SetLength(FoldLeft(Write, [at |-> 0, bytes |-> <<>>], k.chunks).bytes, k.size)

\* Directories and files, then links; an alias is linked to its target.
Restored(index) ==
  [n \in DOMAIN index.entries |->
     LET e == index.entries[n]
     IN  [path |-> e.path, meta |-> e.meta, setid |-> e.setid, same |-> e.same,
          kind |-> CASE e.kind.kind = "Directory" -> "dir"
                     [] e.kind.kind = "Symlink" -> "link"
                     [] OTHER -> "file",
          data |-> CASE e.kind.kind = "Directory" -> <<>>
                     [] e.kind.kind = "Symlink" -> <<>>
                     [] OTHER -> RestoredFile(index, IF e.same = NoPath THEN e.kind
                                   ELSE index.entries[EntryAt(index.entries, e.same)].kind),
          target |-> IF e.kind.kind = "Symlink" THEN e.kind.target ELSE <<>>]]

\* A path of the folder is in the store and equal to it.
PathMatches(index, s) ==
  /\ HasEntry(index.entries, s.path)
  /\ LET e == index.entries[EntryAt(index.entries, s.path)]
     IN  /\ s.meta = e.meta /\ s.setid = e.setid
         /\ e.same # NoPath => s.same = e.same
         /\ CASE e.kind.kind = "Directory" -> s.kind = "dir"
              [] e.kind.kind = "Symlink" -> s.kind = "link" /\ s.target = e.kind.target
              [] OTHER -> /\ s.kind = "file"
                          /\ Len(s.data) = e.kind.size
                          /\ ReadAt(index, e.kind, 0, e.kind.size) = s.data

\* verify_directory: every path matches and no path of the store is missing.
VerifyDirectory(index, tree) ==
  /\ \A i \in DOMAIN tree : PathMatches(index, tree[i])
  /\ Len(tree) = Len(index.entries)

\* One read of a chunk through the cache: recent lists the least recent first.
CachedChunk(recent, id) ==
  IF id \in Range(recent) THEN Append(SelectSeq(recent, LAMBDA old : old # id), id)
  ELSE Append(IF Len(recent) >= CacheSize THEN Tail(recent) ELSE recent, id)

-----------------------------------------------------------------------------
(* The inputs the properties range over: given is a tree to store, an index to *)
(* read or a sequence of chunk reads.                                          *)

PlainDir(path) == [path |-> path, kind |-> "dir", data |-> <<>>, ext |-> 0, same |-> NoPath,
              setid |-> FALSE, meta |-> "m", target |-> <<>>]
PlainFile(path, data, ext) ==
  [path |-> path, kind |-> "file", data |-> data, ext |-> ext, same |-> NoPath,
   setid |-> FALSE, meta |-> "m", target |-> <<>>]
Alias(path, f) == [f EXCEPT !.path = path, !.same = f.path]
LinkTo(path, target) == [PlainDir(path) EXCEPT !.kind = "link", !.target = target]

BytesUpTo(n) == UNION {[1..k -> 0..1] : k \in 0..n}

\* Two small files of one extension and two of another.
SmallTrees ==
  {<<PlainDir(NoPath), PlainFile(<<"a">>, w, 1), PlainFile(<<"b">>, x, 1),
     PlainFile(<<"c">>, y, 2), PlainFile(<<"d">>, z, 2)>> : w, x, y, z \in BytesUpTo(2)}

\* A file of several chunks with a second name and a link to it; a file of
\* several chunks beside two small ones.
LargeTrees ==
  {<<PlainDir(NoPath), PlainDir(<<"a">>), PlainFile(<<"a", "b">>, x, 1),
     Alias(<<"c">>, PlainFile(<<"a", "b">>, x, 1)), LinkTo(<<"d">>, <<"a", "b">>)>> :
     x \in BytesUpTo(7)}
  \cup {<<PlainDir(NoPath), PlainFile(<<"a">>, x, 1), PlainFile(<<"b">>, y, 1),
          PlainFile(<<"c">>, z, 1)>> : x \in BytesUpTo(4), y \in BytesUpTo(2), z \in BytesUpTo(1)}

\* Indexes anyone may have written: one or two chunks and two files.
HandEntry(path, kind) ==
  [path |-> path, meta |-> "m", setid |-> FALSE, same |-> NoPath, kind |-> kind]
HandChunks ==
  {<<ChunkOf(Zeros(r), Header)>> : r \in 1..2}
  \cup {<<ChunkOf([i \in 1..r |-> 1], Header), ChunkOf(Zeros(q), Header + 1)>> :
          r \in 2..3, q \in 1..2}
HandKinds ==
  {[kind |-> "File", size |-> s, chunks |-> ids] :
     s \in 0..4, ids \in UNION {[1..k -> 1..2] : k \in 0..2}}
  \cup {[kind |-> "SlicedFile", size |-> s, chunk |-> c, offset |-> o] :
          s \in 0..2, c \in 1..3, o \in 0..2}
HandIndexes ==
  {[chunks |-> cs, entries |-> <<HandEntry(NoPath, [kind |-> "Directory"]),
                                 HandEntry(<<"a">>, x), HandEntry(<<"b">>, y)>>] :
     cs \in HandChunks, x, y \in HandKinds}

VARIABLE given

Given(what, value) == [what |-> what, value |-> value]
FormatInit == given \in {Given("tree", t) : t \in SmallTrees \cup LargeTrees}
                   \cup {Given("index", i) : i \in HandIndexes}
                   \cup {Given("reads", r) : r \in [1..5 -> 1..3]}

\* Two frames worth keeping that hold the same bytes under different cuts:
\* the second reuses the first's chunk, and validate refuses the index.
SameFrames(tree) ==
  \E i, j \in DOMAIN AllGroups(tree) :
    /\ i # j
    /\ Len(AllGroups(tree)[i]) > 1 /\ Len(AllGroups(tree)[j]) > 1
    /\ FrameOf(AllGroups(tree)[i]) = FrameOf(AllGroups(tree)[j])

BuildEnd(index, version) == IF External(version) THEN 0 ELSE PayloadEnd(index.chunks)

\* Every index create.rs builds passes the validation that comes before it is
\* published: aliases repeat their target, slices tile their frame, no chunk is
\* unused and the payloads leave no gap, unless two frames have the same bytes.
\* (create.rs:724, create.rs:887)
BuiltValid ==
  given.what = "tree" =>
    \A version \in {6, 7}, pool \in {{}, {<<1, 1>>}} :
      Buildable(given.value) /\ ~SameFrames(given.value) =>
        LET index == BuildIndex(given.value, pool, version)
        IN  Validate(index, BuildEnd(index, version), version)

\* Any range of any file read through the store is that range of the file,
\* across chunk boundaries, in shared frames and past the end.  (format.rs:853)
ReadExact ==
  given.what = "tree" =>
    LET tree == given.value
        index == BuildIndex(tree, {}, 7)
    IN  \A n \in DOMAIN tree : tree[n].kind = "file" =>
          \A offset \in 0..(Len(tree[n].data) + 1), length \in {1, 3, MaxChunk} :
            ReadAt(index, index.entries[n].kind, offset, length)
              = SubSeq(tree[n].data, offset + 1,
                  IF offset + length < Len(tree[n].data) THEN offset + length
                  ELSE Len(tree[n].data))

\* Restoring the store of a tree gives back the tree, holes, aliases and links
\* included, whichever files were grouped.  (restore.rs:60-151)
RestoreExact ==
  given.what = "tree" =>
    LET tree == given.value
        back == Restored(BuildIndex(tree, {}, 6))
    IN  /\ DOMAIN back = DOMAIN tree
        /\ \A n \in DOMAIN tree :
             /\ back[n].path = tree[n].path /\ back[n].kind = tree[n].kind
             /\ back[n].meta = tree[n].meta /\ back[n].same = tree[n].same
             /\ back[n].data = tree[n].data /\ back[n].target = tree[n].target

\* An index the reader accepts is read without an error, and restored without a
\* length that set_len had to repair, whoever wrote it: the chunks of a file
\* come to its size and every slice lies inside its frame. (format.rs:179-480)
AcceptedRestores ==
  given.what = "index" =>
    \A version \in {2, 6} :
      Validate(given.value, BuildEnd(given.value, version), version) =>
        \A n \in {2, 3} :
          LET k == given.value.entries[n].kind
          IN  IF k.kind = "SlicedFile" THEN Len(RestoredFile(given.value, k)) = k.size
              ELSE /\ SumOf(RawOf(given.value.chunks, k.chunks)) = k.size
                   /\ \A o \in 0..k.size : Len(ReadAt(given.value, k, o, MaxChunk)) =
                        IF k.size - o < MaxChunk THEN k.size - o ELSE MaxChunk

\* A folder with one file changed, one file more, or two names made one file.
Changed(tree) ==
  {[tree EXCEPT ![n].data = x] : n \in {i \in DOMAIN tree : tree[i].kind = "file"}, x \in BytesUpTo(2)}
  \cup {[tree EXCEPT ![n].meta = "changed"] : n \in DOMAIN tree}
  \cup {[tree EXCEPT ![n].same = NoPath] : n \in DOMAIN tree}
  \cup {Append(tree, PlainFile(<<"new">>, <<>>, 1)), Front(tree)}

\* Activation's comparison accepts the folder a store was made from and no
\* folder that differs from it by one change.  A hard link made since between
\* two files the store keeps apart is the change it would not notice.
\* (format.rs:944)
VerifyTells ==
  given.what = "tree" =>
    LET index == BuildIndex(given.value, {}, 7)
    IN  /\ VerifyDirectory(index, given.value)
        /\ \A now \in Changed(given.value) : VerifyDirectory(index, now) => now = given.value

\* After any sequence of reads the cache holds the last distinct chunks read,
\* as many as it may hold and each once.  (format.rs:767-790)
CacheKeepsRecent ==
  given.what = "reads" =>
    LET reads == given.value
        recent == FoldLeft(CachedChunk, <<>>, reads)
        lastRead == [id \in Range(reads) |-> CHOOSE i \in DOMAIN reads :
                       reads[i] = id /\ \A j \in DOMAIN reads : j > i => reads[j] # id]
    IN  /\ Len(recent) = Cardinality(Range(recent))
        /\ Len(recent) = IF Cardinality(Range(reads)) < CacheSize
                         THEN Cardinality(Range(reads)) ELSE CacheSize
        /\ \A id \in Range(recent), other \in Range(reads) \ Range(recent) :
             lastRead[other] < lastRead[id]

\* What create.rs writes is valid, every part of the reader gives back the bytes it was
\* made from, and the comparison before an activation tells a changed folder.
StoreExact ==
  BuiltValid /\ ReadExact /\ RestoreExact /\ AcceptedRestores /\ VerifyTells /\ CacheKeepsRecent
=============================================================================
