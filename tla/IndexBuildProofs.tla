-------------------------- MODULE IndexBuildProofs --------------------------
(***************************************************************************)
(* The index on disk, for any number of files, contents, settings, edits,  *)
(* runs and crashes.  A full build repairs the index and the dense files   *)
(* stay aligned whatever the settings do.  What a manifest entry claims of *)
(* the chunk cache and of the index files is safe as long as contents and  *)
(* settings only move forward: a claim then never becomes true by itself,  *)
(* and everything made while it held is what it says.                      *)
(***************************************************************************)
EXTENDS IndexBuild, FiniteSetTheorems, SequenceTheorems, TLAPS

Parts == {"faiss", "chunks", "bm25"}
FilesOf(batches) == {b.file : b \in ToSet(batches)}
InPlace == run.phase \in {"faiss", "chunks", "bm25", "manifest"}

Fields == {"kind", "phase", "listed", "todo", "hash", "setting", "manifest",
           "all", "new", "faiss", "chunks", "bm25"}
Shapes ==
    /\ DOMAIN run = Fields
    /\ run.kind = "none" <=> run.phase = "idle"
    /\ run.phase = "idle" => run = NoRun

(* A run has made one batch of each file it is through with.               *)
Chunked ==
    /\ run.todo \subseteq run.listed
    /\ FilesOf(run.all) = run.listed \ run.todo
    /\ Len(run.all) = Cardinality(run.listed \ run.todo)
    /\ \A f \in run.listed \ run.todo : run.manifest[f] # Absent
    /\ ToSet(run.new) \subseteq ToSet(run.all)
    /\ InPlace => run.todo = {} /\ Gone = {}
    /\ \A f \in Files : Readable(cache[f]) => cache[f].file = f

(* What a run has in memory, and how far it has got with writing it.       *)
Written ==
    /\ InPlace => run.faiss \in Seq(Batches) /\ run.chunks \in Seq(Batches)
    /\ InPlace /\ run.kind = "build" =>
         run.faiss = run.all /\ run.chunks = run.all /\ run.bm25 = run.all
    /\ InPlace /\ run.kind = "server" => run.bm25 = Absent
    /\ run.phase \in {"chunks", "bm25", "manifest"} => index.faiss = run.faiss
    /\ run.phase \in {"bm25", "manifest"} => index.chunks = run.chunks
    /\ run.phase = "manifest" /\ run.kind # "server" => index.bm25 = run.bm25

Aligned ==
    left.deaths = MaxDeaths =>
      /\ run.phase \in {"idle", "files", "faiss"} => index.faiss = index.chunks
      /\ InPlace => run.faiss = run.chunks

IInv == TypeOK /\ Shapes /\ Chunked /\ Written /\ Aligned

-----------------------------------------------------------------------------
(* A manifest m claims a file, of what is in data/raw, if a run started    *)
(* now with settings s would not process the file again.                   *)
Claims(files, m, f, s) == m # Torn /\ files[f] # Absent /\ Reusable(m[f], files[f], s)
Made(files, f, s) == [file |-> f, version |-> files[f], setting |-> s]
Fresh(files, m, s, content) ==
    Readable(content) =>
      \A f \in Files : Claims(files, m, f, s) => Made(files, f, s) \in ToSet(content)
Matches(files, chunks, m, s) ==
    \A f \in Files : Claims(files, m, f, s) /\ Readable(chunks[f]) => chunks[f] = Made(files, f, s)

(* Nothing is ever newer than what there has been.                         *)
Known(m) == \A f \in Files : m # Torn /\ m[f] # Absent =>
                m[f].hash <= seen.version[f] /\ m[f].setting <= seen.setting
Newest ==
    /\ setting = seen.setting
    /\ \A f \in Files : raw[f] # Absent => raw[f] = seen.version[f]
    /\ run.setting <= seen.setting
    /\ \A f \in Files : Current(f) /\ run.hash # Absent => run.hash <= seen.version[f]
    /\ Known(manifest) /\ Known(run.manifest)

(* Of the chunk cache: what is claimed, by the manifest on disk or by the  *)
(* run's own, is what was made of the file; and so it was when the run     *)
(* hashed the file it is at.                                               *)
HashMatches ==
    \A f \in Files :
      Current(f) /\ run.hash # Absent /\ Readable(cache[f])
        /\ Reusable(run.manifest[f], run.hash, run.setting)
      => cache[f] = [file |-> f, version |-> run.hash, setting |-> run.setting]
CacheSound ==
    /\ Matches(raw, cache, manifest, setting)
    /\ Matches(raw, cache, run.manifest, setting)
    /\ Matches(raw, cache, run.manifest, run.setting)
    /\ HashMatches

(* Of a run under way: its settings and files, its batches, and what it    *)
(* has not recorded yet.                                                   *)
BatchesMatch(m) ==
    \A b \in ToSet(run.all) : Claims(raw, m, b.file, setting) => b = Made(raw, b.file, setting)
RunSound ==
    Running =>
      /\ manifest # Torn
      /\ \A f \in Files : Claims(raw, manifest, f, setting) =>
                          run.setting = setting /\ f \in run.listed
      /\ run.phase = "files" =>
           /\ BatchesMatch(manifest) /\ BatchesMatch(run.manifest)
           /\ \A f \in Files : \/ run.manifest[f] = manifest[f]
                               \/ run.manifest[f] = Absent
                               \/ f \in FilesOf(run.new)

(* Of the index files, on disk and in memory.                              *)
FreshInMemory(m) ==
    /\ Fresh(raw, m, setting, run.faiss)
    /\ Fresh(raw, m, setting, run.chunks)
    /\ Fresh(raw, m, setting, run.bm25)
IndexSound ==
    /\ \A part \in Parts : Fresh(raw, manifest, setting, index[part])
    /\ InPlace => FreshInMemory(manifest) /\ FreshInMemory(run.manifest)
    /\ index.faiss = Absent =>
         manifest = NoEntries /\ index.chunks = Absent /\ index.bm25 = Absent
    /\ run.kind = "server" => index.bm25 = Absent

RInv == Newest /\ CacheSound /\ RunSound /\ IndexSound
-----------------------------------------------------------------------------
(* What each step does, field by field.                                    *)

KeepsBut(fields) ==
    DOMAIN run' = Fields /\ \A x \in Fields \ fields : run'[x] = run[x]

LEMMA NoRunFields ==
    /\ DOMAIN NoRun = Fields
    /\ NoRun.kind = "none" /\ NoRun.phase = "idle"
    /\ NoRun.listed = {} /\ NoRun.todo = {} /\ NoRun.hash = Absent /\ NoRun.setting = 1
    /\ NoRun.manifest = NoEntries /\ NoRun.all = <<>> /\ NoRun.new = <<>>
    /\ NoRun.faiss = Absent /\ NoRun.chunks = Absent /\ NoRun.bm25 = Absent
  BY DEF NoRun, Fields

LEMMA Starting ==
    ASSUME TypeOK, NEW kind, Start(kind)
    PROVE  /\ DOMAIN run' = Fields
           /\ run'.kind = kind /\ run'.phase = "files"
           /\ run'.listed = Present /\ run'.todo = Present
           /\ run'.setting = setting /\ run'.manifest = manifest
           /\ \A x \in {"hash", "all", "new", "faiss", "chunks", "bm25"} : run'[x] = NoRun[x]
           /\ left' \in [edits : 0 .. MaxEdits, runs : 0 .. MaxRuns, deaths : 0 .. MaxDeaths]
           /\ left'.deaths = left.deaths
  BY NoRunFields, IndexAssumption DEF Start, Fields, TypeOK

LEMMA Hashing ==
    ASSUME Shapes, NEW f, HashFile(f)
    PROVE  KeepsBut({"hash"}) /\ run'.hash = raw[f]
  BY DEF HashFile, KeepsBut, Shapes, Fields

LEMMA Reusing ==
    ASSUME Shapes, NEW f, ReuseChunks(f)
    PROVE  /\ KeepsBut({"todo", "hash", "all"})
           /\ run'.todo = run.todo \ {f} /\ run'.hash = Absent
           /\ run'.all = Append(run.all, cache[f])
  BY DEF ReuseChunks, KeepsBut, Shapes, Fields

LEMMA Rechunking ==
    ASSUME Shapes, NEW f, Rechunk(f)
    PROVE  /\ KeepsBut({"todo", "hash", "manifest", "all", "new"})
           /\ run'.todo = run.todo \ {f} /\ run'.hash = Absent
           /\ run'.manifest = [run.manifest EXCEPT ![f] = [hash |-> run.hash, setting |-> run.setting]]
           /\ run'.all = Append(run.all, Made(raw, f, run.setting))
           /\ run'.new = Append(run.new, Made(raw, f, run.setting))
           /\ cache' = [cache EXCEPT ![f] = Made(raw, f, run.setting)]
  BY DEF Rechunk, KeepsBut, Shapes, Fields, Made

LEMMA Dropping ==
    ASSUME Shapes, NEW f, DropRemoved(f)
    PROVE  KeepsBut({"manifest"}) /\ run'.manifest = [run.manifest EXCEPT ![f] = Absent]
  BY DEF DropRemoved, KeepsBut, Shapes, Fields

LEMMA Indexing ==
    ASSUME Shapes, NEW a, NEW b, NEW c, InMemory(a, b, c)
    PROVE  /\ KeepsBut({"phase", "faiss", "chunks", "bm25"})
           /\ run'.phase = "faiss" /\ run'.faiss = a /\ run'.chunks = b /\ run'.bm25 = c
           /\ UNCHANGED <<cache, manifest, index, raw, setting, seen, left>>
  BY DEF InMemory, KeepsBut, Shapes, Fields, disk, world

LEMMA Writing ==
    ASSUME TypeOK, Shapes, NEW part, NEW next, Write(part, next),
           part \in Parts, index' = [index EXCEPT ![part] = run[part]]
    PROVE  /\ KeepsBut({"phase"}) /\ run.phase = part /\ run'.phase = next
           /\ index'[part] = run[part] /\ DOMAIN index' = Parts
           /\ \A p \in Parts \ {part} : index'[p] = index[p]
           /\ UNCHANGED <<cache, manifest, raw, setting, seen, left>>
  BY DEF Write, KeepsBut, Shapes, Fields, TypeOK, Parts, world

(* A run that ends, for good or by a crash, leaves no trace of itself.     *)
LEMMA Stopping ==
    ASSUME TypeOK, Shapes, Dies
    PROVE  /\ run' = NoRun /\ UNCHANGED <<raw, setting, seen>>
           /\ left' \in [edits : 0 .. MaxEdits, runs : 0 .. MaxRuns, deaths : 0 .. MaxDeaths]
           /\ left'.deaths # MaxDeaths
           /\ run.phase # "idle"
  BY IndexAssumption DEF Dies, TypeOK, Shapes, Running, world

LEMMA Tearing ==
    ASSUME TypeOK, Shapes, StopWriting
    PROVE  /\ cache' = cache \/ \E f \in Files : cache' = [cache EXCEPT ![f] = Torn]
           /\ manifest' \in {manifest, Torn}
           /\ manifest' # manifest => run.phase = "manifest"
           /\ \/ index' = index
              \/ \E part \in Parts : run.phase = part /\ index' = [index EXCEPT ![part] = Torn]
  BY DEF StopWriting, Parts, Current, TypeOK

-----------------------------------------------------------------------------
(* Lists of batches.                                                       *)

LEMMA AddedBatch ==
    ASSUME NEW s \in Seq(Batches), NEW b \in Batches
    PROVE  /\ Append(s, b) \in Seq(Batches) /\ Len(Append(s, b)) = Len(s) + 1
           /\ ToSet(Append(s, b)) = ToSet(s) \union {b}
           /\ FilesOf(Append(s, b)) = FilesOf(s) \union {b.file}
  <1> DEFINE v == Append(s, b)
  <1> HIDE DEF Batches
  <1>1. /\ v \in Seq(Batches) /\ Len(v) = Len(s) + 1
        /\ \A i \in 1 .. Len(s) : v[i] = s[i]
        /\ v[Len(s) + 1] = b
    BY AppendProperties
  <1>2. DOMAIN s = 1 .. Len(s) /\ DOMAIN v = 1 .. (Len(s) + 1) /\ Len(s) \in Nat
    BY <1>1, LenProperties
  <1> HIDE DEF v
  <1>3. ToSet(v) = ToSet(s) \union {b}
    BY <1>1, <1>2 DEF ToSet
  <1>4. FilesOf(v) = FilesOf(s) \union {b.file}
    BY <1>3 DEF FilesOf
  <1> QED
    BY <1>1, <1>3, <1>4 DEF v

LEMMA JoinedBatches ==
    ASSUME NEW s \in Seq(Batches), NEW t \in Seq(Batches)
    PROVE  s \o t \in Seq(Batches) /\ ToSet(s \o t) = ToSet(s) \union ToSet(t)
  <1> DEFINE v == s \o t
  <1> HIDE DEF Batches
  <1>1. /\ v \in Seq(Batches) /\ Len(v) = Len(s) + Len(t)
        /\ \A i \in 1 .. Len(v) : v[i] = IF i <= Len(s) THEN s[i] ELSE t[i - Len(s)]
    BY ConcatProperties
  <1>2. /\ DOMAIN s = 1 .. Len(s) /\ DOMAIN t = 1 .. Len(t) /\ DOMAIN v = 1 .. Len(v)
        /\ Len(s) \in Nat /\ Len(t) \in Nat
    BY <1>1, LenProperties
  <1> HIDE DEF v
  <1>3. \A i \in DOMAIN s : i \in DOMAIN v /\ v[i] = s[i]
    BY <1>1, <1>2
  <1>4. \A i \in DOMAIN t : i + Len(s) \in DOMAIN v /\ v[i + Len(s)] = t[i]
    BY <1>1, <1>2
  <1>5. ASSUME NEW i \in 1 .. Len(v)
        PROVE  \/ i \in 1 .. Len(s) /\ v[i] = s[i]
               \/ i - Len(s) \in 1 .. Len(t) /\ v[i] = t[i - Len(s)]
    <2>1. CASE i <= Len(s)
      BY <2>1, <1>1, <1>2
    <2>2. CASE ~(i <= Len(s))
      <3>1. i - Len(s) \in 1 .. Len(t)
        BY <2>2, <1>1, <1>2
      <3> QED
        BY <3>1, <2>2, <1>1
    <2> QED
      BY <2>1, <2>2
  <1>6. ToSet(v) = ToSet(s) \union ToSet(t)
    BY <1>2, <1>3, <1>4, <1>5 DEF ToSet
  <1> QED
    BY <1>1, <1>6 DEF v

LEMMA NoBatches == <<>> \in Seq(Batches) /\ Len(<<>>) = 0 /\ ToSet(<<>>) = {} /\ FilesOf(<<>>) = {}
  BY EmptySeq DEF ToSet, FilesOf

LEMMA Contained ==
    /\ \A s \in Seq(Batches) : s # Absent /\ s # Torn /\ s \in Contents
    /\ \A b \in Batches : b # Absent /\ b # Torn
    /\ Absent \in Contents
    /\ \A c \in Contents \union {Torn} : Readable(c) => c \in Seq(Batches)
  BY DiskAssumption DEF Contents, Readable

LEMMA MadeBatch ==
    ASSUME TypeOK, NEW f \in Files, raw[f] # Absent, NEW s \in Settings
    PROVE  Made(raw, f, s) \in Batches /\ Made(raw, f, s).file = f /\ raw[f] \in Versions
           /\ Made(raw, f, s).version = raw[f] /\ Made(raw, f, s).setting = s
  BY DEF TypeOK, Made, Batches

-----------------------------------------------------------------------------
(* Types.                                                                  *)

LEMMA TypeInit == Init => TypeOK /\ Shapes
  <1> SUFFICES ASSUME Init PROVE TypeOK /\ Shapes
    OBVIOUS
  <1>1. 1 \in Versions /\ 1 \in Settings
    BY IndexAssumption DEF Versions, Settings
  <1>2. Shapes
    BY NoRunFields DEF Init, Shapes
  <1>3. NoEntries \in [Files -> Entries \union {Absent}]
    BY DEF NoEntries
  <1>4. TypeOK
    BY <1>1, <1>3, NoRunFields, NoBatches, Contained, IndexAssumption DEF Init, TypeOK, NoEntries
  <1> QED
    BY <1>2, <1>4

LEMMA IdleTypes ==
    ASSUME run' = NoRun,
           raw' \in [Files -> Versions \union {Absent}], setting' \in Settings,
           cache' \in [Files -> Batches \union {Absent, Torn}],
           manifest' \in [Files -> Entries \union {Absent}] \union {Torn},
           index' \in [Parts -> Contents \union {Torn}],
           seen' \in [version : [Files -> Versions], setting : Settings],
           left' \in [edits : 0 .. MaxEdits, runs : 0 .. MaxRuns, deaths : 0 .. MaxDeaths]
    PROVE  TypeOK' /\ Shapes'
  <1>1. 1 \in Settings /\ NoEntries \in [Files -> Entries \union {Absent}]
    BY IndexAssumption DEF Settings, NoEntries
  <1>2. Shapes'
    BY NoRunFields DEF Shapes
  <1>3. /\ run'.kind \in {"none", "build", "reindex", "server"}
        /\ run'.phase \in {"idle", "files", "faiss", "chunks", "bm25", "manifest"}
        /\ run'.listed \in SUBSET Files /\ run'.todo \in SUBSET Files
        /\ run'.hash \in Versions \union {Absent} /\ run'.setting \in Settings
        /\ run'.manifest \in [Files -> Entries \union {Absent}]
    BY <1>1, NoRunFields
  <1>4. /\ run'.all \in Seq(Batches) /\ run'.new \in Seq(Batches)
        /\ run'.faiss \in Contents /\ run'.chunks \in Contents /\ run'.bm25 \in Contents
    BY NoRunFields, NoBatches, Contained
  <1> QED
    BY <1>2, <1>3, <1>4 DEF TypeOK, Parts

(* What people do to the course.                                           *)
LEMMA Touching ==
    ASSUME TypeOK, Shapes, Touch,
           raw' \in [Files -> Versions \union {Absent}], setting' \in Settings,
           seen' \in [version : [Files -> Versions], setting : Settings]
    PROVE  TypeOK' /\ Shapes'
  <1>1. UNCHANGED <<cache, manifest, index, run>>
    BY DEF Touch, disk
  <1>2. left' \in [edits : 0 .. MaxEdits, runs : 0 .. MaxRuns, deaths : 0 .. MaxDeaths]
    BY IndexAssumption DEF Touch, TypeOK
  <1>3. Shapes'
    BY <1>1 DEF Shapes
  <1> QED
    BY <1>1, <1>2, <1>3 DEF TypeOK

LEMMA Editing ==
    ASSUME TypeOK, NEW f \in Files, Edit(f)
    PROVE  /\ raw' \in [Files -> Versions \union {Absent}]
           /\ seen' \in [version : [Files -> Versions], setting : Settings]
           /\ \A g \in Files : seen.version[g] <= seen'.version[g]
           /\ \A g \in Files : raw'[g] # raw[g] /\ ~Reverts => raw'[g] > seen.version[g]
           /\ seen'.setting = seen.setting
  <1>1. PICK v \in Versions :
           /\ Reverts \/ v > seen.version[f]
           /\ raw' = [raw EXCEPT ![f] = v]
           /\ seen' = [seen EXCEPT !.version[f] = IF v > @ THEN v ELSE @]
    BY DEF Edit
  <1> DEFINE newest == IF v > seen.version[f] THEN v ELSE seen.version[f]
  <1>2. /\ raw \in [Files -> Versions \union {Absent}]
        /\ seen.version \in [Files -> Versions] /\ seen.setting \in Settings
        /\ seen \in [version : [Files -> Versions], setting : Settings]
    BY DEF TypeOK
  <1>3. newest \in Versions
    BY <1>2
  <1>4. \A g \in Files : seen.version[g] \in Nat
    BY <1>2 DEF Versions
  <1>5. seen.version[f] <= newest
    BY <1>4 DEF Versions
  <1>6. seen' = [seen EXCEPT !.version = [seen.version EXCEPT ![f] = newest]]
    BY <1>1, <1>2
  <1> HIDE DEF newest
  <1>7. [seen.version EXCEPT ![f] = newest] \in [Files -> Versions]
    BY <1>2, <1>3
  <1>8. /\ seen' \in [version : [Files -> Versions], setting : Settings]
        /\ seen'.version = [seen.version EXCEPT ![f] = newest] /\ seen'.setting = seen.setting
    BY <1>2, <1>6, <1>7
  <1>9. \A g \in Files : seen.version[g] <= seen'.version[g]
    BY <1>2, <1>4, <1>5, <1>8
  <1>10. raw' \in [Files -> Versions \union {Absent}]
    BY <1>1, <1>2
  <1>11. \A g \in Files : raw'[g] # raw[g] /\ ~Reverts => raw'[g] > seen.version[g]
    BY <1>1, <1>2
  <1> QED
    BY <1>8, <1>9, <1>10, <1>11

LEMMA Setting ==
    ASSUME TypeOK, ChangeSetting
    PROVE  /\ setting' \in Settings
           /\ seen' \in [version : [Files -> Versions], setting : Settings]
           /\ seen'.version = seen.version /\ seen.setting <= seen'.setting
           /\ ~Reverts => setting' > seen.setting
  <1>1. PICK s \in Settings :
           /\ Reverts \/ s > seen.setting
           /\ setting' = s
           /\ seen' = [seen EXCEPT !.setting = IF s > @ THEN s ELSE @]
    BY DEF ChangeSetting
  <1>2. seen \in [version : [Files -> Versions], setting : Settings] /\ seen.setting \in Settings
    BY DEF TypeOK
  <1> QED
    BY <1>1, <1>2 DEF Settings

LEMMA TypeStep == TypeOK /\ Shapes /\ [Next]_vars => TypeOK' /\ Shapes'
  <1> SUFFICES ASSUME TypeOK, Shapes, [Next]_vars
               PROVE  TypeOK' /\ Shapes'
    OBVIOUS
  <1> USE DEF disk, world
  <1>1. CASE UNCHANGED vars
    BY <1>1 DEF vars, TypeOK, Shapes
  <1>2. ASSUME NEW f \in Files, Edit(f) PROVE TypeOK' /\ Shapes'
    <2>1. Touch /\ UNCHANGED setting
      BY <1>2 DEF Edit
    <2> QED
      BY <1>2, <2>1, Editing, Touching DEF TypeOK
  <1>3. ASSUME NEW f \in Files, RemoveFile(f) PROVE TypeOK' /\ Shapes'
    <2>1. Touch /\ UNCHANGED <<setting, seen>> /\ raw' = [raw EXCEPT ![f] = Absent]
      BY <1>3 DEF RemoveFile
    <2>2. raw' \in [Files -> Versions \union {Absent}]
      BY <2>1 DEF TypeOK
    <2> QED
      BY <2>1, <2>2, Touching DEF TypeOK
  <1>4. CASE ChangeSetting
    <2>1. Touch /\ UNCHANGED raw
      BY <1>4 DEF ChangeSetting
    <2> QED
      BY <1>4, <2>1, Setting, Touching DEF TypeOK
  <1>5. ASSUME NEW kind \in {"build", "reindex", "server"}, Start(kind) PROVE TypeOK' /\ Shapes'
    <2>1. UNCHANGED <<cache, manifest, index, raw, setting, seen>> /\ manifest # Torn
      BY <1>5 DEF Start
    <2>2. Present \subseteq Files
      BY DEF Present
    <2>3. /\ run'.hash = Absent /\ run'.all = <<>> /\ run'.new = <<>>
          /\ run'.faiss = Absent /\ run'.chunks = Absent /\ run'.bm25 = Absent
      BY <1>5, Starting, NoRunFields
    <2>4. /\ run'.all \in Seq(Batches) /\ run'.new \in Seq(Batches)
          /\ run'.faiss \in Contents /\ run'.chunks \in Contents /\ run'.bm25 \in Contents
      BY <2>3, NoBatches, Contained
    <2>5. /\ run'.kind = kind /\ run'.phase = "files"
          /\ run'.listed \in SUBSET Files /\ run'.todo \in SUBSET Files
          /\ run'.setting \in Settings /\ run'.manifest \in [Files -> Entries \union {Absent}]
          /\ left' \in [edits : 0 .. MaxEdits, runs : 0 .. MaxRuns, deaths : 0 .. MaxDeaths]
          /\ DOMAIN run' = Fields
      BY <1>5, <2>1, <2>2, Starting DEF TypeOK
    <2>6. Shapes'
      BY <1>5, <2>5 DEF Shapes
    <2>7. TypeOK'
      BY <1>5, <2>1, <2>3, <2>4, <2>5 DEF TypeOK
    <2> QED
      BY <2>6, <2>7
  <1>6. ASSUME NEW f \in Files, HashFile(f) PROVE TypeOK' /\ Shapes'
    <2>1. UNCHANGED <<cache, manifest, index, raw, setting, seen, left>> /\ run.phase = "files"
      BY <1>6 DEF HashFile, Current
    <2> QED
      BY <1>6, <2>1, Hashing DEF TypeOK, Shapes, KeepsBut, Fields
  <1>7. ASSUME NEW f \in Files, ReuseChunks(f) PROVE TypeOK' /\ Shapes'
    <2>1. UNCHANGED <<cache, manifest, index, raw, setting, seen, left>> /\ run.phase = "files"
      BY <1>7 DEF ReuseChunks, Current
    <2>2. cache[f] \in Batches
      BY <1>7 DEF ReuseChunks, Reuses, TypeOK
    <2>3. Append(run.all, cache[f]) \in Seq(Batches)
      BY <2>2, AddedBatch DEF TypeOK
    <2> QED
      BY <1>7, <2>1, <2>3, Reusing DEF TypeOK, Shapes, KeepsBut, Fields
  <1>8. ASSUME NEW f \in Files, Rechunk(f) PROVE TypeOK' /\ Shapes'
    <2>1. /\ UNCHANGED <<manifest, index, raw, setting, seen, left>> /\ run.phase = "files"
          /\ raw[f] # Absent /\ run.hash # Absent
      BY <1>8 DEF Rechunk, Current
    <2>2. Made(raw, f, run.setting) \in Batches
      BY <2>1, MadeBatch DEF TypeOK
    <2>3. /\ Append(run.all, Made(raw, f, run.setting)) \in Seq(Batches)
          /\ Append(run.new, Made(raw, f, run.setting)) \in Seq(Batches)
      BY <2>2, AddedBatch DEF TypeOK
    <2>4. [hash |-> run.hash, setting |-> run.setting] \in Entries
      BY <2>1 DEF Entries, TypeOK
    <2>5. run'.manifest \in [Files -> Entries \union {Absent}]
      BY <1>8, <2>4, Rechunking DEF TypeOK
    <2>6. cache' \in [Files -> Batches \union {Absent, Torn}]
      <3>1. cache \in [Files -> Batches \union {Absent, Torn}]
        BY DEF TypeOK
      <3>2. cache' = [cache EXCEPT ![f] = Made(raw, f, run.setting)]
        BY <1>8, Rechunking
      <3> QED
        BY <2>2, <3>1, <3>2
    <2> HIDE DEF Batches, Entries
    <2> QED
      BY <1>8, <2>1, <2>3, <2>5, <2>6, Rechunking DEF TypeOK, Shapes, KeepsBut, Fields
  <1>9. ASSUME NEW f \in Files, DropRemoved(f) PROVE TypeOK' /\ Shapes'
    <2>1. /\ UNCHANGED <<manifest, index, raw, setting, seen, left>> /\ run.phase = "files"
          /\ cache' = [cache EXCEPT ![f] = Absent]
      BY <1>9 DEF DropRemoved
    <2> QED
      BY <1>9, <2>1, Dropping DEF TypeOK, Shapes, KeepsBut, Fields
  <1>10. ASSUME NEW a \in Contents, NEW b \in Contents, NEW c \in Contents, InMemory(a, b, c),
                run.phase # "idle"
         PROVE  TypeOK' /\ Shapes'
    BY <1>10, Indexing DEF TypeOK, Shapes, KeepsBut, Fields
  <1>11. CASE BuildAll
    BY <1>11, <1>10, Contained DEF BuildAll, Diffed, TypeOK
  <1>12. CASE AppendNew
    <2>1. /\ index.faiss \in Seq(Batches) /\ index.chunks \in Seq(Batches)
      BY <1>12, Contained DEF AppendNew, Loadable, TypeOK
    <2>2. /\ index.faiss \o run.new \in Contents /\ index.chunks \o run.new \in Contents
          /\ run.all \in Contents
      BY <2>1, JoinedBatches, Contained DEF TypeOK
    <2> QED
      BY <1>12, <1>10, <2>2 DEF AppendNew, Diffed
  <1>13. CASE NothingNew
    <2>1. index.faiss \in Contents /\ index.chunks \in Contents /\ index.bm25 \in Contents
      BY <1>13, Contained DEF NothingNew, Loadable, TypeOK
    <2> QED
      BY <1>13, <1>10, <2>1 DEF NothingNew, Diffed
  <1>14. CASE StartFresh
    BY <1>14, <1>10, Contained DEF StartFresh, Diffed, TypeOK
  <1>15. ASSUME NEW part \in Parts, NEW next \in {"chunks", "bm25", "manifest"}, Write(part, next),
                index' = [index EXCEPT ![part] = run[part]]
         PROVE  TypeOK' /\ Shapes'
    <2>1. run[part] \in Contents
      BY DEF TypeOK, Parts
    <2>2. index' \in [Parts -> Contents \union {Torn}]
      BY <1>15, <2>1 DEF TypeOK, Parts
    <2>3. KeepsBut({"phase"}) /\ run.phase = part /\ run'.phase = next
          /\ UNCHANGED <<cache, manifest, raw, setting, seen, left>>
      BY <1>15, Writing
    <2>4. run.phase # "idle"
      BY <2>3 DEF Parts
    <2> QED
      BY <2>2, <2>3, <2>4 DEF TypeOK, Shapes, KeepsBut, Fields, Parts
  <1>16. CASE SaveFaiss
    BY <1>16, <1>15 DEF SaveFaiss, Parts
  <1>17. CASE SaveChunks
    BY <1>17, <1>15 DEF SaveChunks, Parts
  <1>18. CASE SaveBM25
    BY <1>18, <1>15 DEF SaveBM25, Parts
  <1>19. CASE SaveManifest
    BY <1>19, IdleTypes DEF SaveManifest, TypeOK, Parts
  <1>20. CASE Fails
    BY <1>20, IdleTypes DEF Fails, TypeOK, Parts
  <1>21. CASE Stop
    BY <1>21, IdleTypes, Stopping DEF Stop, TypeOK, Parts
  <1>22. CASE StopWriting
    <2>1. Dies
      BY <1>22 DEF StopWriting
    <2>2. /\ cache' \in [Files -> Batches \union {Absent, Torn}]
          /\ manifest' \in [Files -> Entries \union {Absent}] \union {Torn}
          /\ index' \in [Parts -> Contents \union {Torn}]
      BY <1>22, Tearing DEF TypeOK, Parts
    <2> QED
      BY <2>1, <2>2, IdleTypes, Stopping DEF TypeOK
  <1> QED
    BY <1>1, <1>2, <1>3, <1>4, <1>5, <1>6, <1>7, <1>8, <1>9, <1>11, <1>12, <1>13, <1>14,
       <1>16, <1>17, <1>18, <1>19, <1>20, <1>21, <1>22 DEF Next

-----------------------------------------------------------------------------
(* A run's batches, counted.                                               *)

LEMMA OneMoreFile ==
    ASSUME TypeOK, Chunked, NEW f \in run.todo
    PROVE  /\ run.listed \ (run.todo \ {f}) = (run.listed \ run.todo) \union {f}
           /\ f \notin run.listed \ run.todo
           /\ Cardinality(run.listed \ (run.todo \ {f})) = Cardinality(run.listed \ run.todo) + 1
  <1>1. f \in run.listed /\ run.listed \subseteq Files
    BY DEF Chunked, TypeOK
  <1>2. run.listed \ (run.todo \ {f}) = (run.listed \ run.todo) \union {f}
    BY <1>1
  <1>3. IsFiniteSet(Files)
    BY FS_Interval, IndexAssumption DEF Files
  <1>4. IsFiniteSet(run.listed \ run.todo)
    BY <1>1, <1>3, FS_Subset
  <1> QED
    BY <1>2, <1>4, FS_AddElement

LEMMA ChunkedIdle ==
    ASSUME run' = NoRun, \A f \in Files : Readable(cache'[f]) => cache'[f].file = f
    PROVE  Chunked'
  BY NoRunFields, NoBatches, FS_EmptySet DEF Chunked, InPlace

LEMMA ChunkedKept ==
    ASSUME Chunked, cache' = cache, InPlace' => InPlace \/ (run.todo = {} /\ Gone = {}),
           KeepsBut({"hash", "phase", "faiss", "chunks", "bm25"}) \/ run' = run
    PROVE  Chunked'
  <1>1. /\ run'.listed = run.listed /\ run'.todo = run.todo /\ run'.manifest = run.manifest
        /\ run'.all = run.all /\ run'.new = run.new
    BY DEF KeepsBut, Fields
  <1>2. Gone' = Gone
    BY <1>1 DEF Gone
  <1> QED
    BY <1>1, <1>2 DEF Chunked

LEMMA ChunkedStep == TypeOK /\ Shapes /\ Chunked /\ [Next]_vars => Chunked'
  <1> SUFFICES ASSUME TypeOK, Shapes, Chunked, [Next]_vars
               PROVE  Chunked'
    OBVIOUS
  <1> USE DEF disk, world
  <1> DEFINE done == run.listed \ run.todo
  <1>1. CASE UNCHANGED vars
    BY <1>1, ChunkedKept DEF vars, InPlace
  <1>2. ASSUME NEW f \in Files, Edit(f) \/ RemoveFile(f) PROVE Chunked'
    BY <1>2, ChunkedKept DEF Edit, RemoveFile, Touch, InPlace
  <1>3. CASE ChangeSetting
    BY <1>3, ChunkedKept DEF ChangeSetting, Touch, InPlace
  <1>4. ASSUME NEW kind \in {"build", "reindex", "server"}, Start(kind) PROVE Chunked'
    <2>1. cache' = cache
      BY <1>4 DEF Start
    <2>2. run'.all = <<>> /\ run'.new = <<>>
      BY <1>4, Starting, NoRunFields
    <2>3. run'.listed = run'.todo /\ run'.phase = "files"
      BY <1>4, Starting
    <2>4. run'.listed \ run'.todo = {} /\ Cardinality({}) = 0
      BY <2>3, FS_EmptySet
    <2> QED
      BY <2>1, <2>2, <2>3, <2>4, NoBatches DEF Chunked, InPlace
  <1>5. ASSUME NEW f \in Files, HashFile(f) PROVE Chunked'
    <2>1. KeepsBut({"hash"}) /\ cache' = cache
      BY <1>5, Hashing DEF HashFile
    <2>2. run'.phase = run.phase
      BY <2>1 DEF KeepsBut, Fields
    <2> QED
      BY <2>1, <2>2, ChunkedKept DEF KeepsBut, InPlace
  <1>6. ASSUME NEW f \in Files, NEW b \in Batches, b.file = f,
               f \in run.todo, run.phase = "files",
               run'.listed = run.listed, run'.todo = run.todo \ {f}, run'.phase = run.phase,
               run'.all = Append(run.all, b),
               run'.new = run.new \/ run'.new = Append(run.new, b),
               run'.manifest[f] # Absent,
               \A g \in Files : g # f => run'.manifest[g] = run.manifest[g],
               \A g \in Files : Readable(cache'[g]) => cache'[g].file = g
        PROVE  Chunked'
    <2>1. /\ run'.listed \ run'.todo = done \union {f}
          /\ Cardinality(run'.listed \ run'.todo) = Cardinality(done) + 1
      BY <1>6, OneMoreFile
    <2>2. /\ FilesOf(run'.all) = FilesOf(run.all) \union {f}
          /\ Len(run'.all) = Len(run.all) + 1
          /\ ToSet(run'.all) = ToSet(run.all) \union {b}
          /\ ToSet(run'.new) \subseteq ToSet(run.new) \union {b}
      <3>1. run.all \in Seq(Batches) /\ run.new \in Seq(Batches)
        BY DEF TypeOK
      <3>2. \A s \in Seq(Batches) : ToSet(Append(s, b)) = ToSet(s) \union {b}
        BY <1>6, AddedBatch
      <3>3. ToSet(run'.new) \subseteq ToSet(run.new) \union {b}
        BY <1>6, <3>1, <3>2
      <3> QED
        BY <1>6, <3>1, <3>3, AddedBatch
    <2>3. done \subseteq Files
      BY DEF TypeOK
    <2>4. \A g \in done \union {f} : run'.manifest[g] # Absent
      BY <1>6, <2>3 DEF Chunked
    <2>5. \A g \in Files : Readable(cache'[g]) => cache'[g].file = g
      BY <1>6
    <2>6. run'.todo \subseteq run'.listed /\ ~InPlace'
      BY <1>6 DEF Chunked, InPlace
    <2> QED
      BY <2>1, <2>2, <2>4, <2>5, <2>6 DEF Chunked
  <1>7. ASSUME NEW f \in Files, ReuseChunks(f) PROVE Chunked'
    <2>1. /\ cache[f] \in Batches /\ cache[f].file = f /\ run.manifest[f] # Absent
          /\ f \in run.todo /\ run.phase = "files" /\ cache' = cache
      BY <1>7 DEF ReuseChunks, Reuses, Reusable, Current, TypeOK, Chunked, Readable
    <2>2. /\ KeepsBut({"todo", "hash", "all"})
          /\ run'.todo = run.todo \ {f} /\ run'.all = Append(run.all, cache[f])
      BY <1>7, Reusing
    <2>3. /\ run'.listed = run.listed /\ run'.phase = run.phase
          /\ run'.new = run.new /\ run'.manifest = run.manifest
      BY <2>2 DEF KeepsBut, Fields
    <2>4. /\ run'.manifest[f] # Absent
          /\ \A g \in Files : g # f => run'.manifest[g] = run.manifest[g]
          /\ \A g \in Files : Readable(cache'[g]) => cache'[g].file = g
      BY <2>1, <2>3 DEF Chunked
    <2> QED
      BY <1>6, <2>1, <2>2, <2>3, <2>4
  <1>8. ASSUME NEW f \in Files, Rechunk(f) PROVE Chunked'
    <2>1. f \in run.todo /\ run.phase = "files" /\ raw[f] # Absent /\ run.hash # Absent
      BY <1>8 DEF Rechunk, Current
    <2> DEFINE b == Made(raw, f, run.setting)
               entry == [hash |-> run.hash, setting |-> run.setting]
    <2>2. b \in Batches /\ b.file = f
      BY <2>1, MadeBatch DEF TypeOK
    <2>3. entry \in Entries /\ entry # Absent
      BY <2>1, DiskAssumption DEF Entries, TypeOK
    <2>4. /\ KeepsBut({"todo", "hash", "manifest", "all", "new"})
          /\ run'.todo = run.todo \ {f}
          /\ run'.manifest = [run.manifest EXCEPT ![f] = entry]
          /\ run'.all = Append(run.all, b) /\ run'.new = Append(run.new, b)
          /\ cache' = [cache EXCEPT ![f] = b]
      BY <1>8, Rechunking
    <2>5. run'.listed = run.listed /\ run'.phase = run.phase
      BY <2>4 DEF KeepsBut, Fields
    <2>6. DOMAIN run.manifest = Files /\ DOMAIN cache = Files
      BY DEF TypeOK
    <2> HIDE DEF b, entry
    <2>7. run'.manifest[f] # Absent /\ \A g \in Files : g # f => run'.manifest[g] = run.manifest[g]
      BY <2>3, <2>4, <2>6
    <2>8. cache'[f] = b /\ \A g \in Files : g # f => cache'[g] = cache[g]
      BY <2>4, <2>6
    <2>9. \A g \in Files : Readable(cache'[g]) => cache'[g].file = g
      BY <2>2, <2>8 DEF Chunked
    <2> QED
      BY <1>6, <2>1, <2>2, <2>4, <2>5, <2>7, <2>9
  <1>9. ASSUME NEW f \in Files, DropRemoved(f) PROVE Chunked'
    <2>1. KeepsBut({"manifest"}) /\ run'.manifest = [run.manifest EXCEPT ![f] = Absent]
      BY <1>9, Dropping
    <2>2. f \notin run.listed /\ run.phase = "files" /\ cache' = [cache EXCEPT ![f] = Absent]
      BY <1>9 DEF DropRemoved, Gone
    <2>3. /\ run'.listed = run.listed /\ run'.todo = run.todo /\ run'.phase = "files"
          /\ run'.all = run.all /\ run'.new = run.new
      BY <2>1, <2>2 DEF KeepsBut, Fields
    <2>4. DOMAIN run.manifest = Files /\ DOMAIN cache = Files /\ run.listed \subseteq Files
      BY DEF TypeOK
    <2> QED
      BY <2>1, <2>2, <2>3, <2>4 DEF Chunked, InPlace, Readable
  <1>10. ASSUME NEW a, NEW b, NEW c, InMemory(a, b, c), Diffed PROVE Chunked'
    BY <1>10, Indexing, ChunkedKept DEF Diffed, KeepsBut
  <1>11. CASE BuildAll \/ AppendNew \/ NothingNew \/ StartFresh
    BY <1>11, <1>10 DEF BuildAll, AppendNew, NothingNew, StartFresh
  <1>12. CASE SaveFaiss \/ SaveChunks \/ SaveBM25
    <2>1. KeepsBut({"phase"}) /\ InPlace /\ cache' = cache
      BY <1>12, Writing DEF SaveFaiss, SaveChunks, SaveBM25, InPlace, Parts
    <2> QED
      BY <2>1, ChunkedKept DEF KeepsBut
  <1>13. CASE SaveManifest \/ Fails
    BY <1>13, ChunkedIdle DEF SaveManifest, Fails, Chunked
  <1>14. CASE Stop
    BY <1>14, ChunkedIdle, Stopping DEF Stop, Chunked
  <1>15. CASE StopWriting
    <2>1. \A f \in Files : cache'[f] = cache[f] \/ cache'[f] = Torn
      BY <1>15, Tearing DEF TypeOK
    <2>2. \A f \in Files : Readable(cache'[f]) => cache'[f].file = f
      BY <2>1 DEF Chunked, Readable
    <2> QED
      BY <1>15, <2>2, ChunkedIdle, Stopping DEF StopWriting
  <1> QED
    BY <1>1, <1>2, <1>3, <1>4, <1>5, <1>7, <1>8, <1>9, <1>11, <1>12, <1>13, <1>14, <1>15 DEF Next

-----------------------------------------------------------------------------
(* What is in memory, and what of it is on disk.                           *)

LEMMA WrittenElsewhere ==
    ASSUME ~InPlace' PROVE Written'
  BY DEF Written, InPlace

LEMMA WrittenKept ==
    ASSUME Written, run' = run, index' = index PROVE Written'
  BY DEF Written, InPlace

LEMMA WrittenInMemory ==
    ASSUME TypeOK, Shapes, NEW a \in Seq(Batches), NEW b \in Seq(Batches), NEW c,
           InMemory(a, b, c), run.kind = "server" => c = Absent,
           run.kind = "build" => a = run.all /\ b = run.all /\ c = run.all
    PROVE  Written'
  <1>1. /\ run'.phase = "faiss" /\ run'.faiss = a /\ run'.chunks = b /\ run'.bm25 = c
        /\ KeepsBut({"phase", "faiss", "chunks", "bm25"})
    BY Indexing
  <1>2. run'.kind = run.kind /\ run'.all = run.all
    BY <1>1 DEF KeepsBut, Fields
  <1> QED
    BY <1>1, <1>2 DEF Written, InPlace

LEMMA WrittenStep == TypeOK /\ Shapes /\ Written /\ [Next]_vars => Written'
  <1> SUFFICES ASSUME TypeOK, Shapes, Written, [Next]_vars
               PROVE  Written'
    OBVIOUS
  <1> USE DEF disk, world
  <1>1. CASE UNCHANGED vars
    BY <1>1, WrittenKept DEF vars
  <1>2. CASE \E f \in Files : Edit(f) \/ RemoveFile(f)
    BY <1>2, WrittenKept DEF Edit, RemoveFile, Touch
  <1>3. CASE ChangeSetting
    BY <1>3, WrittenKept DEF ChangeSetting, Touch
  <1>4. CASE \E kind \in {"build", "reindex", "server"} : Start(kind)
    BY <1>4, Starting, WrittenElsewhere DEF InPlace
  <1>5. CASE \E f \in Files : HashFile(f)
    BY <1>5, Hashing, WrittenElsewhere DEF InPlace, HashFile, Current, KeepsBut, Fields
  <1>6. CASE \E f \in Files : ReuseChunks(f)
    BY <1>6, Reusing, WrittenElsewhere DEF InPlace, ReuseChunks, Current, KeepsBut, Fields
  <1>7. CASE \E f \in Files : Rechunk(f)
    BY <1>7, Rechunking, WrittenElsewhere DEF InPlace, Rechunk, Current, KeepsBut, Fields
  <1>8. CASE \E f \in Files : DropRemoved(f)
    BY <1>8, Dropping, WrittenElsewhere DEF InPlace, DropRemoved, KeepsBut, Fields
  <1>9. CASE BuildAll
    <2>1. run.all \in Seq(Batches)
      BY DEF TypeOK
    <2> QED
      BY <1>9, <2>1, WrittenInMemory DEF BuildAll
  <1>10. CASE AppendNew
    <2>1. /\ index.faiss \in Seq(Batches) /\ index.chunks \in Seq(Batches)
          /\ run.new \in Seq(Batches)
      BY <1>10, Contained DEF AppendNew, Loadable, TypeOK
    <2>2. index.faiss \o run.new \in Seq(Batches) /\ index.chunks \o run.new \in Seq(Batches)
      BY <2>1, JoinedBatches
    <2> QED
      BY <1>10, <2>2, WrittenInMemory DEF AppendNew
  <1>11. CASE NothingNew
    <2>1. index.faiss \in Seq(Batches) /\ index.chunks \in Seq(Batches)
      BY <1>11, Contained DEF NothingNew, Loadable, TypeOK
    <2> QED
      BY <1>11, <2>1, WrittenInMemory DEF NothingNew
  <1>12. CASE StartFresh
    <2>1. run.new \in Seq(Batches)
      BY DEF TypeOK
    <2> QED
      BY <1>12, <2>1, WrittenInMemory DEF StartFresh
  <1>13. ASSUME NEW part \in Parts, NEW next \in {"chunks", "bm25", "manifest"}, Write(part, next),
                index' = [index EXCEPT ![part] = run[part]],
                \/ part = "faiss" /\ next = "chunks"
                \/ part = "chunks" /\ next = IF run.kind = "server" THEN "manifest" ELSE "bm25"
                \/ part = "bm25" /\ next = "manifest"
         PROVE  Written'
    <2>1. /\ KeepsBut({"phase"}) /\ run.phase = part /\ run'.phase = next
          /\ index'[part] = run[part]
          /\ \A p \in Parts \ {part} : index'[p] = index[p]
      BY <1>13, Writing
    <2>2. /\ run'.kind = run.kind /\ run'.all = run.all /\ run'.faiss = run.faiss
          /\ run'.chunks = run.chunks /\ run'.bm25 = run.bm25
      BY <2>1 DEF KeepsBut, Fields
    <2>3. InPlace
      BY <2>1 DEF InPlace, Parts
    <2>4. CASE part = "faiss" /\ next = "chunks"
      <3>1. run'.phase = "chunks" /\ index'.faiss = run.faiss
        BY <2>1, <2>4
      <3> QED
        BY <2>2, <2>3, <3>1 DEF Written, InPlace
    <2>5. CASE part = "chunks" /\ next = IF run.kind = "server" THEN "manifest" ELSE "bm25"
      <3>1. /\ run.phase = "chunks"
            /\ run'.phase = IF run.kind = "server" THEN "manifest" ELSE "bm25"
            /\ index'.faiss = index.faiss /\ index'.chunks = run.chunks
        BY <2>1, <2>5 DEF Parts
      <3> QED
        BY <2>2, <2>3, <3>1 DEF Written, InPlace
    <2>6. CASE part = "bm25" /\ next = "manifest"
      <3>1. /\ run.phase = "bm25" /\ run'.phase = "manifest"
            /\ index'.faiss = index.faiss /\ index'.chunks = index.chunks
            /\ index'.bm25 = run.bm25
        BY <2>1, <2>6 DEF Parts
      <3> QED
        BY <2>2, <2>3, <3>1 DEF Written, InPlace
    <2> QED
      BY <1>13, <2>4, <2>5, <2>6
  <1>14. CASE SaveFaiss
    BY <1>14, <1>13 DEF SaveFaiss, Parts
  <1>15. CASE SaveChunks
    BY <1>15, <1>13 DEF SaveChunks, Parts
  <1>16. CASE SaveBM25
    BY <1>16, <1>13 DEF SaveBM25, Parts
  <1>17. CASE SaveManifest \/ Fails \/ Stop \/ StopWriting
    BY <1>17, NoRunFields, WrittenElsewhere DEF SaveManifest, Fails, Stop, StopWriting, Dies, InPlace
  <1> QED
    BY <1>1, <1>2, <1>3, <1>4, <1>5, <1>6, <1>7, <1>8, <1>9, <1>10, <1>11, <1>12,
       <1>14, <1>15, <1>16, <1>17 DEF Next

(* As long as no run was killed, the vectors and the chunks correspond.    *)
LEMMA AlignedStep == TypeOK /\ Shapes /\ Written /\ Aligned /\ [Next]_vars => Aligned'
  <1> SUFFICES ASSUME TypeOK, Shapes, Written, Aligned, [Next]_vars, left'.deaths = MaxDeaths
               PROVE  /\ run'.phase \in {"idle", "files", "faiss"} => index'.faiss = index'.chunks
                      /\ InPlace' => run'.faiss = run'.chunks
    BY DEF Aligned
  <1> USE DEF disk, world
  <1>1. ASSUME left'.deaths = left.deaths, index' = index, run'.phase \in {"idle", "files", "faiss"},
               run.phase \in {"idle", "files", "faiss"} \/ run.phase = "manifest",
               InPlace' => run'.faiss = run'.chunks
        PROVE  index'.faiss = index'.chunks /\ (InPlace' => run'.faiss = run'.chunks)
    <2>1. run.phase = "manifest" => index.faiss = index.chunks
      BY <1>1 DEF Aligned, Written, InPlace
    <2> QED
      BY <1>1, <2>1 DEF Aligned
  <1>2. CASE UNCHANGED vars
    BY <1>2 DEF vars, Aligned, InPlace
  <1>3. CASE \E f \in Files : Edit(f) \/ RemoveFile(f)
    BY <1>3 DEF Edit, RemoveFile, Touch, TypeOK, Aligned, InPlace
  <1>4. CASE ChangeSetting
    BY <1>4 DEF ChangeSetting, Touch, TypeOK, Aligned, InPlace
  <1>5. CASE \E kind \in {"build", "reindex", "server"} : Start(kind)
    <2>1. /\ run'.phase = "files" /\ run.phase = "idle" /\ index' = index
          /\ left'.deaths = left.deaths
      BY <1>5, Starting DEF Start, Running, Shapes
    <2> QED
      BY <1>1, <2>1 DEF InPlace
  <1>6. CASE \E f \in Files : HashFile(f) \/ ReuseChunks(f) \/ Rechunk(f) \/ DropRemoved(f)
    <2>1. /\ run.phase = "files" /\ index' = index /\ left' = left
          /\ KeepsBut({"hash", "todo", "all", "new", "manifest"})
      BY <1>6, Hashing, Reusing, Rechunking, Dropping
         DEF HashFile, ReuseChunks, Rechunk, DropRemoved, Current, KeepsBut, Fields
    <2>2. run'.phase = "files"
      BY <2>1 DEF KeepsBut, Fields
    <2> QED
      BY <1>1, <2>1, <2>2 DEF InPlace
  <1>7. ASSUME NEW a, NEW b, NEW c, InMemory(a, b, c), Diffed, index.faiss = index.chunks => a = b
        PROVE  index'.faiss = index'.chunks /\ (InPlace' => run'.faiss = run'.chunks)
    <2>1. /\ run'.phase = "faiss" /\ run'.faiss = a /\ run'.chunks = b
          /\ index' = index /\ left' = left /\ run.phase = "files"
      BY <1>7, Indexing DEF Diffed
    <2>2. index.faiss = index.chunks
      BY <2>1 DEF Aligned
    <2> QED
      BY <1>1, <1>7, <2>1, <2>2
  <1>8. CASE BuildAll \/ AppendNew \/ NothingNew \/ StartFresh
    BY <1>7, <1>8 DEF BuildAll, AppendNew, NothingNew, StartFresh
  <1>9. CASE SaveFaiss \/ SaveChunks \/ SaveBM25
    <2>1. /\ KeepsBut({"phase"}) /\ InPlace /\ left' = left
          /\ run'.phase \in {"chunks", "bm25", "manifest"}
      BY <1>9, Writing DEF SaveFaiss, SaveChunks, SaveBM25, InPlace, Parts
    <2>2. run'.faiss = run.faiss /\ run'.chunks = run.chunks
      BY <2>1 DEF KeepsBut, Fields
    <2> QED
      BY <2>1, <2>2 DEF Aligned
  <1>10. CASE SaveManifest
    BY <1>1, <1>10, NoRunFields DEF SaveManifest, InPlace
  <1>11. CASE Fails
    <2>1. run.phase = "files"
      BY <1>11 DEF Fails, Current, Diffed
    <2> QED
      BY <1>1, <1>11, <2>1, NoRunFields DEF Fails, InPlace
  <1>12. CASE Stop \/ StopWriting
    BY <1>12, Stopping DEF Stop, StopWriting
  <1> QED
    BY <1>2, <1>3, <1>4, <1>5, <1>6, <1>8, <1>9, <1>10, <1>11, <1>12 DEF Next

-----------------------------------------------------------------------------
(* The invariant holds in every state a build, an update, a server start   *)
(* or a crash of one can reach (src/build_index.py:70-140).                *)
THEOREM Invariance == Spec => []IInv
  <1>1. Init => IInv
    <2> SUFFICES ASSUME Init PROVE IInv
      OBVIOUS
    <2>1. TypeOK /\ Shapes
      BY TypeInit
    <2>2. run = NoRun /\ cache = NoEntries /\ index.faiss = index.chunks
      BY DEF Init
    <2>3. Chunked
      BY <2>2, NoRunFields, NoBatches, FS_EmptySet DEF Chunked, InPlace, NoEntries, Readable
    <2>4. Written /\ Aligned
      BY <2>2, NoRunFields DEF Written, Aligned, InPlace
    <2> QED
      BY <2>1, <2>3, <2>4 DEF IInv
  <1>2. IInv /\ [Next]_vars => IInv'
    BY TypeStep, ChunkedStep, WrittenStep, AlignedStep DEF IInv
  <1> QED
    BY <1>1, <1>2, PTL DEF Spec

(* Every variable keeps its shape: a file on disk is absent, torn or what  *)
(* a run wrote.                                                            *)
THEOREM TypeCorrect == Spec => []TypeOK
  <1>1. IInv => TypeOK
    BY DEF IInv
  <1> QED
    BY <1>1, Invariance, PTL

(* The position of a vector in dense.faiss is its chunk's position in      *)
(* dense_chunks.pkl whenever no run was killed, whatever was edited,       *)
(* reverted, built, updated or failed before (dense.py:146).               *)
THEOREM DenseKept == Spec => []DenseAligned
  <1>1. IInv => DenseAligned
    <2> SUFFICES ASSUME IInv, ~Running, left.deaths = MaxDeaths
                 PROVE  index.faiss = index.chunks
      BY DEF DenseAligned
    <2>1. run.phase = "idle"
      BY DEF IInv, Shapes, Running
    <2> QED
      BY <2>1 DEF IInv, Aligned
  <1> QED
    BY <1>1, Invariance, PTL

(* A full build that completes leaves one batch of every file it listed in *)
(* each of the three index files, and a manifest of exactly those files,   *)
(* whatever the runs before it left on disk (build_index.py:131-140).      *)
THEOREM BuildRepairs == Spec => FullBuildRepairs
  <1>1. ASSUME IInv, SaveManifest, run.kind = "build"
        PROVE  /\ index.faiss = index.chunks /\ index.faiss = index.bm25
               /\ Len(index.faiss) = Cardinality(run.listed)
               /\ {b.file : b \in ToSet(index.faiss)} = run.listed
               /\ {f \in Files : manifest'[f] # Absent} = run.listed
    <2>1. run.phase = "manifest" /\ manifest' = run.manifest
      BY <1>1 DEF SaveManifest
    <2>2. run.todo = {} /\ Gone = {} /\ run.listed \ run.todo = run.listed /\ run.listed \subseteq Files
      BY <1>1, <2>1 DEF IInv, Chunked, InPlace, TypeOK
    <2>3. index.faiss = run.all /\ index.chunks = run.all /\ index.bm25 = run.all
      BY <1>1, <2>1 DEF IInv, Written, InPlace
    <2>4. /\ FilesOf(run.all) = run.listed /\ Len(run.all) = Cardinality(run.listed)
          /\ \A f \in run.listed : run.manifest[f] # Absent
      BY <1>1, <2>2 DEF IInv, Chunked
    <2>5. {f \in Files : run.manifest[f] # Absent} = run.listed
      BY <2>2, <2>4 DEF Gone
    <2> QED
      BY <2>1, <2>3, <2>4, <2>5 DEF FilesOf
  <1>2. IInv /\ [Next]_vars =>
          [SaveManifest /\ run.kind = "build"
             => /\ index.faiss = index.chunks /\ index.faiss = index.bm25
                /\ Len(index.faiss) = Cardinality(run.listed)
                /\ {b.file : b \in ToSet(index.faiss)} = run.listed
                /\ {f \in Files : manifest'[f] # Absent} = run.listed]_vars
    BY <1>1
  <1> QED
    BY <1>2, Invariance, PTL DEF Spec, FullBuildRepairs

-----------------------------------------------------------------------------
(* Contents and settings that only move forward.                           *)

WorldStep == ChangeSetting \/ \E f \in Files : Edit(f) \/ RemoveFile(f)

(* Nothing that people do to the course makes a claim true that was not,   *)
(* or changes what a claim that stays true is about.                       *)
LEMMA ClaimsShrink ==
    ASSUME TypeOK, Shapes, ~Reverts, Newest, WorldStep, NEW m, Known(m),
           m \in [Files -> Entries \union {Absent}] \union {Torn},
           NEW g \in Files
    PROVE  /\ Claims(raw', m, g, setting') => Claims(raw, m, g, setting) /\ setting' = setting
           /\ \A s : Claims(raw', m, g, s) => Claims(raw, m, g, s) /\ raw'[g] = raw[g]
           /\ m # Torn /\ m[g] # Absent =>
                m[g].hash <= seen'.version[g] /\ m[g].setting <= seen'.setting
  <1> DEFINE Forward ==
        /\ seen.version[g] <= seen'.version[g] /\ seen.setting <= seen'.setting
        /\ setting' # setting => setting' > seen.setting
        /\ raw'[g] # raw[g] => raw'[g] = Absent \/ raw'[g] > seen.version[g]
  <1>1. /\ seen.version[g] \in Nat /\ seen.setting \in Nat
        /\ seen'.version[g] \in Nat /\ seen'.setting \in Nat
    <2>1. Next
      BY DEF Next, WorldStep
    <2>2. TypeOK'
      BY <2>1, TypeStep
    <2>3. /\ seen \in [version : [Files -> Versions], setting : Settings]
          /\ seen' \in [version : [Files -> Versions], setting : Settings]
      BY <2>2 DEF TypeOK
    <2> QED
      BY <2>3 DEF Versions, Settings
  <1>2. Forward
    <2>1. CASE ChangeSetting
      <3>1. raw' = raw
        BY <2>1 DEF ChangeSetting
      <3> QED
        BY <1>1, <2>1, <3>1, Setting
    <2>2. ASSUME NEW f \in Files, Edit(f) PROVE Forward
      <3>1. setting' = setting
        BY <2>2 DEF Edit
      <3>2. /\ seen.version[g] <= seen'.version[g] /\ seen'.setting = seen.setting
            /\ raw'[g] # raw[g] => raw'[g] > seen.version[g]
        <4>1. /\ \A h \in Files : seen.version[h] <= seen'.version[h]
              /\ \A h \in Files : raw'[h] # raw[h] /\ ~Reverts => raw'[h] > seen.version[h]
              /\ seen'.setting = seen.setting
          BY <2>2, Editing
        <4> QED
          BY <4>1
      <3> QED
        BY <1>1, <3>1, <3>2
    <2>3. ASSUME NEW f \in Files, RemoveFile(f) PROVE Forward
      <3>1. setting' = setting /\ seen' = seen /\ raw' = [raw EXCEPT ![f] = Absent]
        BY <2>3 DEF RemoveFile
      <3>2. raw'[g] # raw[g] => raw'[g] = Absent
        BY <3>1 DEF TypeOK
      <3> QED
        BY <1>1, <3>1, <3>2
    <2> QED
      BY <2>1, <2>2, <2>3 DEF WorldStep
  <1>3. m # Torn /\ m[g] # Absent =>
           /\ m[g].hash \in Nat /\ m[g].setting \in Nat
           /\ m[g].hash <= seen.version[g] /\ m[g].setting <= seen.setting
    BY DEF Known, Entries, Versions, Settings
  <1>4. \A s : Claims(raw', m, g, s) => raw'[g] = raw[g]
    <2> SUFFICES ASSUME m # Torn, m[g] # Absent, raw'[g] # Absent, m[g].hash = raw'[g], raw'[g] # raw[g]
                 PROVE  FALSE
      BY DEF Claims, Reusable
    <2> QED
      BY <1>1, <1>2, <1>3
  <1>5. Claims(raw', m, g, setting') => setting' = setting
    <2> SUFFICES ASSUME m # Torn, m[g] # Absent, m[g].setting = setting', setting' # setting
                 PROVE  FALSE
      BY DEF Claims, Reusable
    <2> QED
      BY <1>1, <1>2, <1>3
  <1>6. \A s : Claims(raw', m, g, s) => Claims(raw, m, g, s)
    BY <1>4 DEF Claims, Reusable
  <1>7. m # Torn /\ m[g] # Absent =>
          m[g].hash <= seen'.version[g] /\ m[g].setting <= seen'.setting
    BY <1>1, <1>2, <1>3
  <1> QED
    BY <1>4, <1>5, <1>6, <1>7

(* A step of the outside world leaves the disk and the run alone.          *)
LEMMA WorldFrame ==
    ASSUME WorldStep
    PROVE  UNCHANGED <<cache, manifest, index, run>>
  BY DEF WorldStep, ChangeSetting, Edit, RemoveFile, Touch, disk

LEMMA Manifests ==
    ASSUME TypeOK
    PROVE  /\ manifest \in [Files -> Entries \union {Absent}] \union {Torn}
           /\ run.manifest \in [Files -> Entries \union {Absent}] \union {Torn}
           /\ run.manifest # Torn /\ DOMAIN run.manifest = Files /\ DOMAIN cache = Files
           /\ NoEntries # Torn /\ \A f \in Files : NoEntries[f] = Absent
  BY DiskAssumption DEF TypeOK, NoEntries

LEMMA NoClaims ==
    ASSUME NEW files, NEW f \in Files, NEW s
    PROVE  ~Claims(files, NoEntries, f, s)
  BY DEF Claims, Reusable, NoEntries

LEMMA NewestWorld ==
    ASSUME TypeOK, Shapes, ~Reverts, Newest, WorldStep
    PROVE  Newest'
  <1>1. UNCHANGED <<cache, manifest, index, run>>
    BY WorldFrame
  <1>2. Known(manifest)' /\ Known(run.manifest)'
    BY <1>1, ClaimsShrink, Manifests DEF Newest, Known
  <1>3. /\ seen.setting \in Nat /\ run.setting \in Nat /\ setting \in Nat
        /\ \A f \in Files : seen.version[f] \in Nat
        /\ run.hash # Absent => run.hash \in Nat
    BY DEF TypeOK, Versions, Settings
  <1>4. CASE ChangeSetting
    <2>1. /\ setting' = seen'.setting /\ seen.setting < seen'.setting
          /\ seen'.version = seen.version /\ raw' = raw /\ seen'.setting \in Nat
      BY <1>3, <1>4 DEF ChangeSetting, TypeOK, Settings
    <2>2. run'.setting <= seen'.setting
      BY <1>1, <1>3, <2>1 DEF Newest
    <2> QED
      BY <1>1, <1>2, <2>1, <2>2 DEF Newest, Current
  <1>5. ASSUME NEW f \in Files, Edit(f) PROVE Newest'
    <2>1. /\ seen.version[f] < raw'[f] /\ seen'.version[f] = raw'[f] /\ raw'[f] \in Nat
          /\ \A g \in Files : g # f => seen'.version[g] = seen.version[g] /\ raw'[g] = raw[g]
          /\ setting' = setting /\ seen'.setting = seen.setting
      BY <1>3, <1>5 DEF Edit, TypeOK, Versions
    <2>2. \A g \in Files : Current(g)' /\ run'.hash # Absent => run'.hash <= seen'.version[g]
      <3>1. \A g \in Files : Current(g) /\ run.hash # Absent => run.hash <= seen.version[g]
        BY DEF Newest
      <3>2. \A g \in Files : Current(g)' <=> Current(g)
        BY <1>1 DEF Current
      <3> QED
        BY <1>1, <1>3, <2>1, <3>1, <3>2
    <2>3. \A g \in Files : raw'[g] # Absent => raw'[g] = seen'.version[g]
      BY <2>1 DEF Newest
    <2> QED
      BY <1>1, <1>2, <2>1, <2>2, <2>3 DEF Newest
  <1>6. ASSUME NEW f \in Files, RemoveFile(f) PROVE Newest'
    <2>1. /\ raw'[f] = Absent /\ seen' = seen /\ setting' = setting
          /\ \A g \in Files : g # f => raw'[g] = raw[g]
      BY <1>6 DEF RemoveFile, TypeOK
    <2> QED
      BY <1>1, <1>2, <2>1 DEF Newest, Current
  <1> QED
    BY <1>4, <1>5, <1>6 DEF WorldStep

LEMMA NewestIdle ==
    ASSUME TypeOK, Newest, run' = NoRun, UNCHANGED <<raw, setting, seen>>,
           Known(manifest)'
    PROVE  Newest'
  <1>1. 1 <= seen.setting
    BY DEF TypeOK, Settings
  <1> QED
    BY <1>1, NoRunFields DEF Newest, Current, Known, NoEntries

LEMMA NewestStep == TypeOK /\ Shapes /\ ~Reverts /\ Newest /\ [Next]_vars => Newest'
  <1> SUFFICES ASSUME TypeOK, Shapes, ~Reverts, Newest, [Next]_vars
               PROVE  Newest'
    OBVIOUS
  <1> USE DEF disk, world
  <1>1. CASE UNCHANGED vars
    BY <1>1 DEF vars, Newest, Current, Known
  <1>2. CASE WorldStep
    BY <1>2, NewestWorld
  <1>3. CASE \E kind \in {"build", "reindex", "server"} : Start(kind)
    <2>1. /\ UNCHANGED <<raw, setting, seen, manifest>>
          /\ run'.setting = setting /\ run'.manifest = manifest /\ run'.hash = Absent
      BY <1>3, Starting, NoRunFields DEF Start
    <2>2. setting <= seen.setting
      BY DEF Newest, TypeOK, Settings
    <2> QED
      BY <2>1, <2>2 DEF Newest, Known
  <1>4. CASE \E f \in Files : HashFile(f)
    <2> PICK f \in Files : HashFile(f)
      BY <1>4
    <2>1. /\ UNCHANGED <<raw, setting, seen, manifest>> /\ Current(f) /\ raw[f] # Absent
          /\ KeepsBut({"hash"}) /\ run'.hash = raw[f]
      BY Hashing DEF HashFile
    <2>2. /\ run'.setting = run.setting /\ run'.manifest = run.manifest
          /\ run'.todo = run.todo /\ run'.phase = run.phase
      BY <2>1 DEF KeepsBut, Fields
    <2>3. \A g \in Files : Current(g)' => g = f
      BY <2>1, <2>2 DEF Current, Files
    <2>4. raw[f] <= seen.version[f]
      BY <2>1 DEF Newest, TypeOK, Versions
    <2> QED
      BY <2>1, <2>2, <2>3, <2>4 DEF Newest, Known
  <1>5. CASE \E f \in Files : ReuseChunks(f)
    <2>1. /\ UNCHANGED <<raw, setting, seen, manifest>> /\ run'.hash = Absent
          /\ KeepsBut({"todo", "hash", "all"})
      BY <1>5, Reusing DEF ReuseChunks
    <2>2. run'.setting = run.setting /\ run'.manifest = run.manifest
      BY <2>1 DEF KeepsBut, Fields
    <2> QED
      BY <2>1, <2>2 DEF Newest, Known
  <1>6. CASE \E f \in Files : Rechunk(f)
    <2> PICK f \in Files : Rechunk(f)
      BY <1>6
    <2> DEFINE entry == [hash |-> run.hash, setting |-> run.setting]
    <2>1. /\ UNCHANGED <<raw, setting, seen, manifest>> /\ run'.hash = Absent
          /\ KeepsBut({"todo", "hash", "manifest", "all", "new"})
          /\ run'.manifest = [run.manifest EXCEPT ![f] = entry]
      BY Rechunking DEF Rechunk
    <2>2. run'.setting = run.setting
      BY <2>1 DEF KeepsBut, Fields
    <2>3. entry.hash <= seen.version[f] /\ entry.setting <= seen.setting
      BY DEF Rechunk, Newest
    <2> HIDE DEF entry
    <2>4. Known(run.manifest)'
      <3>1. /\ run'.manifest[f] = entry
            /\ \A g \in Files : g # f => run'.manifest[g] = run.manifest[g]
        BY <2>1, Manifests
      <3>2. run.manifest # Torn
        BY Manifests
      <3> QED
        BY <2>1, <2>3, <3>1, <3>2 DEF Newest, Known
    <2> QED
      BY <2>1, <2>2, <2>4 DEF Newest, Known
  <1>7. CASE \E f \in Files : DropRemoved(f)
    <2> PICK f \in Files : DropRemoved(f)
      BY <1>7
    <2>1. /\ UNCHANGED <<raw, setting, seen, manifest>> /\ KeepsBut({"manifest"})
          /\ run'.manifest = [run.manifest EXCEPT ![f] = Absent]
      BY Dropping DEF DropRemoved
    <2>2. /\ run'.setting = run.setting /\ run'.hash = run.hash
          /\ run'.todo = run.todo /\ run'.phase = run.phase
      BY <2>1 DEF KeepsBut, Fields
    <2>3. Known(run.manifest)'
      BY <2>1, Manifests DEF Newest, Known
    <2> QED
      BY <2>1, <2>2, <2>3 DEF Newest, Known, Current
  <1>8. CASE BuildAll \/ AppendNew \/ NothingNew \/ StartFresh \/ SaveFaiss \/ SaveChunks \/ SaveBM25
    <2>1. /\ UNCHANGED <<raw, setting, seen, manifest>>
          /\ KeepsBut({"phase", "faiss", "chunks", "bm25"}) /\ run'.phase # "files"
      BY <1>8, Indexing, Writing
         DEF BuildAll, AppendNew, NothingNew, StartFresh, SaveFaiss, SaveChunks, SaveBM25, Parts,
             KeepsBut
    <2>2. run'.setting = run.setting /\ run'.manifest = run.manifest
      BY <2>1 DEF KeepsBut, Fields
    <2> QED
      BY <2>1, <2>2 DEF Newest, Known, Current
  <1>9. CASE SaveManifest
    BY <1>9, NewestIdle DEF SaveManifest, Newest, Known
  <1>10. CASE Fails
    BY <1>10, NewestIdle DEF Fails, Newest, Known
  <1>11. CASE Stop \/ StopWriting
    <2>1. manifest' \in {manifest, Torn}
      BY <1>11, Tearing DEF Stop
    <2> QED
      BY <1>11, <2>1, Stopping, NewestIdle DEF Stop, StopWriting, Newest, Known
  <1> QED
    BY <1>1, <1>2, <1>3, <1>4, <1>5, <1>6, <1>7, <1>8, <1>9, <1>10, <1>11 DEF Next, WorldStep

-----------------------------------------------------------------------------
(* The chunk cache is what the manifests say it is.                        *)

LEMMA CacheWorld ==
    ASSUME TypeOK, Shapes, ~Reverts, Newest, CacheSound, WorldStep
    PROVE  CacheSound'
  <1>1. UNCHANGED <<cache, manifest, index, run>>
    BY WorldFrame
  <1>2. ASSUME NEW m, Known(m), m \in [Files -> Entries \union {Absent}] \union {Torn}
        PROVE  /\ Matches(raw, cache, m, setting) => Matches(raw', cache, m, setting')
               /\ \A s : Matches(raw, cache, m, s) => Matches(raw', cache, m, s)
    BY <1>2, ClaimsShrink DEF Matches, Made
  <1>3. /\ Matches(raw', cache, manifest, setting')
        /\ Matches(raw', cache, run.manifest, setting')
        /\ Matches(raw', cache, run.manifest, run.setting)
    BY <1>2, Manifests DEF CacheSound, Newest
  <1>4. HashMatches'
    BY <1>1 DEF CacheSound, HashMatches, Current
  <1> QED
    BY <1>1, <1>3, <1>4 DEF CacheSound

LEMMA CacheIdle ==
    ASSUME TypeOK, CacheSound, run' = NoRun, UNCHANGED <<raw, setting>>,
           manifest' \in {manifest, run.manifest, Torn},
           \A f \in Files : cache'[f] = cache[f] \/ cache'[f] = Torn
    PROVE  CacheSound'
  <1>1. Matches(raw', cache', manifest', setting')
    BY DEF CacheSound, Matches, Readable, Claims
  <1>2. \A s : Matches(raw', cache', NoEntries, s)
    BY NoClaims DEF Matches
  <1> QED
    BY <1>1, <1>2, NoRunFields DEF CacheSound, HashMatches

LEMMA CacheStep ==
    TypeOK /\ Shapes /\ ~Reverts /\ Newest /\ CacheSound /\ RunSound /\ [Next]_vars => CacheSound'
  <1> SUFFICES ASSUME TypeOK, Shapes, ~Reverts, Newest, CacheSound, RunSound, [Next]_vars
               PROVE  CacheSound'
    OBVIOUS
  <1> USE DEF disk, world
  <1>1. CASE UNCHANGED vars
    BY <1>1 DEF vars, CacheSound, HashMatches, Current
  <1>2. CASE WorldStep
    BY <1>2, CacheWorld
  <1>3. CASE \E kind \in {"build", "reindex", "server"} : Start(kind)
    <2>1. /\ UNCHANGED <<raw, setting, cache, manifest>>
          /\ run'.setting = setting /\ run'.manifest = manifest /\ run'.hash = Absent
      BY <1>3, Starting, NoRunFields DEF Start
    <2> QED
      BY <2>1 DEF CacheSound, HashMatches
  <1>4. CASE \E f \in Files : HashFile(f)
    <2> PICK f \in Files : HashFile(f)
      BY <1>4
    <2>1. /\ UNCHANGED <<raw, setting, cache, manifest>> /\ Current(f) /\ raw[f] # Absent
          /\ KeepsBut({"hash"}) /\ run'.hash = raw[f]
      BY Hashing DEF HashFile
    <2>2. /\ run'.setting = run.setting /\ run'.manifest = run.manifest
          /\ run'.todo = run.todo /\ run'.phase = run.phase
      BY <2>1 DEF KeepsBut, Fields
    <2>3. \A g \in Files : Current(g)' => g = f
      BY <2>1, <2>2 DEF Current, Files
    <2>4. Readable(cache[f]) /\ Reusable(run.manifest[f], raw[f], run.setting)
            => cache[f] = [file |-> f, version |-> raw[f], setting |-> run.setting]
      BY <2>1, Manifests DEF CacheSound, Matches, Claims, Made
    <2>5. HashMatches'
      BY <2>1, <2>2, <2>3, <2>4 DEF HashMatches
    <2> QED
      BY <2>1, <2>2, <2>5 DEF CacheSound
  <1>5. CASE \E f \in Files : ReuseChunks(f)
    <2>1. /\ UNCHANGED <<raw, setting, cache, manifest>> /\ run'.hash = Absent
          /\ KeepsBut({"todo", "hash", "all"})
      BY <1>5, Reusing DEF ReuseChunks
    <2>2. run'.setting = run.setting /\ run'.manifest = run.manifest
      BY <2>1 DEF KeepsBut, Fields
    <2> QED
      BY <2>1, <2>2 DEF CacheSound, HashMatches
  <1>6. CASE \E f \in Files : Rechunk(f)
    <2> PICK f \in Files : Rechunk(f)
      BY <1>6
    <2> DEFINE b == Made(raw, f, run.setting)
               entry == [hash |-> run.hash, setting |-> run.setting]
    <2>1. /\ UNCHANGED <<raw, setting, manifest>> /\ run'.hash = Absent
          /\ KeepsBut({"todo", "hash", "manifest", "all", "new"})
          /\ run'.manifest = [run.manifest EXCEPT ![f] = entry]
          /\ cache' = [cache EXCEPT ![f] = b]
          /\ Running
      BY Rechunking DEF Rechunk, Current, Running, Shapes
    <2>2. run'.setting = run.setting
      BY <2>1 DEF KeepsBut, Fields
    <2>3. /\ Claims(raw, manifest, f, setting) => run.setting = setting
          /\ \A m, s : m[f] = entry /\ Claims(raw, m, f, s) => run.setting = s
      BY <2>1 DEF RunSound, Claims, Reusable
    <2> HIDE DEF entry
    <2>4. /\ run'.manifest[f] = entry /\ cache'[f] = b
          /\ \A g \in Files : g # f => run'.manifest[g] = run.manifest[g] /\ cache'[g] = cache[g]
      BY <2>1, Manifests
    <2>5. \A g \in Files : \A s : g # f /\ Claims(raw, run'.manifest, g, s) => Claims(raw, run.manifest, g, s)
      BY <2>4, Manifests DEF Claims
    <2>6. Matches(raw, cache', manifest, setting)
      BY <2>3, <2>4 DEF CacheSound, Matches
    <2>7. Matches(raw, cache', run'.manifest, setting)
      BY <2>3, <2>4, <2>5 DEF CacheSound, Matches
    <2>8. Matches(raw, cache', run'.manifest, run.setting)
      BY <2>3, <2>4, <2>5 DEF CacheSound, Matches
    <2> QED
      BY <2>1, <2>2, <2>6, <2>7, <2>8 DEF CacheSound, HashMatches
  <1>7. CASE \E f \in Files : DropRemoved(f)
    <2> PICK f \in Files : DropRemoved(f)
      BY <1>7
    <2>1. /\ UNCHANGED <<raw, setting, manifest>> /\ KeepsBut({"manifest"})
          /\ run'.manifest = [run.manifest EXCEPT ![f] = Absent]
          /\ cache' = [cache EXCEPT ![f] = Absent]
          /\ run.todo = {}
      BY Dropping DEF DropRemoved
    <2>2. run'.setting = run.setting /\ run'.todo = run.todo
      BY <2>1 DEF KeepsBut, Fields
    <2>3. /\ run'.manifest[f] = Absent /\ cache'[f] = Absent
          /\ \A g \in Files : g # f => run'.manifest[g] = run.manifest[g] /\ cache'[g] = cache[g]
      BY <2>1, Manifests
    <2>4. \A g \in Files : \A s : g # f /\ Claims(raw, run'.manifest, g, s) => Claims(raw, run.manifest, g, s)
      BY <2>3, Manifests DEF Claims
    <2>5. ~Readable(cache'[f])
      BY <2>3 DEF Readable
    <2>6. /\ Matches(raw, cache', manifest, setting)
          /\ Matches(raw, cache', run'.manifest, setting)
          /\ Matches(raw, cache', run'.manifest, run.setting)
      BY <2>3, <2>4, <2>5 DEF CacheSound, Matches
    <2>7. HashMatches'
      BY <2>1, <2>2 DEF HashMatches, Current
    <2> QED
      BY <2>1, <2>2, <2>6, <2>7 DEF CacheSound
  <1>8. CASE BuildAll \/ AppendNew \/ NothingNew \/ StartFresh \/ SaveFaiss \/ SaveChunks \/ SaveBM25
    <2>1. /\ UNCHANGED <<raw, setting, cache, manifest>>
          /\ KeepsBut({"phase", "faiss", "chunks", "bm25"}) /\ run'.phase # "files"
      BY <1>8, Indexing, Writing
         DEF BuildAll, AppendNew, NothingNew, StartFresh, SaveFaiss, SaveChunks, SaveBM25, Parts,
             KeepsBut
    <2>2. run'.setting = run.setting /\ run'.manifest = run.manifest
      BY <2>1 DEF KeepsBut, Fields
    <2> QED
      BY <2>1, <2>2 DEF CacheSound, HashMatches, Current
  <1>9. CASE SaveManifest
    BY <1>9, CacheIdle DEF SaveManifest
  <1>10. CASE Fails
    BY <1>10, CacheIdle DEF Fails
  <1>11. CASE Stop
    BY <1>11, Stopping, CacheIdle DEF Stop
  <1>12. CASE StopWriting
    <2>1. \A f \in Files : cache'[f] = cache[f] \/ cache'[f] = Torn
      BY <1>12, Tearing, Manifests
    <2>2. manifest' \in {manifest, run.manifest, Torn}
      BY <1>12, Tearing
    <2> QED
      BY <1>12, <2>1, <2>2, Stopping, CacheIdle DEF StopWriting
  <1> QED
    BY <1>1, <1>2, <1>3, <1>4, <1>5, <1>6, <1>7, <1>8, <1>9, <1>10, <1>11, <1>12 DEF Next, WorldStep

-----------------------------------------------------------------------------
(* A run's batches are what the manifests say of their files.              *)

LEMMA RunWorld ==
    ASSUME TypeOK, Shapes, ~Reverts, Newest, RunSound, WorldStep
    PROVE  RunSound'
  <1>1. UNCHANGED <<cache, manifest, index, run>>
    BY WorldFrame
  <1>2. ASSUME NEW m, Known(m), m \in [Files -> Entries \union {Absent}] \union {Torn},
               NEW g \in Files, Claims(raw', m, g, setting')
        PROVE  /\ Claims(raw, m, g, setting) /\ setting' = setting
               /\ Made(raw', g, setting') = Made(raw, g, setting)
    BY <1>2, ClaimsShrink DEF Made
  <1>3. \A b \in ToSet(run.all) : b.file \in Files
    <2>1. run.all \in Seq(Batches)
      BY DEF TypeOK
    <2>2. \A b \in ToSet(run.all) : b \in Batches
      <3> HIDE DEF Batches
      <3> QED
        BY <2>1, ElementOfSeq, LenProperties DEF ToSet
    <2> QED
      BY <2>2 DEF Batches
  <1>4. Known(manifest) /\ Known(run.manifest)
    BY DEF Newest
  <1>5. Running => (BatchesMatch(manifest) => BatchesMatch(manifest)')
    BY <1>1, <1>2, <1>3, <1>4, Manifests DEF BatchesMatch
  <1>6. Running => (BatchesMatch(run.manifest) => BatchesMatch(run.manifest)')
    BY <1>1, <1>2, <1>3, <1>4, Manifests DEF BatchesMatch
  <1>7. \A f \in Files : Claims(raw', manifest, f, setting') =>
                          Claims(raw, manifest, f, setting) /\ setting' = setting
    BY <1>2, <1>4, Manifests
  <1> QED
    BY <1>1, <1>5, <1>6, <1>7 DEF RunSound, Running

LEMMA RunStep ==
    TypeOK /\ Shapes /\ Chunked /\ ~Reverts /\ Newest /\ CacheSound /\ RunSound /\ [Next]_vars
      => RunSound'
  <1> SUFFICES ASSUME TypeOK, Shapes, Chunked, ~Reverts, Newest, CacheSound, RunSound, [Next]_vars
               PROVE  RunSound'
    OBVIOUS
  <1> USE DEF disk, world
  <1>1. CASE UNCHANGED vars
    BY <1>1 DEF vars, RunSound, Running, BatchesMatch
  <1>2. CASE WorldStep
    BY <1>2, RunWorld
  <1>3. CASE \E kind \in {"build", "reindex", "server"} : Start(kind)
    <2>1. /\ UNCHANGED <<raw, setting, manifest>> /\ manifest # Torn
          /\ run'.setting = setting /\ run'.manifest = manifest
          /\ run'.listed = Present /\ run'.all = <<>>
      BY <1>3, Starting, NoRunFields DEF Start
    <2>2. \A f \in Files : Claims(raw, manifest, f, setting) => f \in Present
      BY DEF Claims, Present
    <2> QED
      BY <2>1, <2>2, NoBatches DEF RunSound, BatchesMatch
  <1>4. CASE \E f \in Files : HashFile(f)
    <2>1. /\ UNCHANGED <<raw, setting, manifest>> /\ KeepsBut({"hash"})
      BY <1>4, Hashing DEF HashFile
    <2>2. /\ run'.setting = run.setting /\ run'.manifest = run.manifest /\ run'.kind = run.kind
          /\ run'.listed = run.listed /\ run'.phase = run.phase
          /\ run'.all = run.all /\ run'.new = run.new
      BY <2>1 DEF KeepsBut, Fields
    <2> QED
      BY <2>1, <2>2 DEF RunSound, Running, BatchesMatch
  <1>5. CASE \E f \in Files : ReuseChunks(f)
    <2> PICK f \in Files : ReuseChunks(f)
      BY <1>5
    <2>1. /\ UNCHANGED <<raw, setting, manifest>> /\ KeepsBut({"todo", "hash", "all"})
          /\ run'.all = Append(run.all, cache[f])
          /\ Readable(cache[f]) /\ run.phase = "files"
      BY Reusing DEF ReuseChunks, Reuses, Readable, Current
    <2>2. /\ run'.setting = run.setting /\ run'.manifest = run.manifest /\ run'.kind = run.kind
          /\ run'.listed = run.listed /\ run'.phase = run.phase /\ run'.new = run.new
      BY <2>1 DEF KeepsBut, Fields
    <2>3. cache[f].file = f /\ cache[f] \in Batches
      BY <2>1 DEF Chunked, TypeOK, Readable
    <2>4. ToSet(run'.all) = ToSet(run.all) \union {cache[f]}
      BY <2>1, <2>3, AddedBatch DEF TypeOK
    <2>5. \A m \in {manifest, run.manifest} :
            Claims(raw, m, f, setting) => cache[f] = Made(raw, f, setting)
      BY <2>1 DEF CacheSound, Matches
    <2> QED
      BY <2>1, <2>2, <2>3, <2>4, <2>5 DEF RunSound, Running, BatchesMatch
  <1>6. CASE \E f \in Files : Rechunk(f)
    <2> PICK f \in Files : Rechunk(f)
      BY <1>6
    <2> DEFINE b == Made(raw, f, run.setting)
               entry == [hash |-> run.hash, setting |-> run.setting]
    <2>1. /\ UNCHANGED <<raw, setting, manifest>>
          /\ KeepsBut({"todo", "hash", "manifest", "all", "new"})
          /\ run'.manifest = [run.manifest EXCEPT ![f] = entry]
          /\ run'.all = Append(run.all, b) /\ run'.new = Append(run.new, b)
          /\ run.phase = "files" /\ f \in run.todo /\ raw[f] # Absent
          /\ Running
      BY Rechunking DEF Rechunk, Current, Running, Shapes
    <2>2. /\ run'.setting = run.setting /\ run'.listed = run.listed
          /\ run'.phase = run.phase /\ run'.kind = run.kind
      BY <2>1 DEF KeepsBut, Fields
    <2>3. /\ Claims(raw, manifest, f, setting) => run.setting = setting
          /\ \A m, s : m[f] = entry /\ Claims(raw, m, f, s) => run.setting = s
      BY <2>1 DEF RunSound, Claims, Reusable
    <2>4. b \in Batches /\ b.file = f
      BY <2>1, MadeBatch DEF TypeOK
    <2>5. /\ ToSet(run'.all) = ToSet(run.all) \union {b}
          /\ FilesOf(run'.new) = FilesOf(run.new) \union {f}
      BY <2>1, <2>4, AddedBatch DEF TypeOK
    <2>6. \A c \in ToSet(run.all) : c.file # f /\ c.file \in Files
      <3>1. FilesOf(run.all) = run.listed \ run.todo /\ run.listed \subseteq Files
        BY DEF Chunked, TypeOK
      <3> QED
        BY <2>1, <3>1 DEF FilesOf
    <2> HIDE DEF entry
    <2>7. /\ run'.manifest[f] = entry
          /\ \A g \in Files : g # f => run'.manifest[g] = run.manifest[g]
      BY <2>1, Manifests
    <2>8. \A g \in Files : \A s : g # f /\ Claims(raw, run'.manifest, g, s) => Claims(raw, run.manifest, g, s)
      BY <2>7, Manifests DEF Claims
    <2>9. /\ Claims(raw, manifest, f, setting) => b = Made(raw, f, setting)
          /\ Claims(raw, run'.manifest, f, setting) => b = Made(raw, f, setting)
      BY <2>3, <2>7
    <2> HIDE DEF b
    <2>10. BatchesMatch(manifest)'
      BY <2>1, <2>4, <2>5, <2>9 DEF RunSound, BatchesMatch
    <2>11. BatchesMatch(run.manifest)'
      BY <2>1, <2>4, <2>5, <2>6, <2>8, <2>9 DEF RunSound, BatchesMatch
    <2>12. \A g \in Files : \/ run'.manifest[g] = manifest[g]
                            \/ run'.manifest[g] = Absent
                            \/ g \in FilesOf(run'.new)
      BY <2>1, <2>5, <2>7 DEF RunSound
    <2> QED
      BY <2>1, <2>2, <2>10, <2>11, <2>12 DEF RunSound, Running
  <1>7. CASE \E f \in Files : DropRemoved(f)
    <2> PICK f \in Files : DropRemoved(f)
      BY <1>7
    <2>1. /\ UNCHANGED <<raw, setting, manifest>> /\ KeepsBut({"manifest"})
          /\ run'.manifest = [run.manifest EXCEPT ![f] = Absent]
          /\ run.phase = "files" /\ Running
      BY Dropping DEF DropRemoved, Running, Shapes
    <2>2. /\ run'.setting = run.setting /\ run'.kind = run.kind
          /\ run'.listed = run.listed /\ run'.phase = run.phase
          /\ run'.all = run.all /\ run'.new = run.new
      BY <2>1 DEF KeepsBut, Fields
    <2>3. /\ run'.manifest[f] = Absent
          /\ \A g \in Files : g # f => run'.manifest[g] = run.manifest[g]
      BY <2>1, Manifests
    <2>4. \A g \in Files : \A s : Claims(raw, run'.manifest, g, s) => Claims(raw, run.manifest, g, s)
      BY <2>3, Manifests DEF Claims, Reusable
    <2>5. \A c \in ToSet(run.all) : c.file \in Files
      <3>1. FilesOf(run.all) = run.listed \ run.todo /\ run.listed \subseteq Files
        BY DEF Chunked, TypeOK
      <3> QED
        BY <3>1 DEF FilesOf
    <2>6. BatchesMatch(run.manifest)'
      BY <2>1, <2>2, <2>4, <2>5 DEF RunSound, BatchesMatch
    <2> QED
      BY <2>1, <2>2, <2>3, <2>6 DEF RunSound, Running, BatchesMatch
  <1>8. CASE BuildAll \/ AppendNew \/ NothingNew \/ StartFresh \/ SaveFaiss \/ SaveChunks \/ SaveBM25
    <2>1. /\ UNCHANGED <<raw, setting, manifest>>
          /\ KeepsBut({"phase", "faiss", "chunks", "bm25"}) /\ run'.phase # "files"
      BY <1>8, Indexing, Writing
         DEF BuildAll, AppendNew, NothingNew, StartFresh, SaveFaiss, SaveChunks, SaveBM25, Parts,
             KeepsBut
    <2>2. /\ run'.setting = run.setting /\ run'.listed = run.listed /\ run'.kind = run.kind
      BY <2>1 DEF KeepsBut, Fields
    <2> QED
      BY <2>1, <2>2 DEF RunSound, Running
  <1>9. CASE SaveManifest \/ Fails \/ Stop \/ StopWriting
    BY <1>9, NoRunFields DEF SaveManifest, Fails, Stop, StopWriting, Dies, RunSound, Running
  <1> QED
    BY <1>1, <1>2, <1>3, <1>4, <1>5, <1>6, <1>7, <1>8, <1>9 DEF Next, WorldStep

-----------------------------------------------------------------------------
(* What the manifests claim is in the index.                               *)

LEMMA FreshWorld ==
    ASSUME TypeOK, Shapes, ~Reverts, Newest, IndexSound, WorldStep
    PROVE  IndexSound'
  <1>1. UNCHANGED <<cache, manifest, index, run>>
    BY WorldFrame
  <1>2. ASSUME NEW m, Known(m), m \in [Files -> Entries \union {Absent}] \union {Torn}, NEW content,
               Fresh(raw, m, setting, content)
        PROVE  Fresh(raw', m, setting', content)
    BY <1>2, ClaimsShrink DEF Fresh, Made
  <1>3. Known(manifest) /\ Known(run.manifest)
    BY DEF Newest
  <1>4. \A part \in Parts : Fresh(raw', manifest, setting', index[part])
    BY <1>2, <1>3, Manifests DEF IndexSound
  <1>5. InPlace => FreshInMemory(manifest)' /\ FreshInMemory(run.manifest)'
    BY <1>1, <1>2, <1>3, Manifests DEF IndexSound, FreshInMemory
  <1> QED
    BY <1>1, <1>4, <1>5 DEF IndexSound, InPlace

(* Once every file is dealt with, the batches of a run hold all that the   *)
(* old manifest or the new one claims.                                     *)
LEMMA AllIsFresh ==
    ASSUME TypeOK, Shapes, Chunked, RunSound, Diffed, NEW m \in {manifest, run.manifest}
    PROVE  Fresh(raw, m, setting, run.all)
  <1> SUFFICES ASSUME NEW f \in Files, Claims(raw, m, f, setting)
               PROVE  Made(raw, f, setting) \in ToSet(run.all)
    BY DEF Fresh
  <1>1. Running /\ run.phase = "files" /\ run.todo = {} /\ Gone = {}
    BY DEF Diffed, Running, Shapes
  <1>2. f \in run.listed
    <2>1. CASE m = manifest
      BY <1>1, <2>1 DEF RunSound
    <2>2. CASE m = run.manifest
      BY <1>1, <2>2 DEF Gone, Claims, Reusable
    <2> QED
      BY <2>1, <2>2
  <1>3. f \in FilesOf(run.all)
    BY <1>1, <1>2 DEF Chunked
  <1>4. PICK b \in ToSet(run.all) : b.file = f
    BY <1>3 DEF FilesOf
  <1>5. BatchesMatch(m)
    BY <1>1 DEF RunSound
  <1> QED
    BY <1>4, <1>5 DEF BatchesMatch

(* What an update adds to the index makes up for what the old manifest     *)
(* does not claim.                                                         *)
LEMMA NewIsFresh ==
    ASSUME TypeOK, Shapes, Chunked, RunSound, Diffed,
           NEW f \in Files, Claims(raw, run.manifest, f, setting)
    PROVE  Claims(raw, manifest, f, setting) \/ Made(raw, f, setting) \in ToSet(run.new)
  <1>1. Running /\ run.phase = "files"
    BY DEF Diffed, Running, Shapes
  <1>2. \/ run.manifest[f] = manifest[f] /\ manifest # Torn
        \/ f \in FilesOf(run.new)
    BY <1>1 DEF RunSound, Claims, Reusable
  <1>3. CASE run.manifest[f] = manifest[f] /\ manifest # Torn
    BY <1>3 DEF Claims
  <1>4. CASE f \in FilesOf(run.new)
    <2>1. PICK b \in ToSet(run.new) : b.file = f
      BY <1>4 DEF FilesOf
    <2>2. b \in ToSet(run.all)
      BY <2>1 DEF Chunked
    <2> QED
      BY <1>1, <2>1, <2>2 DEF RunSound, BatchesMatch
  <1> QED
    BY <1>2, <1>3, <1>4

LEMMA IndexInMemory ==
    ASSUME TypeOK, Shapes, IndexSound, NEW a, NEW b, NEW c, InMemory(a, b, c),
           \A m \in {manifest, run.manifest}, x \in {a, b, c} : Fresh(raw, m, setting, x)
    PROVE  IndexSound'
  <1>1. /\ KeepsBut({"phase", "faiss", "chunks", "bm25"})
        /\ run'.phase = "faiss" /\ run'.faiss = a /\ run'.chunks = b /\ run'.bm25 = c
        /\ UNCHANGED <<cache, manifest, index, raw, setting, seen, left>>
    BY Indexing
  <1>2. run'.manifest = run.manifest /\ run'.kind = run.kind
    BY <1>1 DEF KeepsBut, Fields
  <1>3. FreshInMemory(manifest)' /\ FreshInMemory(run.manifest)'
    BY <1>1, <1>2 DEF FreshInMemory
  <1> QED
    BY <1>1, <1>2, <1>3 DEF IndexSound

LEMMA IndexOnly ==
    ASSUME IndexSound, UNCHANGED <<raw, setting, manifest, index>>, ~InPlace',
           run'.kind \in {run.kind, "none"}
    PROVE  IndexSound'
  BY DEF IndexSound

LEMMA IndexStep ==
    TypeOK /\ Shapes /\ Chunked /\ Written /\ ~Reverts /\ Newest /\ RunSound /\ IndexSound
      /\ [Next]_vars => IndexSound'
  <1> SUFFICES ASSUME TypeOK, Shapes, Chunked, Written, ~Reverts, Newest, RunSound, IndexSound,
                      [Next]_vars
               PROVE  IndexSound'
    OBVIOUS
  <1> USE DEF disk, world
  <1>1. CASE UNCHANGED vars
    BY <1>1 DEF vars, IndexSound, InPlace, FreshInMemory
  <1>2. CASE WorldStep
    BY <1>2, FreshWorld
  <1>3. CASE \E kind \in {"build", "reindex", "server"} : Start(kind)
    <2> PICK kind \in {"build", "reindex", "server"} : Start(kind)
      BY <1>3
    <2>1. UNCHANGED <<raw, setting, manifest, index>> /\ run'.kind = kind /\ run'.phase = "files"
      BY Starting DEF Start
    <2>2. kind = "server" => index.bm25 = Absent
      BY DEF Start, MayStart, IndexSound
    <2> QED
      BY <2>1, <2>2 DEF IndexSound, InPlace
  <1>4. CASE \E f \in Files : HashFile(f) \/ ReuseChunks(f) \/ Rechunk(f) \/ DropRemoved(f)
    <2>1. /\ UNCHANGED <<raw, setting, manifest, index>> /\ run.phase = "files"
          /\ KeepsBut({"hash", "todo", "all", "new", "manifest"})
      BY <1>4, Hashing, Reusing, Rechunking, Dropping
         DEF HashFile, ReuseChunks, Rechunk, DropRemoved, Current, KeepsBut, Fields
    <2>2. run'.kind = run.kind /\ run'.phase = "files"
      BY <2>1 DEF KeepsBut, Fields
    <2> QED
      BY <2>1, <2>2, IndexOnly DEF InPlace
  <1>5. CASE BuildAll
    <2>1. \A m \in {manifest, run.manifest} : Fresh(raw, m, setting, run.all)
      BY <1>5, AllIsFresh DEF BuildAll
    <2>2. \A m : Fresh(raw, m, setting, Absent)
      BY DEF Fresh, Readable
    <2> QED
      BY <1>5, <2>1, <2>2, IndexInMemory DEF BuildAll
  <1>6. CASE AppendNew
    <2>1. Diffed /\ \A part \in Parts : Readable(index[part]) /\ index[part] \in Seq(Batches)
      BY <1>6, Contained DEF AppendNew, Loadable, Parts, TypeOK
    <2>2. \A part \in Parts, f \in Files :
            Claims(raw, manifest, f, setting) => Made(raw, f, setting) \in ToSet(index[part])
      BY <2>1 DEF IndexSound, Fresh
    <2>3. \A part \in Parts : ToSet(index[part] \o run.new) = ToSet(index[part]) \union ToSet(run.new)
      BY <2>1, JoinedBatches DEF TypeOK
    <2>4. \A part \in Parts, m \in {manifest, run.manifest} :
            Fresh(raw, m, setting, index[part] \o run.new)
      BY <2>1, <2>2, <2>3, NewIsFresh DEF Fresh
    <2>5. \A m \in {manifest, run.manifest} : Fresh(raw, m, setting, run.all)
      BY <2>1, AllIsFresh
    <2>6. \A m \in {manifest, run.manifest} :
            /\ Fresh(raw, m, setting, index.faiss \o run.new)
            /\ Fresh(raw, m, setting, index.chunks \o run.new)
      BY <2>4 DEF Parts
    <2> QED
      BY <1>6, <2>5, <2>6, IndexInMemory DEF AppendNew
  <1>7. CASE NothingNew
    <2>1. Diffed /\ run.new = <<>>
      BY <1>7 DEF NothingNew
    <2>2. \A f \in Files : Claims(raw, run.manifest, f, setting) => Claims(raw, manifest, f, setting)
      BY <2>1, NewIsFresh, NoBatches
    <2>3. \A part \in Parts, m \in {manifest, run.manifest} : Fresh(raw, m, setting, index[part])
      BY <2>2 DEF IndexSound, Fresh
    <2>4. \A m \in {manifest, run.manifest}, x \in {index.faiss, index.chunks, index.bm25} :
            Fresh(raw, m, setting, x)
      BY <2>3 DEF Parts
    <2> QED
      BY <1>7, <2>4, IndexInMemory DEF NothingNew
  <1>8. CASE StartFresh
    <2>1. Diffed /\ manifest = NoEntries
      BY <1>8 DEF StartFresh, IndexSound
    <2>2. \A f \in Files : ~Claims(raw, manifest, f, setting)
      BY <2>1, NoClaims
    <2>3. \A m \in {manifest, run.manifest} : Fresh(raw, m, setting, run.new)
      BY <2>1, <2>2, NewIsFresh DEF Fresh
    <2>4. \A m \in {manifest, run.manifest} : Fresh(raw, m, setting, run.all)
      BY <2>1, AllIsFresh
    <2> QED
      BY <1>8, <2>3, <2>4, IndexInMemory DEF StartFresh
  <1>9. CASE SaveFaiss \/ SaveChunks \/ SaveBM25
    <2>1. PICK part \in Parts : run.phase = part /\ index' = [index EXCEPT ![part] = run[part]]
      BY <1>9 DEF SaveFaiss, SaveChunks, SaveBM25, Write, Parts
    <2>2. /\ KeepsBut({"phase"}) /\ index'[part] = run[part]
          /\ \A p \in Parts \ {part} : index'[p] = index[p]
          /\ UNCHANGED <<manifest, raw, setting>>
      BY <1>9, <2>1, Writing DEF SaveFaiss, SaveChunks, SaveBM25, Write, Parts
    <2>3. /\ run'.manifest = run.manifest /\ run'.kind = run.kind /\ run'.faiss = run.faiss
          /\ run'.chunks = run.chunks /\ run'.bm25 = run.bm25
      BY <2>2 DEF KeepsBut, Fields
    <2>4. InPlace
      BY <2>1 DEF InPlace, Parts
    <2>5. Fresh(raw, manifest, setting, run[part])
      BY <2>4 DEF IndexSound, FreshInMemory, Parts
    <2>6. \A p \in Parts : Fresh(raw, manifest, setting, index'[p])
      BY <2>2, <2>5 DEF IndexSound
    <2>7. FreshInMemory(manifest)' /\ FreshInMemory(run.manifest)'
      BY <2>2, <2>3, <2>4 DEF IndexSound, FreshInMemory
    <2>8. index'.faiss # Absent
      <3>1. run.faiss # Absent
        BY <2>4, Contained DEF Written
      <3>2. part # "faiss" => index'.faiss = index.faiss /\ index.faiss = run.faiss
        BY <2>1, <2>2 DEF Written, Parts
      <3> QED
        BY <2>2, <3>1, <3>2
    <2>9. run.kind = "server" => index'.bm25 = Absent
      BY <2>2, <2>4 DEF Written, IndexSound, Parts
    <2> QED
      BY <2>2, <2>3, <2>6, <2>7, <2>8, <2>9 DEF IndexSound
  <1>10. CASE SaveManifest
    <2>1. /\ run.phase = "manifest" /\ InPlace /\ manifest' = run.manifest /\ run' = NoRun
          /\ UNCHANGED <<index, raw, setting>>
      BY <1>10 DEF SaveManifest, InPlace
    <2>2. /\ index.faiss = run.faiss /\ index.chunks = run.chunks
          /\ index.bm25 = run.bm25 \/ index.bm25 = Absent
      BY <2>1 DEF Written, IndexSound
    <2>3. Fresh(raw, run.manifest, setting, Absent)
      BY DEF Fresh, Readable
    <2>4. \A part \in Parts : Fresh(raw, run.manifest, setting, index[part])
      BY <2>1, <2>2, <2>3 DEF IndexSound, FreshInMemory, Parts
    <2>5. index.faiss # Absent
      BY <2>1, <2>2, Contained DEF Written
    <2> QED
      BY <2>1, <2>4, <2>5, NoRunFields DEF IndexSound, InPlace
  <1>11. CASE Fails \/ Stop
    BY <1>11, IndexOnly, NoRunFields DEF Fails, Stop, Dies, InPlace
  <1>12. CASE StopWriting
    <2>1. run' = NoRun /\ UNCHANGED <<raw, setting>>
      BY <1>12, Stopping DEF StopWriting
    <2>2. CASE UNCHANGED <<manifest, index>>
      BY <2>1, <2>2, IndexOnly, NoRunFields DEF InPlace
    <2>3. CASE run.phase \in Parts /\ index' = [index EXCEPT ![run.phase] = Torn] /\ manifest' = manifest
      <3>1. /\ index'[run.phase] = Torn
            /\ \A p \in Parts : p # run.phase => index'[p] = index[p]
        BY <2>3 DEF TypeOK, Parts
      <3>2. \A m : Fresh(raw, m, setting, Torn)
        BY DEF Fresh, Readable
      <3>3. \A p \in Parts : Fresh(raw, manifest, setting, index'[p])
        BY <3>1, <3>2 DEF IndexSound
      <3>4. index'.faiss # Absent
        <4>1. run.phase # "faiss" => index.faiss = run.faiss /\ run.faiss # Absent
          BY <2>3, Contained DEF Written, Parts, InPlace
        <4> QED
          BY <3>1, <4>1, DiskAssumption DEF Parts
      <3> QED
        BY <2>1, <2>3, <3>3, <3>4, NoRunFields DEF IndexSound, InPlace
    <2>4. CASE run.phase = "manifest" /\ manifest' = Torn /\ index' = index
      <3>1. \A content : Fresh(raw, Torn, setting, content)
        BY DEF Fresh, Claims
      <3>2. index.faiss # Absent
        BY <2>4, Contained DEF Written, InPlace
      <3> QED
        BY <2>1, <2>4, <3>1, <3>2, NoRunFields DEF IndexSound, InPlace
    <2> QED
      BY <1>12, <2>2, <2>3, <2>4 DEF StopWriting, Parts
  <1> QED
    BY <1>1, <1>2, <1>3, <1>4, <1>5, <1>6, <1>7, <1>8, <1>9, <1>10, <1>11, <1>12 DEF Next, WorldStep

-----------------------------------------------------------------------------
(* With contents and settings that only move forward, what the manifest    *)
(* claims stays true through every run, edit and crash.                    *)
THEOREM ReuseInvariance == ASSUME ~Reverts PROVE Spec => [](IInv /\ RInv)
  <1>1. Init => RInv
    <2> SUFFICES ASSUME Init PROVE RInv
      OBVIOUS
    <2>1. /\ run = NoRun /\ cache = NoEntries /\ manifest = NoEntries /\ setting = 1
          /\ index.faiss = Absent /\ index.chunks = Absent /\ index.bm25 = Absent
          /\ seen.setting = 1
      BY DEF Init
    <2>2. \A f \in Files : raw[f] # Absent => raw[f] = seen.version[f]
      BY DEF Init
    <2>3. Newest
      BY <2>1, <2>2, NoRunFields DEF Newest, Known, NoEntries
    <2>4. CacheSound
      BY <2>1, NoRunFields, NoClaims DEF CacheSound, Matches, HashMatches
    <2>5. RunSound /\ IndexSound
      BY <2>1, NoRunFields DEF RunSound, Running, IndexSound, Fresh, Readable, Parts, InPlace
    <2> QED
      BY <2>3, <2>4, <2>5 DEF RInv
  <1>2. IInv /\ RInv /\ [Next]_vars => RInv'
    BY NewestStep, CacheStep, RunStep, IndexStep DEF IInv, RInv
  <1>3. IInv /\ RInv /\ IInv' /\ [Next]_vars => (IInv /\ RInv)'
    BY <1>2
  <1> QED
    BY <1>1, <1>3, Invariance, PTL DEF Spec

(* The manifest never claims what was not persisted: the chunks of a file  *)
(* that the next update would skip are in every index file that can be     *)
(* read, whatever crashed on the way (build_index.py:82-84).               *)
THEOREM UnchangedKept == ASSUME ~Reverts PROVE Spec => []UnchangedIsIndexed
  <1>1. IInv /\ RInv => UnchangedIsIndexed
    <2> SUFFICES ASSUME RInv, NEW f \in Files, NEW part \in Parts,
                        Unchanged(f), Readable(index[part])
                 PROVE  UpToDate(f) \in ToSet(index[part])
      BY DEF UnchangedIsIndexed, Parts
    <2>1. Claims(raw, manifest, f, setting)
      BY DEF Unchanged, Claims
    <2>2. Fresh(raw, manifest, setting, index[part])
      BY DEF RInv, IndexSound
    <2> QED
      BY <2>1, <2>2 DEF Fresh, Made, UpToDate
  <1> QED
    BY <1>1, ReuseInvariance, PTL

(* Cached chunks are only reused if they were made from the content just   *)
(* hashed and with the run's settings (build_index.py:118-120).            *)
THEOREM ReuseKept == ASSUME ~Reverts PROVE Spec => ReuseIsSound
  <1>1. ASSUME IInv, RInv, NEW f \in Files, ReuseChunks(f)
        PROVE  cache[f] = [file |-> f, version |-> run.hash, setting |-> run.setting]
    <2>1. /\ Current(f) /\ run.hash # Absent /\ Readable(cache[f])
          /\ Reusable(run.manifest[f], run.hash, run.setting)
      BY <1>1 DEF ReuseChunks, Reuses, Readable
    <2> QED
      BY <1>1, <2>1 DEF RInv, CacheSound, HashMatches
  <1>2. IInv /\ RInv /\ [Next]_vars =>
          [\A f \in Files : ReuseChunks(f) =>
             cache[f] = [file |-> f, version |-> run.hash, setting |-> run.setting]]_vars
    BY <1>1
  <1> QED
    BY <1>2, ReuseInvariance, PTL DEF Spec, ReuseIsSound
=============================================================================
