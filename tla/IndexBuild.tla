----------------------------- MODULE IndexBuild -----------------------------
(* The retrieval index on disk and the three programs that write it: the full
   build (src/build_index.py), the incremental update (scripts/reindex.py) and
   the API server's own rebuild when it starts without an index
   (api/pipeline_instance.py).  One of them runs at a time; it may die between
   any two steps or in the middle of writing a file, while course files are
   edited, removed and restored and the chunking settings change around it.

   A raw file is a number (file names are handled in sorted order), its content
   is a version, and what chunking makes of it is one batch: the file, the
   version that was read and the settings that were used.  Every file is taken
   to yield at least one chunk.  A file on disk is Absent, Torn (its writer died
   while writing it) or holds a value.                                        *)
EXTENDS Integers, Sequences, SequencesExt, FiniteSets

CONSTANTS NumFiles,     \* how many course files there can be
          MaxVersion,   \* contents a file can have: 1 .. MaxVersion
          MaxSetting,   \* chunking settings in use: 1 .. MaxSetting
          Reverts,      \* whether an old content or setting can come back
          MaxEdits, MaxRuns, MaxDeaths,   \* bounds on what happens
          Absent, Torn

ASSUME IndexAssumption ==
  /\ NumFiles \in Nat \ {0} /\ MaxVersion \in Nat \ {0} /\ MaxSetting \in Nat \ {0}
  /\ Reverts \in BOOLEAN
  /\ MaxEdits \in Nat /\ MaxRuns \in Nat /\ MaxDeaths \in Nat

Files    == 1 .. NumFiles
Versions == 1 .. MaxVersion
Settings == 1 .. MaxSetting
Batches  == [file : Files, version : Versions, setting : Settings]
Entries  == [hash : Versions, setting : Settings]   \* a manifest entry

\* An absent file and a torn one are told apart from every content.
ASSUME DiskAssumption ==
  /\ Absent # Torn
  /\ Torn \notin [Files -> Entries \cup {Absent}]
  /\ \A x \in {Absent, Torn} : /\ x \notin Versions /\ x \notin Batches
                             /\ x \notin Entries /\ x \notin Seq(Batches)

VARIABLES
  raw,       \* data/raw: the version of each file, or Absent
  setting,   \* the ChunkingConfig of the code
  cache,     \* data/processed: each file's chunk pickle
  manifest,  \* data/index/manifest.json: an entry (or Absent) per file, or Torn
  index,     \* data/index: dense.faiss, dense_chunks.pkl and bm25.pkl
  run,       \* the program that is running, or the last one's end
  seen,      \* the newest version and setting there have been
  left       \* edits, runs and deaths still allowed

vars == <<raw, setting, cache, manifest, index, run, seen, left>>
disk == <<cache, manifest, index>>
world == <<raw, setting, seen>>

NoEntries == [f \in Files |-> Absent]
NoRun == [kind |-> "none", phase |-> "idle", listed |-> {}, todo |-> {}, hash |-> Absent,
          setting |-> 1, manifest |-> NoEntries, all |-> <<>>, new |-> <<>>,
          faiss |-> Absent, chunks |-> Absent, bm25 |-> Absent]
Running == run.kind # "none"
Present == {f \in Files : raw[f] # Absent}

Init == /\ raw \in [Files -> {Absent, 1}]
        /\ setting = 1
        /\ cache = NoEntries
        /\ manifest = NoEntries
        /\ index = [faiss |-> Absent, chunks |-> Absent, bm25 |-> Absent]
        /\ run = NoRun
        /\ seen = [version |-> [f \in Files |-> 1], setting |-> 1]
        /\ left = [edits |-> MaxEdits, runs |-> MaxRuns, deaths |-> MaxDeaths]

-----------------------------------------------------------------------------
(* What people do to data/raw and to the settings, at any time. *)

Touch == /\ left.edits > 0
         /\ left' = [left EXCEPT !.edits = @ - 1]
         /\ UNCHANGED <<disk, run>>

Edit(f) == \E v \in Versions :
  /\ v # raw[f]
  /\ Reverts \/ v > seen.version[f]
  /\ raw' = [raw EXCEPT ![f] = v]
  /\ seen' = [seen EXCEPT !.version[f] = IF v > @ THEN v ELSE @]
  /\ Touch
  /\ UNCHANGED setting

RemoveFile(f) == /\ raw[f] # Absent
             /\ raw' = [raw EXCEPT ![f] = Absent]
             /\ Touch
             /\ UNCHANGED <<setting, seen>>

ChangeSetting == \E s \in Settings :
  /\ s # setting
  /\ Reverts \/ s > seen.setting
  /\ setting' = s
  /\ seen' = [seen EXCEPT !.setting = IF s > @ THEN s ELSE @]
  /\ Touch
  /\ UNCHANGED raw

-----------------------------------------------------------------------------
(* A run: list the files, diff and chunk each, drop what is gone, index in
   memory, save the three index files, save the manifest. *)

\* The server rebuilds only when there is no index and something to build from.
MayStart(kind) == kind = "server" => index.faiss = Absent /\ Present # {}

\* load_manifest fails on a torn manifest, which ends the run at once.
Start(kind) == /\ ~Running /\ left.runs > 0
               /\ MayStart(kind)
               /\ manifest # Torn
               /\ run' = [NoRun EXCEPT !.kind = kind, !.phase = "files",
                            !.listed = Present, !.todo = Present,
                            !.setting = setting, !.manifest = manifest]
               /\ left' = [left EXCEPT !.runs = @ - 1]
               /\ UNCHANGED <<disk, world>>

Current(f) == run.phase = "files" /\ f \in run.todo /\ \A g \in run.todo : f <= g

HashFile(f) == /\ Current(f) /\ run.hash = Absent /\ raw[f] # Absent
               /\ run' = [run EXCEPT !.hash = raw[f]]
               /\ UNCHANGED <<disk, world, left>>

\* Mutant: a change of settings does not invalidate the cache.
ReusableAnySetting(entry, hash, s) == entry # Absent /\ entry.hash = hash

\* The test diff_and_chunk makes before it trusts a cached pickle.
Reusable(entry, hash, s) == entry # Absent /\ entry.hash = hash /\ entry.setting = s
Reuses(f) == Reusable(run.manifest[f], run.hash, run.setting) /\ cache[f] # Absent

ReuseChunks(f) == /\ Current(f) /\ run.hash # Absent
                  /\ Reuses(f) /\ cache[f] # Torn
                  /\ run' = [run EXCEPT !.todo = @ \ {f}, !.hash = Absent,
                                        !.all = Append(@, cache[f])]
                  /\ UNCHANGED <<disk, world, left>>

\* Mutant: the manifest is saved as soon as a file has been chunked.
RechunkRecords(f) ==
  /\ Current(f) /\ run.hash # Absent
  /\ ~Reuses(f) /\ raw[f] # Absent
  /\ LET batch == [file |-> f, version |-> raw[f], setting |-> run.setting]
         entry == [hash |-> run.hash, setting |-> run.setting]
     IN /\ cache' = [cache EXCEPT ![f] = batch]
        /\ manifest' = [run.manifest EXCEPT ![f] = entry]
        /\ run' = [run EXCEPT !.todo = @ \ {f}, !.hash = Absent, !.manifest[f] = entry,
                              !.all = Append(@, batch), !.new = Append(@, batch)]
  /\ UNCHANGED <<index, world, left>>

\* The file is read again here: it may no longer be what was hashed.
Rechunk(f) ==
  /\ Current(f) /\ run.hash # Absent
  /\ ~Reuses(f) /\ raw[f] # Absent
  /\ LET batch == [file |-> f, version |-> raw[f], setting |-> run.setting]
         entry == [hash |-> run.hash, setting |-> run.setting]
     IN /\ cache' = [cache EXCEPT ![f] = batch]
        /\ run' = [run EXCEPT !.todo = @ \ {f}, !.hash = Absent, !.manifest[f] = entry,
                              !.all = Append(@, batch), !.new = Append(@, batch)]
  /\ UNCHANGED <<manifest, index, world, left>>

Gone == {f \in Files : run.manifest[f] # Absent} \ run.listed

DropRemoved(f) == /\ run.phase = "files" /\ run.todo = {} /\ f \in Gone
                  /\ run' = [run EXCEPT !.manifest[f] = Absent]
                  /\ cache' = [cache EXCEPT ![f] = Absent]
                  /\ UNCHANGED <<manifest, index, world, left>>

Diffed == run.phase = "files" /\ run.todo = {} /\ Gone = {}

\* From here on the retriever is in memory and only the disk is to be written.
InMemory(faiss, chunks, bm25) ==
  /\ run' = [run EXCEPT !.phase = "faiss", !.faiss = faiss, !.chunks = chunks, !.bm25 = bm25]
  /\ UNCHANGED <<disk, world, left>>

\* Mutant: the full build indexes only what is new.
BuildNewOnly == /\ Diffed /\ run.kind \in {"build", "server"} /\ run.all # <<>>
                /\ InMemory(run.new, run.new, IF run.kind = "build" THEN run.new ELSE Absent)

\* Embedding an empty corpus fails, so a full build needs at least one chunk.
BuildAll == /\ Diffed /\ run.kind \in {"build", "server"} /\ run.all # <<>>
            /\ InMemory(run.all, run.all, IF run.kind = "build" THEN run.all ELSE Absent)

Readable(file) == file \notin {Absent, Torn}
Loadable == Readable(index.faiss) /\ Readable(index.chunks) /\ Readable(index.bm25)

\* Mutant: the vectors are appended, their chunks are not.
AppendVectors == /\ Diffed /\ run.kind = "reindex" /\ run.new # <<>>
                 /\ Loadable
                 /\ InMemory(index.faiss \o run.new, index.chunks, run.all)

\* reindex loads what is there, appends the new batches to the dense index and
\* rebuilds BM25 from the whole corpus ...
AppendNew == /\ Diffed /\ run.kind = "reindex" /\ run.new # <<>>
             /\ Loadable
             /\ InMemory(index.faiss \o run.new, index.chunks \o run.new, run.all)

\* ... and saves it again untouched when no file is new or changed ...
NothingNew == /\ Diffed /\ run.kind = "reindex" /\ run.new = <<>>
              /\ Loadable
              /\ InMemory(index.faiss, index.chunks, index.bm25)

\* ... or starts from nothing.
StartFresh == /\ Diffed /\ run.kind = "reindex" /\ run.new # <<>>
              /\ index.faiss = Absent
              /\ InMemory(run.new, run.new, run.all)

Write(phase, next) == /\ run.phase = phase
                      /\ run' = [run EXCEPT !.phase = next]
                      /\ UNCHANGED <<cache, manifest, world, left>>

SaveFaiss  == /\ Write("faiss", "chunks")
              /\ index' = [index EXCEPT !.faiss = run.faiss]
\* The server's retriever is the dense one alone: it has no BM25 to save.
SaveChunks == /\ Write("chunks", IF run.kind = "server" THEN "manifest" ELSE "bm25")
              /\ index' = [index EXCEPT !.chunks = run.chunks]
SaveBM25   == /\ Write("bm25", "manifest")
              /\ index' = [index EXCEPT !.bm25 = run.bm25]
SaveManifest == /\ run.phase = "manifest"
                /\ manifest' = run.manifest
                /\ run' = NoRun
                /\ UNCHANGED <<cache, index, world, left>>

-----------------------------------------------------------------------------
(* A run that stops early leaves the disk as it is. *)

\* What an exception ends: a file gone since it was listed, an unreadable
\* pickle or index, an empty corpus, an index object that was never built.
Fails ==
  /\ \/ \E f \in run.todo : Current(f) /\
          \/ run.hash = Absent /\ raw[f] = Absent
          \/ run.hash # Absent /\ Reuses(f) /\ cache[f] = Torn
          \/ run.hash # Absent /\ ~Reuses(f) /\ raw[f] = Absent
     \/ Diffed /\ run.kind # "reindex" /\ run.all = <<>>
     \/ Diffed /\ run.kind = "reindex" /\ index.faiss # Absent /\ ~Loadable
     \/ Diffed /\ run.kind = "reindex" /\ index.faiss = Absent /\ run.new = <<>>
  /\ run' = NoRun
  /\ UNCHANGED <<disk, world, left>>

Dies == /\ Running /\ left.deaths > 0
        /\ run' = NoRun
        /\ left' = [left EXCEPT !.deaths = @ - 1]
        /\ UNCHANGED world

Stop == Dies /\ UNCHANGED disk

\* No file is written aside and renamed, so the one being written is lost.
StopWriting ==
  /\ Dies
  /\ \/ /\ \E f \in run.todo : /\ Current(f) /\ run.hash # Absent /\ ~Reuses(f)
                               /\ cache' = [cache EXCEPT ![f] = Torn]
        /\ UNCHANGED <<manifest, index>>
     \/ /\ run.phase \in {"faiss", "chunks", "bm25"}
        /\ index' = [index EXCEPT ![run.phase] = Torn]
        /\ UNCHANGED <<cache, manifest>>
     \/ /\ run.phase = "manifest" /\ manifest' = Torn
        /\ UNCHANGED <<cache, index>>

Next == \/ \E f \in Files : \/ Edit(f) \/ RemoveFile(f)
                            \/ HashFile(f) \/ ReuseChunks(f) \/ Rechunk(f) \/ DropRemoved(f)
        \/ ChangeSetting
        \/ \E kind \in {"build", "reindex", "server"} : Start(kind)
        \/ BuildAll \/ AppendNew \/ NothingNew \/ StartFresh
        \/ SaveFaiss \/ SaveChunks \/ SaveBM25 \/ SaveManifest
        \/ Fails \/ Stop \/ StopWriting

Spec == Init /\ [][Next]_vars

-----------------------------------------------------------------------------
Contents == Seq(Batches) \cup {Absent}

\* Every variable keeps its shape: what is on disk is absent, torn or a batch
\* (a sequence of batches, a table of entries).
TypeOK ==
  /\ raw \in [Files -> Versions \cup {Absent}]
  /\ setting \in Settings
  /\ cache \in [Files -> Batches \cup {Absent, Torn}]
  /\ manifest \in [Files -> Entries \cup {Absent}] \cup {Torn}
  /\ index \in [{"faiss", "chunks", "bm25"} -> Contents \cup {Torn}]
  /\ seen \in [version : [Files -> Versions], setting : Settings]
  /\ left \in [edits : 0 .. MaxEdits, runs : 0 .. MaxRuns, deaths : 0 .. MaxDeaths]
  /\ run.kind \in {"none", "build", "reindex", "server"}
  /\ run.phase \in {"idle", "files", "faiss", "chunks", "bm25", "manifest"}
  /\ run.listed \in SUBSET Files /\ run.todo \in SUBSET Files
  /\ run.hash \in Versions \cup {Absent} /\ run.setting \in Settings
  /\ run.manifest \in [Files -> Entries \cup {Absent}]
  /\ run.all \in Seq(Batches) /\ run.new \in Seq(Batches)
  /\ run.faiss \in Contents /\ run.chunks \in Contents /\ run.bm25 \in Contents

\* What a run started now would find unchanged and not process again.
Unchanged(f) == manifest # Torn /\ raw[f] # Absent /\ Reusable(manifest[f], raw[f], setting)
UpToDate(f) == [file |-> f, version |-> raw[f], setting |-> setting]

\* Cached chunks are reused only if they were made from the content just hashed
\* and with the run's settings (build_index.py:118-120), although the pickle is
\* written long before the manifest, a crash may separate the two, and the file
\* may be edited between its hash and its extraction.
ReuseIsSound ==
  [][\A f \in Files : ReuseChunks(f) =>
       cache[f] = [file |-> f, version |-> run.hash, setting |-> run.setting]]_vars

\* The manifest never claims what was not persisted (build_index.py:82-84): the
\* chunks of a file that the next update would skip are in every index file
\* that can be read, whatever crashed on the way.
UnchangedIsIndexed ==
  \A f \in Files, part \in {"faiss", "chunks", "bm25"} :
    Unchanged(f) /\ Readable(index[part]) => UpToDate(f) \in ToSet(index[part])

\* A vector's position in dense.faiss is its chunk's position in
\* dense_chunks.pkl (dense.py:146 relies on it): so it is whenever no run was
\* killed, across full builds, updates and failed runs in any order.
DenseAligned == ~Running /\ left.deaths = MaxDeaths => index.faiss = index.chunks

\* A full build that completes repairs everything: all three index files hold
\* exactly one batch of each file it lists, and the saved manifest names those
\* files, whatever earlier runs left behind.
FullBuildRepairs ==
  [][SaveManifest /\ run.kind = "build"
       => /\ index.faiss = index.chunks /\ index.faiss = index.bm25
          /\ Len(index.faiss) = Cardinality(run.listed)
          /\ {b.file : b \in ToSet(index.faiss)} = run.listed
          /\ {f \in Files : manifest'[f] # Absent} = run.listed]_vars
=============================================================================
