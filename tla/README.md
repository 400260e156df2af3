# A TLA+ model of lsmtree

lsmtree is an embedded key-value store in C++23: a memtable backed by a
write-ahead log, SSTables in levels, leveled compaction, snapshots, range scans
and crash recovery. It is single threaded. What makes it hard is not
concurrency but everything that can happen between two of its I/O calls: a call
that fails and leaves the process running on half-done work, a crash, a power
loss that takes back what was visible but not synced, and a restart that has to
make sense of whatever it finds. The tests inject one failure at a time; the
model explores every sequence of them.

Source paths below are relative to the repository (`src/DB.cpp` is the file
listed as `src/src/DB.cpp` in `PROJECT.json`).

## 1. Inventory

| Part | State | Operations | Where |
|---|---|---|---|
| DB | `activeMemTable_`, `walFilePath_`, `writeFailed_`, `nextSeq_`, `manifest_`, `tableCache_`, compaction cursors | constructor, `put`/`remove`/`write`, `get`, `scan`, `flush`, `compact`, `maybeCompact`, `snapshot` | `src/DB.cpp` |
| MemTable | map ordered by (key, seq descending), byte size | `applyBatch`, `get`, iteration, `restoreFromWAL` | `src/MemTable.cpp` |
| WALFileWriter | descriptor, `poisoned_` | create with header and directory fsync, append one frame and fsync | `src/MemTable.cpp` |
| WAL parser | none | split a log into committed frames, torn tail, corruption | `src/MemTable.cpp` |
| Manifest | tables per level, next number, log number, last sequence | load, `save`, `addTable`, `replaceTables`, `getTableMeta`, `allocateNumber` | `src/Manifest.cpp` |
| SSTable | records in blocks, sparse index, Bloom filter, footer | `build`, `open`, `get`, iterate | `src/SSTable.cpp` |
| Merging | none | heap merge, visibility, `retainForCompaction` | `src/utils.cpp` |
| FileWriter | temporary file | write, fsync, rename, fsync of the directory | `src/utils.cpp` |
| Snapshot | sequence number, weak link to the DB's set of them | move, assign, release | `src/DB.cpp` |
| WriteBatch | list of operations | `put`, `remove`, `clear` | `src/WriteBatch.cpp` |
| BloomFilter | bit array | `add`, `mightContain` | `src/BloomFilter.cpp` |
| FaultInjection | installed policy | decide whether a `write` or `fsync` fails | `src/FaultInjection.cpp` |

How they interact. `DB::write` numbers the operations of a batch, has the
WALFileWriter append them as one frame, then puts them into the memtable; when
the memtable is over its threshold it calls `flush`, which takes two file
numbers, points the in-memory MANIFEST at the second, builds the table, saves
the MANIFEST, creates the new WAL, removes the old one and runs `maybeCompact`.
A compaction merges its inputs, drops versions nobody can see, writes slices to
the next level, saves the MANIFEST and removes the inputs. The constructor reads
the MANIFEST, deletes everything it does not name, and replays the WAL it names.

What each part must guarantee:

* **DB, durability** - an acknowledged write survives every failure, crash and
  restart; a failed write is found whole or not at all.
* **DB, recovery** - the constructor accepts what the engine leaves behind, and
  neither sequence numbers nor file numbers are handed out twice.
* **DB, reads** - `get` and `scan` return the newest version at or below the read
  sequence, wherever flush and compaction moved the versions; a snapshot is frozen.
* **Manifest** - levels below 0 have disjoint ranges; every table a MANIFEST names
  exists.
* **WAL** - a frame is never appended behind a torn one.
* **Compaction policy** - the loop ends, whatever the sizes and budgets are, and
  the passes over sorted sequences compute what the rest of the engine assumes.
* **Tables and filters** - what was written opens, and a lookup through filter,
  sparse index and blocks answers what a search of all records would.
* **FileWriter** - a path holds nothing or a whole file, at every moment.
* **Snapshot** - a registration is released exactly once, and no compaction drops
  what a live handle may read.

`PROJECT.json` lists, under `hazards`, the lines where each of these can go
wrong and the properties that would notice.

## 2. Modules

| Module | What it is |
|---|---|
| `Versions` | Versioned records as sets: visibility, per-source lookup, retention, key ranges (`inc/utils.h`, `src/utils.cpp`) |
| `LsmDB` | The engine: one action per API call and per way the call can fail; the properties |
| `KVStore` | The abstract store a client may rely on: a map, frozen copies, and the maps a restart may find |
| `LsmDBRefinement` | The refinement mapping from `LsmDB` to `KVStore` |
| `MCLsmDB` | The instance for TLC |
| `WalFrames` | The WAL file cell by cell, and the parser that restores it; TLC runs it as it is |
| `MergePipeline` | Heap merge, snapshot filter, newest per key, retention and slicing, on sequences |
| `Compaction` | The compaction policy: sizes, budgets, cursors, `maybeCompact`; TLC runs it as it is |
| `AtomicFile` | What publishing a file promises |
| `FileWriter` | Temporary file, fsync, rename, directory fsync, with every failure between them |
| `BloomFilter` | Bits, words, positions, the serialised filter |
| `TableFile` | The file of an SSTable, and the constructor, `get` and iterator that read it |
| `ManifestFile` | The fields of the MANIFEST, as `save` writes and the constructor reads them |
| `MCDataFiles` | The tables and MANIFESTs that TLC writes through `FileWriter` |
| `SnapshotHandles` | `Snapshot` objects and the registrations of several DB objects; TLC runs it as it is |
| `Induction` | Lemmas on minima and maxima, induction up to a bound, and recursive definitions over it |
| `LsmDBProofs` | Proof of the type invariant, that the constructor accepts what the engine leaves, that acknowledged writes survive, that file numbers are not reused and that levels stay sorted |
| `LsmDBReads` | Proof that `get`, `scan` and snapshots are right, and sequence numbers not reused |
| `LsmDBImplements` | Proof that `LsmDB` implements `KVStore` |
| `CompactionProofs` | Proof that compactions keep tables sorted and apart and stay above the levels whose budgets wrap around, and that the merge pipeline and scans compute the sets of `Versions` |
| `DataFilesProofs` | Proofs that `FileWriter` implements `AtomicFile`, that tables and MANIFESTs read as written and that lookups are complete |
| `SnapshotHandlesProofs` | Proof that registrations match handles, and bound compactions |
| `WalFramesProofs` | Proof that the parser finds every acknowledged frame and cuts off the torn tail |

How they fit together: `LsmDB` takes five things for granted, and each has a
module that looks inside. `WalFrames` is what recovery makes of a log.
`Compaction` and `MergePipeline` are what a compaction does with records that are
in order, and why its loop ends. `FileWriter` is why a table or MANIFEST is there
whole or not at all. `TableFile`, `BloomFilter` and `ManifestFile` are why what is
there is read as it was written. `SnapshotHandles` is why `LsmDB` may treat a
handle as a number that is registered while it lives.

### The engine: `LsmDB`


| Variable | Code |
|---|---|
| `pc` | where the single thread is: closed, between two calls (`idle`), in `write` with `flush` due (`flush`), in `maybeCompact` (`loop`), or with a constructor that threw on its WAL (`refused`) |
| `mem`, `walNo` | `activeMemTable_`, `walFilePath_` |
| `poisoned`, `writeFailed` | `WALFileWriter::poisoned_`, `DB::writeFailed_` |
| `nextSeq`, `man` | `nextSeq_`, `manifest_` |
| `snap` | `activeSnapshotSequences_`, one entry per live handle |
| `sst`, `wal`, `disk` | the SSTables, the WALs and the MANIFEST that a reader of the directory sees |
| `older` | MANIFESTs that a power loss may bring back, because the rename that replaced them was not synced |
| `hist` | history: the records that were acknowledged or durably published |

A WAL file is split into the records that fsync confirmed, the complete frames
written since, and whether it ends in part of a frame. That is exactly what
recovery and a power loss tell apart: recovery takes every complete frame and
cuts the torn end; a power loss keeps the confirmed part and any prefix of the
rest. The states `bare`, `loose` and `corrupt` are the files a failed creation,
an unsynced creation and an append behind a torn frame leave.

| Action | Code |
|---|---|
| `Open`, `OpenRefused`, `OpenTruncateFails`, `OpenNewWalFails`, `OpenUnlinkFails` | the constructor and the ways it throws |
| `Kill` | the destructor or a process crash (the destructor writes nothing) |
| `PowerLoss` | loss of everything not synced |
| `Write`, `WriteEmpty`, `WriteFails`, `WriteRejected` | `write`, and `put` and `remove`, which are batches of one |
| `Flush`, `FlushBuildFails`, `FlushSaveFails`, `FlushNewWalFails`, `FlushUnlinkFails` | `flush` and the points where it can throw |
| `Compact(l)` with `CompactWriteFails`, `CompactSaveFails`, `CompactUnlinkFails`, `CompactSucceeds` | `compact`, and one turn of `maybeCompact` |
| `LoopDone` | `maybeCompact` returns |
| `TakeSnapshot`, `ReleaseSnapshot` | `DB::snapshot`, `Snapshot::release` |

`get` and `scan` change nothing; they are operators, and the properties evaluate
them in every state for every key or range.

Crashes inside a call need no actions of their own. Every failing outcome of a
call leaves on disk what the call had written up to that point, and may be
followed by `Kill` or `PowerLoss`. Each such pair is the crash at that point.

### The WAL file: `WalFrames`

`LsmDB` takes for granted what recovery makes of a WAL file. `WalFrames` models
that: the file behind its header is a sequence of cells, a magic, a size and a
checksum being one cell each; `parse` is the loop of `WALParser` as a recursive
function over positions, with `FramedAt`, `ChecksumAt`, `hasCommitMarker` and
`hasValidFrameAfter` for the tests it makes. A cell is a number and reads as a
size, a magic, a checksum or data depending on where the parser looks. `Write`
and `WriteFails` are the appends, with everything a torn write can leave,
including space filled with zeros or old bytes; `Restore` and `RestoreThrows`
are `restoreFromWAL`; `Damage` spoils one cell of an acknowledged frame. The
checksum is a stand-in that has no collisions among the payloads in use.

### The compaction policy: `Compaction` and `MergePipeline`

Levels are sequences of tables and tables are sequences of records, in the order
the code keeps them in; a table has a size in bytes. One turn of `maybeCompact`
is two steps: `LoopLevelZero` or `LoopOverBudget` select the inputs and move the
cursor (`compactLevel`), `compactRange` merges, retains, slices and replaces;
`LoopDone` is the return. `Compact` is the public call. `Flush` and
`FlushNewWalFails` fill level 0; the second leaves the memtable to be flushed
again, so that a record is there twice. `flush` does not ask `writeFailed_`, so this
may happen any number of times and leave a copy each time; while an older snapshot
is live, compaction keeps them all. `Kill` and `Open` forget the cursors and
may change the base budget. `levelCompactionBudget` is computed modulo
`2^Width`. The oldest snapshot is any number handed out so far.

The loops of `MergePipeline` are recursive functions of the number of turns
(`Winner` and `Advance` are a turn of `mergeAll`, `Cut` one of
`writeCompactionOutput`); what only filters, `erase_if` and the passes that skip
records, is `Selected` with the positions it keeps. `Sources` and `scan` are a scan of
all keys. `Versions` has the same functions on sets, and two properties of
`Compaction` say that they agree.

### Files: `FileWriter`, `TableFile`, `BloomFilter`, `ManifestFile`

`FileWriter` follows one path and its temporary name. `Begin`, `Write`, `Fsync`,
`Rename` and `SyncDirectory` are the calls of the constructor, `writeAll` and
`finish`, in their order; `WriteFails` leaves part of a chunk, `Abandon` is any
other failure and the end of the process, `CleanupTemp` and `RemoveTable` are the
removals, and `PowerLoss` takes back what was not synced: data, and a rename.

What is written are the chunks of a real table (`addRecordToFile`: records, the
filter, index entries, footer, with their byte sizes) or of a MANIFEST
(`saveManifest`: one chunk for each field). `Opens`, `tableGet`, `iterate` and
`loadManifest` are what the readers make of the file found under the path.
`BloomFilter` takes the two halves of a key's hash, the bits per entry and the
number of hashes as parameters.

### Handles: `SnapshotHandles`

Several DB objects are opened and closed, each once; a handle is a place for a
`Snapshot` object. `TakeSnapshot`, `MoveConstruct`, `MoveAssign` and `Destroy` are
its life; `release` is the function of the same name. `Compact` records the number
that `smallestActiveSnapshot` returned (`horizon`).

### Choices

* **Keys are naturals, values model values.** Only the order of keys and the
  identity of values matter.
* **Sorted runs are sets.** Memtable, table and merge output are sorted by (key,
  seq descending); the order carries no further information, apart from exact
  copies of a record, which a set merges and the code's merge answers alike.
* **Sizes are nondeterministic.** Any write may find the memtable over its
  threshold, any level may be over its budget, any of its tables may be next
  under the cursor, and an output may be cut after any key. The model does
  everything the code does with some sizes, and more.
* **Bounds.** `MaxSeq`, `MaxBatch`, `MaxNumber` and `MaxLevel` bound the counters
  in the guards of the actions that raise them. `L0Trigger` is the code's own
  parameter.
* **`Faults`** names the I/O calls that may fail: an append (`wal`), a table
  (`build`), a MANIFEST (`save`), the creation of a WAL (`newwal`, and `header`
  when only part of its header gets written), a removal (`unlink`), the
  truncation on restore (`truncate`). A call in `Faults` may fail at any
  occurrence.
* **`Journaled`** says that the file system makes directory changes durable in
  order and with the next fsync of any file, as common journaling file systems
  do. Where it is FALSE a file whose directory fsync failed stays unreliable.
* **`CompactWhenFailed`** says whether the client calls `compact()` after a
  `flush()` has failed.

Assumptions about the disk: an fsync that succeeds makes the whole file durable,
frames of earlier failed appends included; unsynced bytes of an append-only file
survive as a prefix; a removed file does not come back; stored bytes do not decay
(`WalFrames` drops the assumptions about bytes for the WAL). In `FileWriter` a
rename whose directory fsync has not returned may be undone by a power loss, and
an unsynced file may lose any number of its last chunks.

## 3. Runs

Fairness. The engine moves only when its client calls it, so it promises no
progress, and no run assumes any, with one exception: `compaction` assumes weak
fairness of the steps of `maybeCompact` and `compactRange` (`Fairness`). They run
on the thread that called `flush` or `compact`, take no lock and wait for nothing,
so while the process lives the next one comes; that the process does not die
meanwhile is not assumed, since `Kill` also ends the loop. `LoopEnds` is the
liveness property that needs it.

Deadlock. TLC's check stays on, except in `compaction` and `snapshot_handles`: in
these the bounded supply of sequence numbers and restarts, or of DB objects, is used
up in the end and nothing more can happen.

| Run | Bounds | Checks |
|---|---|---|
| `faults` | 2 keys, 3 sequence numbers, 6 file numbers, 3 levels, every fault except `header` | `TypeOK`, `ReadsNewest`, `CrashSafe`, `SequencesFresh`, `NumbersFresh`, `RangesDisjoint`, `WalIntact`, `Reopenable` |
| `levels` | 3 keys, 4 sequence numbers, 7 file numbers, 3 levels, no faults (crashes remain) | `ReadsNewest`, `ScanMatchesGet`, `RangesDisjoint` |
| `snapshots` | 1 key, 3 sequence numbers, batches of 2, 2 interchangeable handles, failing builds, saves and headers | `ReadsNewest`, `SnapshotStable` |
| `wal_frames` | 3 frames, payloads of 1 or 2 cells, every torn tail, one damaged cell | `TailIsCutOff`, `DamageIsRefused` |
| `compaction` | 2 keys, 3 sequence numbers, 7 levels, budgets modulo 2^6 from a base of 1 or 7 bytes, 2 failed flushes or restarts | `LevelsSorted`, `CompactionMatchesSets`, `ScanMatchesSets`, `DepthBounded`, `LoopEnds` |
| `data_files` | every table of up to 4 records with 3 keys and tombstones, 3 MANIFESTs, any sequence of writes, failures and power losses | `TableOpens`, `GetSearchesEnough`, `ManifestReads`, `PublicationIsAtomic` |
| `snapshot_handles` | 3 handles, 2 DB objects, 2 sequence numbers | `RegistrationsMatchHandles`, `HandlesAboveHorizon` |
| `refinement` | 2 keys, batches of 2, 1 handle, failing appends, saves and WAL creations | `ImplementsKVStore` |

Why these bounds reach the interesting cases:

* `faults`: a flush takes two numbers, so 0 to 5 leave room for two flushes and a
  compaction with two output slices, or for a failed flush, a restart that hands
  its numbers out again, and a flush and compaction on top. Three sequence
  numbers give two versions of one key and one of another: enough for a stale
  version to shadow a newer one or for a record to be lost behind its tombstone.
* `levels`: one more number allows a version to go through level 1 to level 2
  with a tombstone for it following; three keys allow a table of level 1 that a
  level-0 range covers without sharing an end with it, two disjoint tables in one
  level, and ranges of a scan that end between them.
* `snapshots`: two handles at two sequence numbers of one key, released in either
  order around compactions that fail or succeed. The handles are symmetric.
* `wal_frames`: a damaged frame with two others, or one and a torn tail, behind
  it; payload sizes that differ, so that a damaged size can point into the next
  frame, at its end, or behind the file.
* `refinement`: batches of two distinguish atomic from partial recovery.
* `compaction`: a record is 1 or 3 bytes, a table 1 more, a slice ends behind 3
  bytes: outputs are cut between keys and would be cut inside them. Three versions
  and copies of them put records of one key above and below the oldest snapshot, in
  two levels and in several tables of level 0. With base 7 the budgets of levels 1 to
  7 are 7, 6, 60, 24, 48, 32 and 0, with base 1 they are 1, 10, 36, 40, 16, 32 and 0.
  Tables meet the 6 of level 2, which should be 70, and go on to level 3, which takes
  the 29 bytes that there can be at most: three copies of each of three versions,
  which two failed flushes in a row leave and an older snapshot keeps. The smaller
  budgets below are what `DepthBounded` keeps tables from; the directory is reopened
  with the other base in between.
* `data_files`: a block ends behind 1 byte, so that four versions of one key lie
  in blocks of their own, or two keys share one; lookups ask for keys in front
  of, between and behind the stored ones. Hashes of two keys meet, and one has a
  zero half. The MANIFESTs have no level, an empty level and empty keys.
* `snapshot_handles`: two handles with the same number and a third to move them
  through, with the DB gone or replaced in between.

What the properties say:

* `CrashSafe`: whichever MANIFEST the next start may find, its tables exist and,
  with the durable part of its WAL, hold every committed record or a newer
  version of its key.
* `ReadsNewest`: `get` equals the newest version in the history, at the present
  and at every live snapshot. It fails if any source holds a version newer than
  one held by a source consulted before it.
* `ScanMatchesGet`: `scan` over every range agrees with `get` on each key.
* `SequencesFresh`, `NumbersFresh`: recovery never hands out a sequence number a
  committed record has, nor a file number whose file is still there.
* `RangesDisjoint`: what `Manifest::addTable` demands and `getTableMeta` relies
  on; its exception is a violation here, not an action.
* `WalIntact`, `Reopenable`: no frame behind a torn one; the constructor never
  refuses the directory.
* `TailIsCutOff`: in an undamaged log the parser finds every acknowledged frame and
  cuts off exactly what is behind them. `DamageIsRefused`: damage is never taken
  for a tail, with two exceptions that look like a torn append: the commit magic of
  the very last frame, and the magics and the size of the last acknowledged frame
  when a torn one follows it.
* `SnapshotStable`: no step changes what a live snapshot reads.
* `LevelsSorted`: tables stay in the order of the merge, and levels below 0 in the
  order of disjoint ranges. `CompactionMatchesSets`, `ScanMatchesSets`: the passes
  over sequences give, for every oldest snapshot and read point, the sets that
  `LsmDB` and its proofs reason about, with copies of a record merged, and no key
  in two slices.
* `DepthBounded`: no table gets below the first level that can take everything,
  so no budget further down decides anything, however it wrapped around. `LoopEnds`:
  `maybeCompact` returns. Both are about instances in which there is such a level
  (`SomeLevelTakesAll`): its budget is large enough for every base the directory is
  opened with, whether or not others wrap around. What there can be is bounded by the
  writes and the failed flushes (`MostRecords`). The constructor does not ask for
  such a level; see the end of this section.
* `PublicationIsAtomic`: `FileWriter` implements `AtomicFile`. `TableOpens`,
  `ManifestReads`: whatever is found under a path, a torn file not excepted, is
  accepted and reads as written. `GetSearchesEnough`: the filter, the sparse
  index and one run of blocks lose no version, for every key and read point.
* `RegistrationsMatchHandles`: a DB's multiset holds each number as often as live
  handles have it. `HandlesAboveHorizon`: no compaction was told a horizon above
  a live handle.
* `ImplementsKVStore`: the engine is a `KVStore` whose map is what `get` answers
  and whose outcomes are what the constructor and `get` would make of every
  directory a crash or power loss may leave. A commit leaves exactly one outcome;
  a failed batch adds one outcome, all of it; snapshots are frozen maps; work in
  the background may only remove outcomes.

Each property has a mutant: a plausible mistake in one definition, marked `Bug:`
in the modules, that makes TLC find the property violated.

### Disagreements between the code and what it says of itself

Four runs expect a violation. TLC's shortest counterexamples:

* `compact_after_failure`: `flush` points the in-memory MANIFEST at the next WAL
  before it builds the table (`src/DB.cpp:257`). When the build fails, `write` is
  refused from then on, but `compact()` is not: it saves that MANIFEST, and the
  next start deletes the WAL that holds the memtable. Acknowledged writes are
  gone, which `tests/fault_injection_tests.cpp:155` calls the one outcome "that
  never happens". Hence `CompactWhenFailed = FALSE` elsewhere.
* `short_header`: a write error in the header of a new WAL leaves a short file.
  Each later start finds it, adds no header (`src/MemTable.cpp:346`) and throws
  "Invalid WAL file format". Hence `header` is not among the
  faults of `faults`, which leaves out a crash between the creation of a WAL and the
  end of its header as well.
* `unordered_names`: a WAL whose directory fsync failed is reopened through the
  `EEXIST` branch, which never syncs the directory, and is written to. With
  `Journaled = FALSE` a power loss takes the acknowledged writes with the name.
* `magic_in_value`: an unreadable last frame counts as committed when the file ends
  with the commit magic (`src/MemTable.cpp:239`). A value may contain these four
  bytes, and an append torn right behind them makes every later start throw; the
  README says that frames "distinguish committed corruption from an incomplete"
  tail. The passing run `wal_frames` has payloads without the magic.

Two more differences have no run of their own. The budgets of the deeper levels do
not always grow "geometrically", as the README says: `budget *= 10` wraps around
(`src/DB.cpp:456`), and the constructor takes any base. 2^63 makes every budget from
level 2 on zero (32 does, modulo 2^6). When the directory already has a table there,
from an earlier opening with a smaller base, the next `flush` moves it down. No budget
below is larger, so it goes on from level to level, and `flush` does not return; a base
of 0 does the same to any table below level 0. With {1, 32} for `BaseBudgets`, TLC
finds `LoopEnds`, checked alone, violated in this way, the loop going round at
`MaxLevel`. `LoopEnds` and `DepthBounded` are therefore about instances where
`SomeLevelTakesAll`.

And the README says that a batch is applied "under one sequence", while `write`
gives each operation its own (`src/DB.cpp:227`), and so does the model.

## 4. Proofs

The first eleven are about `LsmDB`, for every set of values and handles, every
finite set of keys, every number of levels, files, sequence numbers and batch
operations, and every set of faults. The proof modules extend each other in the
order of the table in section 2, from `LsmDBProofs` to `LsmDBImplements`, and each
adds to the invariant of the one before.

* `TypeCorrect` (`LsmDBProofs`): `Spec => []TypeOK`. The work is in the counters
  (the next sequence number is the successor of a maximum, so the maximum of a
  bounded set must be shown to exist: `Induction`) and in `replaceTables`.
* `AcknowledgedWritesSurvive` (`LsmDBProofs`): with `Journaled` and
  `~CompactWhenFailed`, `Spec => []CrashSafe`. `CrashSafe` is not inductive. A
  compaction publishes the process's own MANIFEST, so `DurInv` asks the same of
  that MANIFEST as long as the process may publish it with the WAL it names
  (`CandidatesCovered`, `LogCurrent`), and asks that the tables it lists exist
  and carry numbers below the ones still to be handed out (`TablesExist`,
  `TablesNumbered`), or a new file could replace one in use. A flush publishes
  the memtable in place of its WAL, so memtable and tables together must cover
  the history at all times, after failures too (`MemTableCovered`), and until an
  append fails the memtable holds all its WAL does (`MemTableLogged`). The
  lemmas about `Covers` are the argument; `RetainCovers` is where compaction's
  rule for dropping versions enters. Both assumptions are needed: the runs
  `unordered_names` and `compact_after_failure` refute the conclusion without one
  or the other.
* `NoFrameBehindTornOne` (`LsmDBProofs`): `Spec => []WalIntact`, for every set
  of faults. The inductive invariant `ReopenInv` ties the torn end of the current
  WAL to the poisoned flag; the truncation in `Restore` is what re-establishes it
  after a restart.
* `AlwaysReopens` (`LsmDBProofs`): where `header` is not among the faults,
  `Spec => []Reopenable`. `short_header` shows that the assumption is needed.
  The theorem is about `LsmDB`, where a torn tail is always recognised; the run
  `magic_in_value` is the case where the parser does not.
* `NumbersNeverReused`, `LevelsStaySorted` (`LsmDBProofs`): with `Journaled`,
  `Spec => []NumbersFresh` and `Spec => []RangesDisjoint`, whatever the client
  calls. The next start takes its numbers and levels from a MANIFEST on disk,
  possibly an older one. So `StructInv` asks that every MANIFEST in play is sound:
  its tables exist, below its next number, and apart in each level below 0
  (`Sound`); that the process's own is the furthest (`ManifestsBelow`,
  `FilesBelow`); and that the ones on disk bound the numbers of all WALs
  (`WalsBelow`). The argument for `RangesDisjoint` is in the compaction lemmas:
  slices of a monotone cut are apart from each other, and apart from the tables of
  the target level that the inputs did not overlap. Without `Journaled` both
  properties fail: a power loss can bring back a MANIFEST whose numbers were
  handed out since.
* `SequencesNeverReused`, `ReadsReturnNewest`, `ScansAgreeWithGet`,
  `SnapshotsAreFrozen` (`LsmDBReads`): with `Journaled` and `~CompactWhenFailed`,
  `Spec => []SequencesFresh`, `Spec => []ReadsNewest`, `Spec => []ScanMatchesGet`
  and `Spec => SnapshotStable`. `get` stops at the first source that has a version
  and does not look for a newer one further down. That is right because of
  `ManifestsOrdered` and `MemTableNewer`: a version in a later source that is not
  older than one in an earlier source is a copy that the earlier one has too. (It
  may be a copy: after a failed flush the memtable and a table hold the same
  records.) `SnapshotsCovered` says that the sources still hold, for each live
  snapshot, what the history says it should see; `RetainCoversAt` is where
  compaction's rule enters. `LogAbove` and `SequencesBelow` are what makes the
  first sequence number after a recovery fresh, and `Unique`, that two records in
  play with the same number are the same record, is what makes an answer that is
  found in one place equal to one that is specified in another.
* `EngineImplementsStore` (`LsmDBImplements`): with the same assumptions,
  `Spec => ImplementsKVStore`, the refinement of `KVStore`. `ViewIs` turns what
  `get` answers into the map of the committed records and the memtable. The rest
  is about outcomes: what a start may find. `StoredCommitted` says that while the
  process may write, tables list committed records only; with `CandidatesCovered`
  it follows that what a start finds depends on the surviving frames and on
  nothing else (`Published`), so that a compaction changes no outcome. A failed
  append then adds one outcome, the whole batch (`PrefixesGrow`, `BatchMap`),
  because until then log and memtable hold the same records (`MemTableInLog`); an
  acknowledged one leaves a single outcome. `PresentRecovered` is what lets a
  start show one of the outcomes. `MapStep` is the step simulation, one step per
  action of the engine.

About the modules beside it:

* `TablesStaySorted`, `PipelineMatchesSets`, `ScansReturnNewest`
  (`CompactionProofs`): `Spec => []LevelsSorted`, `Spec => []CompactionMatchesSets`
  and `Spec => []ScanMatchesSets`, for every number of levels and any keys, sizes,
  budgets and cursors. That is what `LsmDB` takes for granted, where a table is a
  set. There are two halves. The first is about sequences. After n turns of
  `mergeAll` the result is the n records in front of the sources' positions, in
  order, and no record behind a position comes before one of them (`Taken`,
  `AdvanceTakes`); as many turns as there are records leave nothing (`Total`,
  `AllExhausted`), so the merge is sorted and complete (`MergeSorted`). On a sorted
  sequence `keptSnapshotBoundary` says that an earlier version of the key is not
  above the snapshot (`KeptIsCovered`), which makes the pass keep what the set keeps
  (`RetainMatches`); the first record of a key is its newest (`FirstIsNewest`); and a
  cut between two keys leaves slices apart (`CutHere`, `OutputIsTables`). The second
  is `CompactionInv`. `LevelsSorted` alone is not inductive: a slice may span several
  inputs, so a running compaction must know that each table it leaves in the target
  level is on one side of all of them (`JobOK`), which the choice of the combined
  range gives (`SelectJob`) and which makes `addTable` find room for each slice
  (`ReplaceKeeps`). And a pass compares sequence numbers only: that it may merge
  copies, which a repeated flush leaves, rests on a number belonging to one record
  (`Unique`).
* `TablesStayShallow` (`CompactionProofs`): with `SomeLevelTakesAll`,
  `Spec => []DepthBounded`, for any number of failed flushes and restarts.
  `CountInv` bounds what there is: after `t` failures and `n` writes, the records in
  tables and in the memtable are at most `(t + 1) * n` (`Allowed`). A write adds one
  record; a flush moves them; a flush that fails behind its save adds a copy of the
  memtable, which holds at most one record per write; a compaction writes no more
  records than it reads (`MergeCounts`, `SlicesCount`) and takes each table once
  (`JobCounts`, `ReplaceCounts`). Ranges are disjoint, so a level has no more tables
  than there are keys (`FewTables`). Hence a level below 0 has at most `MostBytes`
  (`LevelFits`), the level that takes as much is never over its budget, and
  `maybeCompact` moves nothing out of it (`OverBudgetIsAbove`, `DepthInv`). The run
  Section 3 describes an instance without `SomeLevelTakesAll`.
* `TornTailIsCutOff` (`WalFramesProofs`): where the commit magic occurs in no
  payload, in no old bytes and as no payload's checksum (`CommitMagicReserved`, what
  `magic_in_value` refutes the property without), `Spec => []TailIsCutOff`, for
  every number of frames and every payload size below the magic. The parser's loop
  always moves forward, so it is well defined (`ParseSteps`). What it accepts is the
  encoding of the payloads it returns, whatever the file holds (`ParseIsPrefix`);
  this is what `Restore` of a damaged file needs. `LogInv` says that an undamaged
  file is the frames of `acked`, then a whole frame of unknown fate, then cells
  among which no commit magic occurs, and that only a poisoned log has such a tail.
  The parser reads frame after frame (`FrameRead`) and stops at the tail, which
  looks neither framed nor committed and hides no frame (`TailStops`,
  `ParseUndamaged`).
* `WriterIsAtomic` (`DataFilesProofs`): `Spec => PublicationIsAtomic`, a refinement
  of `AtomicFile`, for every set of contents. Its invariant `WriterInv` says that
  while a file is being written, what is there and what is to come make up one
  content, and that a file that is renamed is whole and synced
  (`TemporaryComplete`); so everything that a power loss may leave under the path
  is (`PathWhole`).
* `ReleasedOnce`, `HandlesProtected` (`SnapshotHandlesProofs`):
  `Spec => []RegistrationsMatchHandles` and `Spec => []HandlesAboveHorizon`, for
  every number of handles and DB objects. `HandlesInv` extends the match to DB
  objects not yet constructed (`Matching`), keeps destroyed handles from pointing
  anywhere (`OwnersKnown`), and bounds registered numbers by the next one
  (`NumbersUsed`); the rest is counting the handles that pin a number.
* `NoFalseNegatives` (`DataFilesProofs`): a filter with a key added, serialised
  and read back answers yes for it and for every key it answered yes for before,
  whatever the hash, the word size and the bit count, which need not be a multiple
  of the word size (`WordOfBit`). Adding and reading back keep `IsFilter`
  (`AddShape`, `RoundTrip`), and `ForEntriesIsFilter` starts the chain; `BloomIs`
  is the induction over the records of a table.
* `TablesOpen`, `LookupsComplete` (`DataFilesProofs`): `Spec => []TableOpens` and
  `Spec => []GetSearchesEnough`, for tables of any length and for all sizes. A
  table is found whole or not at all (`WriterInv`), so both are facts about
  `addRecordToFile` and the readers. Every chunk has at least one byte, so offsets
  grow with the chunks and a range of bytes is a range of chunks (`OffsetsGrow`,
  `SectionIs`), and the sizes in the footer lead the readers to the parts
  (`TableRead`). The loop invariant `IndexUpto` of `addRecordToFile` says that each
  index entry has the key and the offset of a record, the first those of the first
  record, and that entries are in the order of the records (`IndexIs`). So the range
  that `getBlock` chooses leaves out lower keys in front of it and greater ones
  behind it, and no version of the key (`BlockHolds`); the first record at which
  `get` stops is the newest visible version, since versions of a key are newest
  first (`SearchFinds`); and the filter lets the key through (`BloomIs`).
* `ManifestsRead` (`DataFilesProofs`): `Spec => []ManifestReads`, for MANIFESTs of
  any size. What is found is whole (`WriterInv`) and no table, hence saved. That it
  reads back is a round trip: each reader, on a stream that starts with what its
  writer wrote, returns the value and leaves the rest (`ReadsValue`, `ReadsKey`,
  `ReadsTable`, `ReadsLevel`); `JoinedTails` names what is left of the file after
  each turn of a loop, which makes the loops an induction (`ReadsTables`,
  `ReadsLevels`).

The assumptions on the constants are the named `ASSUME`s of the modules: types
and ranges, that there are finitely many keys (`FiniteKeysAssumption`: a key's
length has 32 bits and a longer one throws, `src/utils.cpp:92`; a table's key
range needs it), in `TableFile` that a content other than a MANIFEST is what
`addRecordToFile` writes for records in the order of the merge
(`TablesAssumption`; the order is what `MemTable` and the merge give, and the
order of equal copies does not matter), that every key has a hash and every
record, entry and footer some bytes (`HashedAssumption`, `BytesAssumption`), in
`ManifestFile` that the other contents are what `save` writes
(`StatesAssumption`), in `WalFrames` that a payload is shorter than the number
that stands for the commit magic (`SizesAssumption`: read as a size, the code's
magic is above 10^9 bytes), and in `Compaction` that there is a level below 0
(`LevelAssumption`) and that sizes and the bound on failures are numbers
(`BytesAssumption`, `TroubleAssumption`).

Before it was proved, each invariant was checked with TLC on the instances of the
runs, the largest of them to a bounded depth.

The library's induction theorems take an operator as a parameter, which none of the
provers can instantiate. Where a proof needs induction over data, it is done by hand
from the least counterexample (`NatHasMin`), over the set of the numbers for which a
fact holds: `UpToInduction`, `DownInduction` and, for definitions, `Recursion`.

Only model-checked:

* `DamageIsRefused`: the stand-in for crc32 may collide on the longer spans that a
  damaged size can point to.
* `LoopEnds`: liveness under fairness is out of the prover's reach, as is ENABLED.

## 5. Not modelled

* Bytes inside a chunk: record encodings, crc32, file names, and damage to stored
  tables and MANIFESTs (`WalFrames` has damage to the log). The FNV hash of a key
  and the logarithms in `BloomFilter::forEntries` are parameters.
* `tableCache_`: a cache of immutable files under numbers that are never reused
  while the process lives. An exception may leave entries of removed files in it,
  but no MANIFEST of that process names them again.
* Errors that create directories, and a removed file that comes back after a power
  loss.
* Failures during a compaction together with byte sizes: `LsmDB` has the failures
  and any sizes, `Compaction` the sizes and of the failures only the one that
  leaves records twice in what is published. (A flush whose save fails also adds a
  copy, to the process's own MANIFEST: at most one each, as `MostRecords` counts.)
* An fsync that fails and later succeeds without the data it failed on, and
  unsynced pages that reach the disk out of order.

## 6. Plan

What is left of the model: the table cache, as a map from numbers to open files
beside `LsmDB`, and, in `Compaction`, the failures of a save.

Of the engine, the files, the handles, the log and the compaction, every invariant
(`DamageIsRefused` excepted), the action property and the refinements are proved. What
is left to prove, once the cache is modelled: that it never serves a file that is not the one of
its number.
