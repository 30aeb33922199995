# AisStore in TLA+

AisStore archives the radio messages of ships (AIS packets) in Cassandra and
lets people query, export and download them. This directory holds TLA+ models
of its core, TLC runs that check them on small instances, and theorems that
TLAPS checks for instances of any size.

## 1. The system

| part | source | state | operations | what makes it hard |
|---|---|---|---|---|
| Archiver daemon | `ais-store-cli/.../Archiver.java`, `FileImportService.java`, `ais-store-common/.../write/CassandraBatchedStagedWriter.java` | main queue, batch, backup queue, open backup file, backup directory | receive, write batch, `onFailure`, backup, restore, shutdown | five threads, two bounded queues, failed and timed-out writes, crashes, files re-read |
| Store writer | `ais-store-common/.../write/DefaultAisStoreWriter.java` | position tracker (a cache that expires after 20 minutes) | `handleMessage`: rows by time, by MMSI, by area | cached positions that are stale, packets out of order, packets written twice |
| Query | `ais-store-common/.../AisStoreQuery.java`, `AisStoreQueryResult.java`, `AisStoreQueryInnerContext.java`, `AisStoreQueryBuilder.java`, `AisStoreSchema.java` | cursor of each table query, fetched packets, the result's future | build, fetch a page, merge, finish, cancel | boundaries of intervals and time blocks, paging, completion of a merged result |
| REST export client | `ais-store-cli/.../FileExportRest.java` | download file, buffer, `.aisstore` meta file | begin or resume, accept a packet, checkpoint, finish | crashes between the writes of two files, broken streams, equal timestamps |
| Download service | `ais-store-web/.../QueryService.java` | client folders, `.download` files, worker pool | execute, load, list, stream, delete, delete all, clean up | HTTP threads, workers and a timer on the same files, no locks |
| Batch import | `ais-store-cli/.../FileImport.java` | queue of the writing stage | read files, retry, report | a stage that stops while the reader waits for it |
| SSTable conversion | `ais-store-cli/.../FileSSTableConverter.java`, `ais-store-common/.../importer/*` | one writer and one position tracker for each table | five passes over the input | five trackers that must agree |
| Statistics, comparison | `CassandraStats.java`, `FileDiff.java` | counters, missing packets | count by table, compare file and store | boundaries of intervals; waiting for an executor |
| Past track | `ais-store-rest/...` | none | query by MMSI, filter, sample | boundaries of intervals |
| Local export | `FileExport.java` | the output sink | query, filter, write | none of its own |
| Connection | `ais-store-common/.../db/cassandra/*` | session | start, stop, execute | start-up order |
| Jobs | `job/JobManager.java` | one concurrent map of results | add, list | nothing in the repository uses it |
| Query form | `ais-store-web/.../downloader/js/app-ctrl.js`, `app-service.js`, `app-directives.js`, `ext/.../visualsearch.js` | parameters, facets in three boxes, address, browser storage, timers and questions of the filter's validation | type, pick, search, send, open, clear, reset, load | watchers that change what others watch, boxes kept outside of the model, answers overtaken |
| Result list | `app-ctrl.js`, `app-service.js` | files listed by each tab, requests under way, client id | list, open, delete, delete all, reset | several tabs, answers in any order, failed requests |
| Area editor | `app-directives.js`, `position.js`, `app-ctrl.js` | bounds, texts of four fields, map, pencil | type, leave, clear, toggle, draw | events inside of digests and the reverse, rounding, bounds that are zero or no numbers |
| Web libraries and tables | `dependencies.js`, `visualsearch_templates.js`, `base-data.js`, `app-filter.js` | none of the program's | - | third-party code, tables of names, format of sizes |

Packets flow from the AIS readers through the archiver and the store writer
into five Cassandra tables; queries read these tables by time, by MMSI or by
grid cell. The REST service runs queries, the download service and the REST
export client call it over HTTP and keep the results in files. The importers
write the same tables from files. In the browser, the query form sends a query
to the download service, asks it whether a filter is valid, and holds the area
editor; the result list shows, opens and deletes what the service has for the
client, whose id all tabs share in the browser's storage.

What each part must get right:

* **Archiver**: a packet that was received is stored, on disk or in memory, or
  the log says it was given up; a backup file is deleted only when its packets
  are elsewhere; restoring does not crowd out receiving; what is on disk is
  stored in the end; a shutdown does not hang.
* **Store writer**: every row a query relies on is written; a packet lands in
  the cell of a position that is still valid; writing a packet again changes
  nothing.
* **Query**: each stored packet of the interval is returned once, in order, and
  the result is done exactly when the last packet is out.
* **REST export client**: what the meta file claims is in the file; a resumed
  download neither skips nor repeats a packet.
* **Download service**: what is listed as complete has ended; a query ends in a
  result or an error file; the clean-up removes only what has expired.
* **Query form**: what is sent is what is shown; the interval is one; a page
  loaded again asks the same query; the filter typed last is validated.
* **Result list**: every tab ends up showing what the service has; nothing is
  opened while its query goes on; a reset forgets.
* **Area editor**: fields and map show the area of the query, and the box drawn becomes it.

## 2. Plan

1. `PacketStore`, `Archiver`: the contract of custody and the daemon that
   implements it; proofs in `ArchiverProofs`. *Done.*
2. `FileExportRest`: the download that can be resumed; proofs in `FileExportProofs`. *Done.*
3. `QueryService`: the download service; proofs in `QueryServiceProofs`. *Done.*
4. `PacketStream`, `StoreQuery`: the contract of a result, and the paging, merge
   and completion that implement it; proofs in `StoreQueryProofs`. *Done.*
5. `StoreWriter`: the tracker and the rows; proofs in `StoreWriterProofs`. *Done.*
6. `FilterValidation`, `QueryForm`, `QueryPage`: the form, the validation of its
   filter, and both on one page; proofs in `QueryFormProofs`. *Done.*
7. `PositionFormat`, `AreaEditor`: the area; proofs in `AreaEditorProofs`. *Done.*
8. `DownloadList`: the result list of several tabs; proofs in `DownloadListProofs`. *Done.*
9. `SSTableConverter`: five passes over the input, each with a tracker of its own whose entries
   expire while the pass runs; whether the two area tables agree.
10. `FileImport`, `FileDiff`, `CassandraStats`: readers that wait for a stage or an
   executor, and intervals that must agree with those of the query.
11. A contract of the store that `StoreWriter` implements and `StoreQuery` reads: a packet
   reported as written is returned by every query that should return it.

Proofs follow the models: type invariants first, then the safety invariants and
refinements. Every safety invariant and action property that a run finds to hold is now
proved; left are contracts of their own for the export client and the result list, and
their refinement.

Modules named `MC...` hold the constants of the TLC runs; those named
`...Proofs` hold theorems. Operators under the comment
"Seeded fault" are wrong variants of the definition they precede; no
specification uses them, they show that the properties can fail.

## 3. The archiver

### Correspondence

| TLA+ | code |
|---|---|
| `mainQ`, `batch`, `stagePc` | input queue and batch of the stage `cassandra`; `MainCapacity` is its capacity |
| `overflow` | packets whose reader is between the two `offer` calls of the packet handler |
| `backupQ`, `open`, `zips`, `unreadable` | input queue of `backupService`, the file it writes, the closed `.zip` files, the renamed ones |
| `impPc`, `todo`, `file`, `next` | where `FileImportService` is: listing, file and position in it |
| `phase` | running, stopping (`isRunning()` is false, threads may still move) or down |
| `Receive`, `ReceiveOverflow` | the packet handler, one action for each `offer` |
| `TakeBatch`, `WriteBatch`, `RejectBatch`, `FailBatch` | `handleMessages`: success, `QueryValidationException`, any other exception |
| `OnFailure` | one turn of the loop in `onFailure` |
| `BeginScan` ... `StopImporter` | `FileImportService.run` and `restoreFile`, split where it reads the size of the queue, offers, deletes, renames or sleeps |
| `Halt`, `Restart` | the process ends or crashes and is started again |

`received`, `restored`, `reported` and `vanished` record what has happened; no
action looks at the last three, and `received` only makes packets distinct.

Abstractions: a packet is a value, a file name is a member of a small set, time
is absent (a sleep is a step that may come late). Unlike the minute-named files
of the library, a name that was deleted can be used again. Creating the backup
directory is left out. External parts are what the code relies on: a stage
takes at most `batchSize` packets; the backup service appends to one file,
which the importer sees as `.zip` only when it is closed.

### Contract

`PacketStore` says what a user of the archiver may count on: a packet is
unseen, in memory, on disk, stored, reported or vanished, and `Handover` lists
the changes allowed. While the process runs no packet vanishes. When the
process ends a packet vanishes only if nothing but memory had it. `Archiver`
implements it under the mapping `Custody`.

### Runs

| run | bounds | shows |
|---|---|---|
| `archiver_faults` | 3 packets, one of which cannot be stored, batch of 2, main queue of 2, backup queue of 1, 2 files, 1 fault of each kind | `TypeOK`, `NothingLost`, `OfferedIsHandedOver`, `DeletedFileIsHandedOver`, `ImplementsPacketStore` |
| `archiver_pressure` | 4 packets, batch of 1, main queue of 3, 3 failed writes | `MovedNotCopied`, `RestoreLeavesRoom` |
| `archiver_liveness` | 2 packets, all sizes 1, 1 fault of each kind | `EventuallyDealtWith`, `ShutdownStopsImporter` |

Three packets fill a queue of 2 while a third is in a batch or a file; a backup
queue of 1 overflows in the middle of a failed batch of 2; a file of two
packets can be interrupted between them; one `stop` is a crash or a shutdown,
with a restart after it. Under `archiver_pressure` the importer's limit (2)
lies below the capacity (3), as 10 batches lie below 100.

Fairness: every thread that can move eventually does. The readers' second offer,
the stage and the backup service have threads of their own; the importer loops
until shutdown; the flush thread closes dormant files; the driver answers every
query. Arrival of packets, faults, `Halt` and `Restart` are not fair.

### Proofs

`ArchiverProofs` assumes only `ArchiverAssumption`: capacities are positive and
faults bounded by some numbers. `NothingLost` is not inductive alone: deleting
a file keeps it only if the packets of that file were handed over, which is
`OfferedIsHandedOver`; that in turn needs the types. `IInv` is their
conjunction. `CareKept` says that only the end of the process and the closing
of a file take packets out of someone's care; `RemovedFileStep` that a file goes
only when its packets are elsewhere; `Provenance` bounds where the packets of
each place come from. From these follow `Conservation`, `HandOver`,
`SafeDeletion` and, with `NothingInvented`, `Refinement`.

`RestoreLeavesRoom` and `MovedNotCopied` count places in queues; the lemmas at
the top of the module say what offer, poll and taking a batch do to the elements
of a queue and to their number. `RestoreLeavesRoom` is not inductive, as the
importer offers after it has read the size of the queue: `Room` adds that by
then at most 10 batches of restored packets are in it. That is kept only if an offer
makes no packet *restored* that stands in the queue already, although the packet may have
come from a file of an earlier process. `Moved` says so: one party at most has
a packet that was never restored (`AtMostOnce`), whatever faults happen, and any packet as long as no file
operation failed and the process was not stopped (`Unspoilt`). `FaultsCounted` and `RestoredKnown` tie
both cases to the budgets and to the importer's position. `MInv` is the
conjunction with `IInv` and `NothingInvented`; it was model-checked on
the constants of both runs before it was proved. That somebody
has each packet, the other half of `MovedNotCopied`, is `NothingLost` with `OfferedIsHandedOver`.

Only model-checked: the two liveness properties (fairness is out of the prover's reach).

### What the model tells

* A packet in a backup file that is offered again is only in memory once the
  file is deleted; a crash then loses it (`disk` to `memory` to `vanished` in
  `PacketStore`). The file system does not protect what it has protected once.
* `RejectBatch` reports its packets only by one line about the batch.
* Files that cannot be deleted are read again and their packets written again;
  the primary key makes that harmless in tables without a derived key.

## 4. The REST export client

### Correspondence

| TLA+ | code |
|---|---|
| `pc`, `save` | where a session is: its meta file (`writeMeta`), the request, the packet handler (`accept`), the end of `run`; and what the meta file is written for |
| `lastLoadedTimestamp`, `currentTimeStamp`, `lastFlushTimestamp`, `counter` | the fields of the same names (`counter` is `packageCount`) |
| `buffer`, `file` | `outputStream` and the download file |
| `meta` | the `.aisstore` file: absent, emptied by opening it, or whole |
| `Resume`, `Begin` | the choice of `run` between going on and beginning; a forced session truncates the file |
| `TruncateMeta`, `TruncateFails`, `WriteMeta` | opening the meta file for writing, which may fail, and writing it are two steps, as the process can be killed between them |
| `Connect`, `Refuse` | the answer's status |
| `Skip`, `Accept`, `AcceptFails`, `Flush` | `accept`: packets skipped, written, failed, and the flush after the meta file of a checkpoint |
| `EndOfAnswer`, `Close` | the reader ends, by itself or by a broken connection; last meta file, closing of the file |
| `Crash` | the process is killed, or an exception ends it |

`orphaned` and the budgets record what has happened; `orphaned` is looked at by
properties only. The answer of the service is external: the packets of the
interval sorted by timestamp, the same ones in the same order in every session. Separators,
the footer, lines that a crash cuts in two, the progress display and parameters
are left out. `Buffered` allows the buffer to be written before any packet,
since how many packets fit in it depends on their size.

### Runs

| run | bounds | shows |
|---|---|---|
| `export_faults` | 6 packets, two with one timestamp, one at the start of the interval, one without a message; a checkpoint after every second; one kill, two broken connections, one failed write or opening of the meta file, one forced session | `TypeOK`, `ClaimedIsHeld`, `OneCopyPerFault`, `ExactWithoutFaults`, `RetriesComplete` |

Six packets make three checkpoints, so that a fault can come before, between and after them
and in the session that resumes. Fairness, for `RetriesComplete` only: the program
goes on, the user repeats the command until it has run to the end, and a service that answers
again and again is reached in the end. The other four are invariants and assume no fairness.

### Proofs

`FileExportProofs` assumes `ExportAssumption`: the answer is sorted by timestamp, none lies
before the start, checkpoints are at least one packet apart. `Progress` relates the position in the
answer to the timestamps and the counter. The other three speak of the future: `Again` says of each packet
whether the session, or the next one if none is under way, would still append it if no
further fault happened; before the request, which may be refused, it speaks of both, as a meta file that could not be
opened may be that of an earlier download. `CopiesCost`: its copies and the one to come have cost a fault
each but the first (`OneCopyPerFault`). `Exact`: without faults what is there
and what is to come make up one ordered download (`ExactWithoutFaults`). `Held`: what a session has passed or skips for its
timestamp, and what the meta file claims, is in the file or the buffer, in the file alone except before a
flush (`ClaimedIsHeld`). `KindsOfSteps` sorts the steps by what they do to the download and to what is to come: they
only wait, append a packet, cost a fault, or begin anew; the first two are proved for
these kinds, `Held` action by action. All four
invariants of the run are proved, for any answer and any number of faults. Only model-checked: `RetriesComplete`.

### What the model tells

* At a checkpoint the meta file is written before the buffer is flushed
  (`FileExportRest.java:663`): until then its count is that of packets that are not in the
  file yet. `writeMeta` empties it before it writes it
  (line 615). A kill in the first gap loses packets that no later session
  asks for; a kill in the second loses the meta data, and the next session appends
  the whole answer to the file.
* A connection that breaks while packets are still being skipped sets the meta file's timestamp back
  (line 424): the next session appends packets the file has.
* Packets are skipped by timestamp (line 646). If the connection breaks between
  two packets of one timestamp, the second is never fetched.
* Packets at the very start of the interval are skipped, like those a session
  that resumes has already.
* A checkpoint can fall between two packets of one timestamp: line 658 only asks for a timestamp
  other than that of the checkpoint before.
* A meta file that cannot be opened at a checkpoint ends the reader by an exception
  (lines 615 and 624), and at the end the program, which leaves what is in the buffer unwritten.
* A packet that could not be written is counted (lines 656 and 688).
* A forced session truncates the file (line 280) before it resets the meta
  file (line 349); a kill in between leaves meta data of packets that are gone.
* A session that resumes does not narrow its request: it loads everything again.

## 5. The download service

### Correspondence

| TLA+ | code |
|---|---|
| `job` | where each query is: in `executeQuery` (new, folder, file), in the pool's queue, in the task of `asyncLoadFile` (connecting, loading, failed, report, rename), or at an end (done, error, refused, dead) |
| `dirs`, `content`, `expired` | the client folders, their files, and which of these were last modified more than four hours ago |
| `CreateFolder`, `CreateFile`, `Submit` | the steps of a request |
| `Start`, `Open`, `Loaded`, `Fail`, `Discard`, `Report`, `Rename` | the steps of a task |
| `DeleteFile`, `DeleteFiles`, `WipeNext` | the requests to delete; deleting all walks over the folder |
| `StartCleanUp` ... `CleanFolder` | the hourly walk over the folders: it lists a folder, looks at the age of a file, deletes it, looks whether the folder is empty, deletes that |
| `content`: whole, short | what a copy that has ended left: all of the answer, or a part, when the connection broke after some bytes and `transferFrom` returned their number instead of throwing (line 191) |
| `DiskFails` | a call on the file system fails although nothing stands in its way |
| `Destroy`, `Exit`, `Crash`, `Restart` | `cleanUp` shuts the pool down, its threads finish what is queued, the process ends |

Each call on the file system is a step: the service holds no lock between two of
them. Each that changes something may fail. Abstractions: names are unique (the code appends a date and a random part), so a
file belongs to one query; writing the error file is one step; one request to delete all runs at a time;
a file that is being written to does not expire (a read times out long before four hours).
The clean-up sets its limit when it starts, the model lets files expire at any
time; a file that expires in the middle of a walk might have expired just before it.
Listing, streaming and the validation of filters change no state.

### Runs

| run | bounds | shows |
|---|---|---|
| `service_files` | 2 queries of one client, 1 worker, 1 request to delete, 1 crash or destruction, 1 failing file operation | `TypeOK`, `CompleteHasEnded`, `LoadedIsKept`, `YoungFilesStay` |
| `service_ends` | as above, no requests to delete, fairness | `NoLeftovers`, `JobsEnd` |

Two queries of one client share a folder and wait for one worker; the second is
loaded while the first is finished, cleaned up or deleted. A second client would
have a folder of its own, which interacts with the first only in the clean-up.

Fairness: requests and tasks go on, the timer fires as long as the service is not being
destroyed, four hours pass for each file, a destroyed service exits and one that is down is started
again. Requests, deletions, crashes and destruction are not fair.

### Proofs

`QueryServiceProofs` assumes `ServiceAssumption`: finitely many queries (the
pool's bound counts those that run), each of one client, and a pool of at least one.
`TypeCorrect` proves the types together with two facts they need: a file is in
a folder that exists, which `Rename` relies on, and at most `PoolSize`
queries run (`NoMoreRunning`, `GotoType`). `CompleteHasEnded` and `LoadedIsKept`
are not inductive: when a task renames its file, the copy must have ended, or someone must
have deleted the file; when it writes the error file, the `.download`
file must have gone, or a file operation have failed. `OnTheWay` says so, and `Safe` is the three together.
`StillSafe`, `GoOnSafe` and `DeletedIsSafe` cover every step but `Report` and
`Rename`.

`YoungFilesStay` is about one step, but what makes it true happened before: the clean-up
looks at a file's age and deletes it a step later. `Found` says what it still knows
then: the query that made the file is past making it again, and if the file is no longer
expired it is a `.download` file that its query has begun to write to. `FoundAlways` proves
that of all steps in between, `YoungFiles` follows. Only model-checked: the liveness properties.

### What the model tells

* A result that is listed as complete may be a part of the answer: what `transferFrom` returns is not looked at
  (line 191), and whatever was copied without an exception gets its name (line 222). No property can promise more
  than `CompleteHasEnded` does.
* A `.download` file that cannot be renamed stays behind although its query counts as done, until it expires;
  one that cannot be deleted stays next to its error file.
* The clean-up may delete the folder that a failing task has just emptied
  (line 469), and the error file cannot be written: the query ends without a trace.
  A query that waits for a worker for four hours loses its
  `.download` file, and is loaded into a new one, or fails with its folder.
* The one young file the clean-up can delete is a `.download` file that it found
  expired and that its task begins to write to at that moment. The task then loads the whole answer
  and finds nothing to rename.
* A file that vanishes under the clean-up ends the whole walk; the rest waits for the next hour.
* The comment on the pool says its size is 2 (line 74), the constant is 10 (line 76).

## 6. Queries

### Correspondence

| TLA+ | code |
|---|---|
| `table`, `interval`, `asked` | what `AisStoreQueryBuilder` was given: by time, or by MMSI numbers or cells, one `AisStoreQuery` each |
| `stored`, `Select` | the rows in Cassandra and the statement's `WHERE` |
| `unread`, `packets`, `currentRow` | the result set's rest and the list of packets of an `AisStoreQuery`, and its position |
| `queries`, `inner` | the list and the future in `AisStoreQueryInnerContext` |
| `ahead`, `taken` | what the merging iterator of the library has in hand |
| `released` | packets returned to the caller |
| `Poll`, `Fetch`, `FetchFails`, `EndQuery` | one call of `computeNext`: a packet left, a batch read, an exception, the end |
| `Take`, `Return`, `Cancel` | the iterator of `AisStoreQueryResult` |

Packets are numbered in Cassandra's order, so a list in that order is a set
whose least element comes first. Cassandra's answer is external and is fixed when the query is made; keys do not
overlap; the tables by cell behave as that by MMSI. `taken` separates what the
merge has chosen from what it has returned, since it may ask the query for its
next packet, which may end, before it returns the last one.

### Contract

`PacketStream`: the packets asked for come out in the order of their timestamps, each once;
the future is done when none is left, or one is on its way. A
cancelled result can still be iterated over.

### Runs

| run | bounds | shows |
|---|---|---|
| `query_merge` | every subset of 6 packets, 4 intervals, queries by time and by one or two keys, batches of 2, blocks of 2 and 4 ms | `EachInOnePlace`, `EndedIsComplete`, `ImplementsPacketStream`, `ResultEnds` |
| `query_inclusive` | the same | *violated*: `StartIsIncluded` |

The packets lie at the start of an interval, at its stop, on both sides of a
block's end, and two of different keys share a timestamp; the intervals are a usual one, one
wider than all packets, an empty one, and one inside a block; four rows in batches of 2 make an answer that
ends exactly with a batch. A result that nobody reads stops, and so does one that has ended:
deadlock is not checked. Fairness (`ResultEnds` only): the caller goes on to iterate.

### Proofs

`StoreQueryProofs` assumes `QueryAssumption`: timestamps grow with the packets' numbers, blocks and
batches are not empty, intervals do not end before they start. `BlockMonotone` and `BlocksCoverInterval`: a
timestamp inside the interval lies in one of the blocks asked for, so that `Select` is `WantedBy`.
`LastRowIsLast`: no wanted row lies beyond the last block, so that `currentRow` never passes `lastRow` while
rows are left. `FirstInFront`: a batch comes before the rest. The inductive
invariant `IInv` is the conjunction of `TypeOK`, `Kept` (no packet is forgotten), `RowsInRange`
(rows left can be fetched), `InOnePlace` (none is there twice), `InOrder` (what was taken comes before all in
hand) and `DoneAtEnd`. `NoneLostOrTwice` (each packet asked for is in exactly one place from its table to the caller,
`EachInOnePlace`) follows from the types, `Kept` and `InOnePlace`; `EndedIsComplete` from `Kept`, the
refinement from all of them. Only model-checked: `ResultEnds`.

### What the model tells

* The statement asks for timestamps after the start (`AisStoreQuery.java:206`, `215`), the
  builder promises an inclusive start (`AisStoreQueryBuilder.java:54`).
* When a page cannot be fetched the query stays in the list, and the future
  never completes nor fails: `getState` says "Running" for good.
* Cancelling completes the future, but a caller who iterates gets all packets.
* The loop over `currentRow` runs at most once, as one statement asks for all blocks; `EndedIsComplete`
  shows that the position it keeps does no harm.

## 7. The store writer

### Correspondence

| TLA+ | code |
|---|---|
| `tracker`, `Recent`, `clock` | the cache of positions, the expiry of its entries (`expireAfterWrite`), the clock it uses |
| `getPosition`, `MergedEntry`, `Track` | `getPosition`: a position of the packet's own or of the cache, and the merge |
| `Rows`, `storeByTime`, `storeByMmsi`, `storeByArea` | the statements of a packet and their conditions |
| `messages`, `statements` | the batch under way |
| `handleMessage`, `WriteBatch`, `RejectBatch`, `FailBatch` | one message of a batch, and the batch's three ends |
| `waiting` | packets to come: new ones, and those of failed batches, which come back in any order (`Archiver` says how) |

A row is its table, its cell and its packet: the time block follows from the packet's timestamp
(`StoreQuery` has it), the key by number from the packet. The table of 10 degree cells is
switched off in the code (`AisStoreSchema.java`). The batch is a logged one: it is applied as a whole, although
perhaps after the driver has given up. The cache and its clock are external. An entry's time
begins anew whenever it is written, even if the merge writes the old value back.

### Run

| run | bounds | shows |
|---|---|---|
| `writer_rows` | 5 packets: two positions of a ship and a message without one, a position of another ship without a valid timestamp, a packet that cannot be decoded; batches of 2, a timeout of 2, a clock up to 3, one failed write, one restart | `TypeOK`, `TrackerIsNewest`, `TablesAgree`, `FiledTwiceAfterFailure`, `FiledAtNewestPosition` |

A clock up to 3 lets an entry be written, renewed by an older position and expire. The clock
stops at its bound and all packets may have been handled, so deadlock is not checked. No fairness is assumed.

### Proofs

`StoreWriterProofs` assumes `WriterAssumption`: each packet has a sender, a timestamp and perhaps a
position, one that cannot be decoded has none, sizes are positive. `IInv` adds to the types: `EntryIsLast` (an entry
is as old as the last position of its ship, without which `TrackerIsNewest` does not survive a tick of the clock),
`AllRows` (the store and the batch hold all rows of a packet or none) and
`FiledOnce` (what is stored comes up again only after a failure). `TrackStep` and `TickStep` are about the tracker,
`HandleStep` and `EndStep` about the rows. All five properties of the run are proved, for any packets in
any order and any number of failures.

### What the model tells

* The comments speak of the last position received, for 20 minutes (`DefaultAisStoreWriter.java:61`,
  `179`). The cache keeps the one with the greatest timestamp, and every older one that arrives
  gives it another 20 minutes: a position with a timestamp in the future stays for as long as
  the ship sends positions. `TrackerIsNewest` says no more than the code does.
* The cache's clock is not that of the packets. Packets restored or imported hours later are filed under the
  position of the moment they are handled, if they tell none.
* A packet whose batch failed may be filed in two cells, or in a cell and as unknown; the digest in
  the key (`AisStoreSchema.java:46`) prevents duplicates in the other tables only.
* A packet with a number but no valid timestamp is stored by number only.

## 8. The query form

### Correspondence

`FilterValidation` is the directive `filterValidate`, `QueryForm` the controller
`AisQueryCtrl` with its boxes and the storage, and `QueryPage` both together: the
directive's text is the form's `advancedFilter`.

| TLA+ | code |
|---|---|
| `params`, `downloadUrl`, `downloadDisabled` | the fields of the scope; `txt` and `lists` are `sourceTxt`, `sourceCountries` and so on, by box |
| `facets`, `loose`, `ready` | `searchQuery` of each box, the text in its input, whether `init`'s timeout has fired |
| `stored`, `sent` | the entry in the browser's storage, the last query |
| `LeaveFacet`, `Search`, `TypeInBox` | a facet edited without a search, the `search` callback, text in the input |
| `Digest`, `validateTimeInterval`, `Url` | the watchers of dates and format, and `updateDownloadUrl` |
| `execute`, `openInAisStore`, `clear`, `reset`, `Load`, `FiltersReady` | the functions of the same names (`copy` is `openInAisStore`), loading of a page and its timeout of 100 ms |
| `timers`, `promise`, `questions`, `validity` | validations scheduled, the one `timeout` remembers, requests under way, `$setValidity` |
| `Type`, `TimerFires`, `Answer`, `AnswerFails` | `validateAsync`, its timeout and its two callbacks |

A facet is a category and a value; an address is a record of its parts; dates are
numbers. The numbers of ships in `mmsi` are one of the options. Storing may
fail, as a browser can refuse it. `savedUrl`, `savedLoose`, `restored`, `typed`, `done` and
`upset` record what has happened. Before the boxes are set up a query
cannot be sent, as that throws.

### Run

| run | bounds | shows |
|---|---|---|
| `page` | 4 events of the user, 3 dates, 2 hours, 3 filters, one of them invalid, up to 2 facets in each box (two source types, a facet without a value), an area with a bound of zero | `IntervalOrdered`, `ReloadRestores`, `LastEditIsJudged`, `SentIsShown`, `EditsSettle` |

Four events suffice for a facet left in its box, a change, a query and a clearing or a date
between them; loads, timers and answers do not count. With dates 0, 1 and 4, intervals of 2 and
pages loaded at 0 and 3 every order of two ends occurs. Fairness (`EditsSettle` only): timers
fire, and a browser reports an answer or a failure for every request. A page nobody uses comes to
rest only at its bound; it can always be loaded again, so that deadlock is checked.

### Proofs

All are in `QueryFormProofs`. `FormAssumption` says that dates and hours are integers. `PageIsForm` and `PageIsValidation` prove that the
page implements the form and the directive, so that what is proved of either is true of the page
(`FilterIsJudged` is `LastEdit` of the directive, carried over).

Of the directive: `LastEditIsJudged` is not inductive, as nothing in it tells which answer
comes last. `InTurn` (a timer that is set belongs to a later edit than any question asked, as
timers fire in the order they were set) and `ShowsLatest` (what is shown is the verdict of the latest edit answered)
make it so.

Of the form: `ValidateOrders` shows that one of the two ends always follows, which needs that one of them
has changed, hence `Ordered` as an invariant. `RecomputedIsShown` says that the address put together
before sending is that of the boxes, whatever the lists were. For `ReloadRestores` the invariant adds that the lists and
texts stored are those of the query sent (`Kept`), and that a page which shows them has them in its parameters and, once set up, in
its boxes (`ShownAgain`). Only model-checked: `EditsSettle`.

### What the model tells

* An answer sets the remembered timer to nothing (`app-directives.js:75`), also if it is
  that of a later text: the next change cannot cancel it then, as the comment (line 65)
  says it does, and both texts are asked about.
* Requests are not cancelled. An answer that is overtaken by that of a later text leaves its verdict; a
  request that fails leaves the verdict of an older text. `upset` marks these cases.
* Clearing the form empties the filter without its parser: a form marked invalid stays
  so, and a question under way will still mark the empty text. A filter that a page restores is not validated.
* Text that stands in a box's input when a query is sent is stored with the facets but
  is not in the query; after a reload it may be a facet, and the query another one.
* Only facets, dates and the output format put the address together at once; all that is sent or
  opened is put together anew, which `SentIsShown` relies on.

## 9. The area editor

### Correspondence

| TLA+ | code |
|---|---|
| `area`, `mapShown` | `params.area`, `showAreaMap` |
| `bound`, `text`, `editing` | the bound each of the four fields has seen (`$modelValue`), what it shows, and the field that has the focus |
| `boxActive`, `control` | the pencil, and the drawing control that a watcher sets after it |
| `seen`, `layer`, `sketch` | the area the watcher of the map has seen, that area's box on the map, and boxes drawn by hand that no new area has replaced |
| `Type`, `Leave`, `Parsed`, `Shown` | `$parsers`, the `change` handler and `$formatters` of the directives `latitude` and `longitude`, with the functions of `position.js` |
| `clearArea`, `toggleMap`, `removeArea`, `readFeatureGeometry` | the functions of the same names; the map is made and destroyed by `ng-if` |
| `phase`, `WatchField`, `WatchPencil`, `WatchArea`, `EndDigest` | a digest: the watchers, one at a time and in any order, until none finds a change; `drawn` is the digest inside of the event of a box that was drawn, after which the handler releases the pencil |
| `Digest` | a digest some other event of the page causes |

A coordinate is an integer, in ten-thousandths of a minute; a text is what the parser tells
apart. Bounds are not restricted: the fields are text inputs, and anything that parses is accepted. A bound may be
missing, not a number (`NaN`), or `Null`, which is what the browser's storage makes of that. The formatter runs
behind that of Angular's text input and gets zero as a text, so a bound of zero is shown. What OpenLayers does is external: a box
that is drawn has two corners. Projection is left out, so that the model shows the box of an area which the real map has no
room for, beyond the poles.

### Run

| run | bounds | shows |
|---|---|---|
| `area` | 7 events; 7 texts (a number, zero, 120 degrees, a position in the south or west, words and other texts that are no numbers, nothing); 3 boxes, one that rounds up to 60 minutes, one on the equator; pages loaded without an area and with one that has a zero and a null | `MapShowsArea`, `ShownIsArea`, `DrawnIsArea` |

Seven events show the map, press the pencil, draw, type and leave a field, and draw
again; the steps of their digests are not counted. After the last event the editor may come to rest, but clearing is always possible.
No fairness is assumed.

### Proofs

`AreaAssumption` gives the constants their types; it bounds no coordinate. `RoundTrip`: a coordinate that is formatted
and parsed has moved by half a thousandth of a minute at most, also if 59.9996
minutes were shown as 60.000, if the digits of the degrees have room for it; `ShownIsArea` has the same condition. The
invariant (`Invariance`) holds inside of digests as well: every field shows the bound it has seen (`FieldsTrue`), the map the area it has
seen (`MapTrue`), and between events both have seen the area (`Settled`). After the pencil was used the area
is empty (`FreshIsEmpty`), which is why a box that is drawn then is
not united with an older one. All three properties of the run are proved, for any order of the watchers.

### What the model tells

* A bound of zero counts as missing (`app-ctrl.js:329-332`, `app-directives.js:227`): an area that touches the equator or the zero
  meridian is neither sent nor drawn, although its fields show it.
* Nothing checks the range of what is typed. Latitudes of 100 degrees and longitudes of 1000 degrees or more are sent as
  they are and shown without their first digit, those ten times as large garbled (`position.js:38`, `55`).
* Words before a letter of a hemisphere become a bound that is not a number. The field is emptied by the next digest; in a
  page loaded again the bound is null, and a box that is drawn is united with zero.
* If the area is not drawn, the control stays active until the next digest: another box can be drawn,
  which is united with the first.
* A box drawn inside the area changes nothing and stays on the map as drawn, next to that of the area: `MapShowsArea` says so
  by `sketch`.

## 10. The result list

### Correspondence

| TLA+ | code |
|---|---|
| `clientId`, `files`, `badgeColor` | the id in the storage, and the fields of `AisResultsCtrl` in each tab |
| `requests` | `$http` calls under way, which the service may have dealt with |
| `Refresh`, `listFiles`, `Listed` | the timer, `updateFiles` and its callback |
| `execute`, `Executed` | the form's query and its callback |
| `openFile`, `deleteFile`, `deleteFiles`, `reset`, `Deleted`, `Fail` | the functions of the same names, and their callbacks |
| `ServeList`, `ServeExecute`, `ServeDelete`, `ServeDeleteAll` | `QueryService.listFiles`, `executeQuery`, `deleteFile`, `deleteFiles` |
| `job`, `Start`, `Finish`, `Break`, `Report`, `Die` | the task of `asyncLoadFile`, which knows nothing of requests: it opens its file anew if all files were deleted while it was queued, and writes an error file as well |
| `repo`, `owner` | the file a query has at the moment, and the client it was made for |
| `Interrupted` | the error path of `executeQuery` (lines 265-278): its wait ends early, and the answer names the `.download` file |

`loadedAs` and `early` record what has happened. A file is used once, since names are unique.
The service is that of section 5 as tabs see it: requests and the task are those of `QueryService.java` in coarser steps,
deleting all may stop at any file, and a result is not told from a part of it; the pool, crashes and the clean-up are left to `QueryService`.

### Run

| run | bounds | shows |
|---|---|---|
| `list` | 2 tabs, 1 file, 3 clicks, 1 failure (a request, a wait, a rename, an error file or the task itself), one list by the timer under way in each tab | `OpenedHasEnded`, `ResetForgets`, `ListConverges` |

Three clicks ask for a result, open or delete it in either tab, and reset. The list a
deletion asks for comes on top of the timer's, so that two lists of one tab can be answered
in either order. Fairness (`ListConverges` only): the timer of each tab
goes on, its requests are dealt with as long as there are any, and a query ends. Nothing
is assumed of the order.

### Proofs

`DownloadListProofs` assumes `ListAssumption`: bounds are numbers, files are finitely many. Neither invariant is
inductive: a list that is shown was an answer under way before, and a request before that.
`NamesAreTrue`: a file without the suffix `.download` is that of a query that has ended. `ListsAreTrue`
says of answers under way what must hold of the lists shown (`MayList`: the file was
made for an id no older than the tab's, and its query has ended if the list says it is complete), and
`AsksAsLoaded` that no request is for an older id than that with which its tab was loaded. `FilesApart`: a query
the service has not seen makes a file nobody has, so that the query of a listed file cannot begin
again. `OpenedHasEnded` is part of the invariant, `ResetForgets` follows from `ListsAreTrue`.
Both are proved (`OpenedEnded`, `ResetIsFinal`) for any tabs and files. Only model-checked: `ListConverges`.

### What the model tells

* An old list may replace a newer one; the next list repairs that, at the latest after five seconds.
* A result is opened by its name without a look at the service: it may have been deleted by another tab, or be a
  part of the answer (section 5), but its query has ended. The one exception is a wait that is interrupted: the page opens the
  `.download` file at once (`app-ctrl.js:505`).
* Deleting all does not stop a query that is queued: its file is back when it begins.
* After a reset the other tabs use the new id for their next request, but show the old files until then.
* The notice "Download Scheduled" comes before the answer (`app-ctrl.js:512`), and a
  query that fails leaves no trace (line 509).

## 11. What is not modelled

The SSTable writers, the batch import, the comparison and the
statistics are planned (section 2). The local export and the past track service keep no
state of their own: they make one query and filter it. The connection starts and
stops a session of the driver. The job manager is not used. The serializers and the start-up
of the command-line tools are presentation and parameters. Of the web pages, the libraries, the
tables of countries and ship types, which only offer values, and the format of file sizes are
left out; so are the encoding of the address, texts of facets with both kinds of quotes, and what
OpenLayers does with a box but to draw it. Liveness and `ENABLED` are out of the prover's reach and are only model-checked.
